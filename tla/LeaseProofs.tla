---------------------------- MODULE LeaseProofs ----------------------------
(***************************************************************************)
(* The fence of a Valkey lease is sound for every TTL, every set of        *)
(* instances and any delay or loss of commands and replies.                *)
(***************************************************************************)
EXTENDS Lease, TLAPS

\* The key is unset exactly when no TTL is left.
KeyInv == key = NoToken <=> left = 0

\* Acquisitions have tokens of their own.
OwnInv ==
    /\ \A i \in Inst : pc[i] = "idle" <=> tok[i] = NoToken
    /\ \A i, j \in Inst : tok[i] = tok[j] /\ tok[i] # NoToken => i = j

\* Only a guard that is being released, or one that is gone, has a DEL under
\* way.
DelInv ==
    \A i \in Inst : pc[i] \in {"acquiring", "held"} => Cmd("del", tok[i]) \notin net

\* A reply is there only for a caller that awaits it.
ReplyInv ==
    \A r \in replies : \E i \in Inst : tok[i] = r.tok /\ Awaited(i) = r.op

\* The latch.
LatchInv ==
    \A i \in Inst : /\ valid[i] => pc[i] = "held"
                    /\ failed[i] => ~valid[i] /\ pc[i] \in {"held", "releasing"}

\* The server has owed the holder at least Ttl since the instant `a' ago at
\* which an accepted command was sent.
Owed(i, a) == a < Ttl => key = tok[i] /\ left + a >= Ttl

GrantInv ==
    \A i \in Inst :
        /\ pc[i] = "acquiring" /\ Reply("set", tok[i], TRUE) \in replies => Owed(i, wait[i])
        /\ valid[i] => Owed(i, age[i])
        /\ valid[i] /\ renew[i] = "sent" /\ Reply("renew", tok[i], TRUE) \in replies
              => Owed(i, wait[i])

LeaseInv ==
    TypeOK /\ KeyInv /\ OwnInv /\ DelInv /\ ReplyInv /\ LatchInv /\ GrantInv
-----------------------------------------------------------------------------
(* Every step keeps the invariant.                                         *)

\* The server runs a command.
LEMMA ServeKeeps ==
    ASSUME LeaseInv, NEW c \in net, Serve(c)
    PROVE  LeaseInv'
<1> USE DEF LeaseInv
<1>1. TypeOK'
  <2>1. c.op \in {"set", "renew", "del"} /\ c.tok \in Token
    BY Zenon DEF TypeOK
  <2>2. key' \in Token \cup {NoToken} /\ left' \in 0..Ttl
    BY <2>1, LeaseConstants DEF Serve, ServeSet, ServeRenew, ServeDel, serverVars, TypeOK
  <2>3. Reply(c.op, c.tok, Accepts(c)) \in
           [op : {"set", "renew", "del"}, tok : Token, yes : BOOLEAN]
    BY Zenon, <2>1 DEF Reply, Accepts
  <2>4. /\ net' \subseteq [op : {"set", "renew", "del"}, tok : Token]
        /\ replies' \subseteq [op : {"set", "renew", "del"}, tok : Token, yes : BOOLEAN]
    BY Zenon, <2>3 DEF Serve, TypeOK
  <2> QED  BY Zenon, <2>2, <2>4 DEF Serve, TypeOK
<1>2. KeyInv'
  BY LeaseConstants DEF Serve, KeyInv, TypeOK, ServeSet, ServeRenew, ServeDel,
     serverVars
<1>3. OwnInv'
  BY Zenon DEF Serve, OwnInv
<1>4. DelInv'
  BY Zenon DEF Serve, DelInv
<1>5. ReplyInv'
  BY DEF Serve, ReplyInv, Awaited, Reply
<1>6. LatchInv'
  BY Zenon DEF Serve, LatchInv
<1>7. GrantInv'
  BY LeaseConstants DEF Serve, GrantInv, DelInv, OwnInv, LatchInv, TypeOK,
     Owed, Reply, Cmd, ServeSet, ServeRenew, ServeDel, Accepts, serverVars
<1> QED  BY Zenon, <1>1, <1>2, <1>3, <1>4, <1>5, <1>6, <1>7

\* A connection breaks.
LEMMA LoseKeeps ==
    ASSUME LeaseInv, Lose
    PROVE  LeaseInv'
<1> USE DEF LeaseInv
<1>1. TypeOK'
  BY Zenon DEF Lose, TypeOK
<1>2. KeyInv'
  BY Zenon DEF Lose, KeyInv
<1>3. OwnInv'
  BY Zenon DEF Lose, OwnInv
<1>4. DelInv'
  BY Zenon DEF Lose, DelInv
<1>5. ReplyInv'
  BY Zenon DEF Lose, ReplyInv, Awaited
<1>6. LatchInv'
  BY Zenon DEF Lose, LatchInv
<1>7. GrantInv'
  BY Zenon DEF Lose, GrantInv, Owed, Reply
<1> QED  BY Zenon, <1>1, <1>2, <1>3, <1>4, <1>5, <1>6, <1>7

\* Time passes, the key may expire.
LEMMA TickKeeps ==
    ASSUME LeaseInv, Tick
    PROVE  LeaseInv'
<1> USE DEF LeaseInv
<1>1. TypeOK'
  BY LeaseConstants DEF Tick, TypeOK, Smaller, Larger, AgeCap, WaitCap,
     TimerCap, RenewPeriod
<1>2. KeyInv'
  BY DEF Tick, KeyInv, TypeOK
<1>3. OwnInv'
  BY Zenon DEF Tick, OwnInv
<1>4. DelInv'
  BY Zenon DEF Tick, DelInv
<1>5. ReplyInv'
  BY Zenon DEF Tick, ReplyInv, Awaited
<1>6. LatchInv'
  BY Zenon DEF Tick, LatchInv
<1>7. GrantInv'
  BY LeaseConstants DEF Tick, GrantInv, LatchInv, TypeOK, Owed, Awaited,
     Reply, Smaller, Larger, AgeCap, WaitCap
<1> QED  BY Zenon, <1>1, <1>2, <1>3, <1>4, <1>5, <1>6, <1>7

\* try_acquire sends its SET.
LEMMA AcquireKeeps ==
    ASSUME LeaseInv, NEW i \in Inst, Acquire(i)
    PROVE  LeaseInv'
<1> USE DEF LeaseInv
<1>1. TypeOK'
  BY DEF Acquire, TypeOK, Cmd, Fresh
<1>2. KeyInv'
  BY Zenon DEF Acquire, KeyInv
<1>3. OwnInv'
  BY DEF Acquire, OwnInv, TypeOK, Fresh
<1>4. DelInv'
  BY DEF Acquire, DelInv, TypeOK, Cmd, Fresh
<1>5. ReplyInv'
  BY ZenonT(60) DEF Acquire, ReplyInv, TypeOK, Awaited
<1>6. LatchInv'
  BY DEF Acquire, LatchInv
<1>7. GrantInv'
  BY DEF Acquire, GrantInv, LatchInv, TypeOK, Owed, Reply, Fresh
<1> QED  BY Zenon, <1>1, <1>2, <1>3, <1>4, <1>5, <1>6, <1>7

\* try_acquire gets the lease.
LEMMA AcquireWonKeeps ==
    ASSUME LeaseInv, NEW i \in Inst, AcquireWon(i)
    PROVE  LeaseInv'
<1> USE DEF LeaseInv
<1>1. TypeOK'
  BY Zenon, LeaseConstants DEF AcquireWon, TypeOK, Without, Anchor, Smaller, AgeCap
<1>2. KeyInv'
  BY Zenon DEF AcquireWon, KeyInv
<1>3. OwnInv'
  BY DEF AcquireWon, OwnInv
<1>4. DelInv'
  BY DEF AcquireWon, DelInv
<1>5. ReplyInv'
  BY DEF AcquireWon, ReplyInv, Awaited, Without
<1>6. LatchInv'
  BY Zenon DEF AcquireWon, LatchInv, TypeOK
<1>7. GrantInv'
  BY LeaseConstants DEF AcquireWon, GrantInv, TypeOK, Owed, Awaited, Reply,
     Answered, Without, Anchor, Smaller, AgeCap
<1> QED  BY Zenon, <1>1, <1>2, <1>3, <1>4, <1>5, <1>6, <1>7

\* try_acquire does not get it.
LEMMA AcquireLostKeeps ==
    ASSUME LeaseInv, NEW i \in Inst, AcquireLost(i)
    PROVE  LeaseInv'
<1> USE DEF LeaseInv
<1>1. TypeOK'
  BY Zenon DEF AcquireLost, TypeOK, Forget, Without
<1>2. KeyInv'
  BY Zenon DEF AcquireLost, KeyInv, Forget
<1>3. OwnInv'
  BY Zenon DEF AcquireLost, OwnInv, TypeOK, Forget
<1>4. DelInv'
  BY Zenon DEF AcquireLost, DelInv, TypeOK, Forget
<1>5. ReplyInv'
  BY DEF AcquireLost, ReplyInv, Awaited, Forget, Without
<1>6. LatchInv'
  BY DEF AcquireLost, LatchInv, Forget
<1>7. GrantInv'
  BY Zenon DEF AcquireLost, GrantInv, TypeOK, Owed, Reply, Forget, Without
<1> QED  BY Zenon, <1>1, <1>2, <1>3, <1>4, <1>5, <1>6, <1>7

\* try_acquire abandons its SET.
LEMMA AcquireTimesOutKeeps ==
    ASSUME LeaseInv, NEW i \in Inst, AcquireTimesOut(i)
    PROVE  LeaseInv'
<1> USE DEF LeaseInv
<1>1. TypeOK'
  <2>1. tok[i] \in Token
    BY Zenon DEF AcquireTimesOut, OwnInv, TypeOK
  <2>2. net' \subseteq [op : {"set", "renew", "del"}, tok : Token]
    BY <2>1 DEF AcquireTimesOut, TypeOK, Cmd
  <2> QED  BY Zenon, <2>2 DEF AcquireTimesOut, TypeOK, Forget, Without
<1>2. KeyInv'
  BY Zenon DEF AcquireTimesOut, KeyInv, Forget
<1>3. OwnInv'
  BY Zenon DEF AcquireTimesOut, OwnInv, TypeOK, Forget
<1>4. DelInv'
  BY Zenon DEF AcquireTimesOut, DelInv, OwnInv, TypeOK, Cmd, Forget
<1>5. ReplyInv'
  BY DEF AcquireTimesOut, ReplyInv, Awaited, Forget, Without
<1>6. LatchInv'
  BY DEF AcquireTimesOut, LatchInv, Forget
<1>7. GrantInv'
  BY Zenon DEF AcquireTimesOut, GrantInv, TypeOK, Owed, Reply, Forget, Without
<1> QED  BY Zenon, <1>1, <1>2, <1>3, <1>4, <1>5, <1>6, <1>7

\* The renew task sends a renewal.
LEMMA RenewSendKeeps ==
    ASSUME LeaseInv, NEW i \in Inst, RenewSend(i)
    PROVE  LeaseInv'
<1> USE DEF LeaseInv
<1>1. TypeOK'
  <2>1. tok[i] \in Token
    BY Zenon DEF RenewSend, OwnInv, TypeOK
  <2>2. net' \subseteq [op : {"set", "renew", "del"}, tok : Token]
    BY <2>1 DEF RenewSend, TypeOK, Cmd
  <2> QED  BY <2>2, LeaseConstants DEF RenewSend, TypeOK, RenewPeriod, Larger
<1>2. KeyInv'
  BY Zenon DEF RenewSend, KeyInv
<1>3. OwnInv'
  BY Zenon DEF RenewSend, OwnInv
<1>4. DelInv'
  BY Zenon DEF RenewSend, DelInv, Cmd
<1>5. ReplyInv'
  BY ZenonT(60) DEF RenewSend, ReplyInv, TypeOK, Awaited
<1>6. LatchInv'
  BY Zenon DEF RenewSend, LatchInv
<1>7. GrantInv'
  BY DEF RenewSend, GrantInv, ReplyInv, OwnInv, Owed, Awaited, Reply
<1> QED  BY Zenon, <1>1, <1>2, <1>3, <1>4, <1>5, <1>6, <1>7

\* mark_renewed.
LEMMA RenewAcceptedKeeps ==
    ASSUME LeaseInv, NEW i \in Inst, RenewAccepted(i)
    PROVE  LeaseInv'
<1> USE DEF LeaseInv
<1>1. TypeOK'
  BY Zenon DEF RenewAccepted, TypeOK, MarkRenewed, Without, Smaller
<1>2. KeyInv'
  BY Zenon DEF RenewAccepted, KeyInv
<1>3. OwnInv'
  BY Zenon DEF RenewAccepted, OwnInv
<1>4. DelInv'
  BY Zenon DEF RenewAccepted, DelInv
<1>5. ReplyInv'
  BY DEF RenewAccepted, ReplyInv, Awaited, Without
<1>6. LatchInv'
  BY Zenon DEF RenewAccepted, LatchInv
<1>7. GrantInv'
  BY DEF RenewAccepted, GrantInv, Owed, Awaited, Reply, MarkRenewed, Answered,
     Without, Smaller
<1> QED  BY Zenon, <1>1, <1>2, <1>3, <1>4, <1>5, <1>6, <1>7

\* The renew task latches the fence and ends.
LEMMA RenewFailsKeeps ==
    ASSUME LeaseInv, NEW i \in Inst, RenewFails(i)
    PROVE  LeaseInv'
<1> USE DEF LeaseInv
<1>1. TypeOK'
  BY Zenon DEF RenewFails, TypeOK, Without
<1>2. KeyInv'
  BY Zenon DEF RenewFails, KeyInv
<1>3. OwnInv'
  BY Zenon DEF RenewFails, OwnInv
<1>4. DelInv'
  BY Zenon DEF RenewFails, DelInv
<1>5. ReplyInv'
  BY DEF RenewFails, ReplyInv, Awaited, Without
<1>6. LatchInv'
  BY DEF RenewFails, LatchInv
<1>7. GrantInv'
  BY DEF RenewFails, GrantInv, Owed, Reply, Without
<1> QED  BY Zenon, <1>1, <1>2, <1>3, <1>4, <1>5, <1>6, <1>7

\* A check that fails latches the fence.
LEMMA CheckFailsKeeps ==
    ASSUME LeaseInv, NEW i \in Inst, CheckFails(i)
    PROVE  LeaseInv'
<1> USE DEF LeaseInv
<1>1. TypeOK'
  BY Zenon DEF CheckFails, TypeOK
<1>2. KeyInv'
  BY Zenon DEF CheckFails, KeyInv
<1>3. OwnInv'
  BY Zenon DEF CheckFails, OwnInv
<1>4. DelInv'
  BY Zenon DEF CheckFails, DelInv
<1>5. ReplyInv'
  BY Zenon DEF CheckFails, ReplyInv, Awaited
<1>6. LatchInv'
  BY Zenon DEF CheckFails, LatchInv, TypeOK
<1>7. GrantInv'
  BY DEF CheckFails, GrantInv, Owed, Reply
<1> QED  BY Zenon, <1>1, <1>2, <1>3, <1>4, <1>5, <1>6, <1>7

\* LeaseGuard::release sends its DEL.
LEMMA ReleaseKeeps ==
    ASSUME LeaseInv, NEW i \in Inst, Release(i)
    PROVE  LeaseInv'
<1> USE DEF LeaseInv
<1>1. TypeOK'
  <2>1. tok[i] \in Token
    BY Zenon DEF Release, OwnInv, TypeOK
  <2>2. net' \subseteq [op : {"set", "renew", "del"}, tok : Token]
    BY <2>1 DEF Release, TypeOK, Cmd
  <2> QED  BY Zenon, <2>2 DEF Release, TypeOK, Without
<1>2. KeyInv'
  BY Zenon DEF Release, KeyInv
<1>3. OwnInv'
  BY DEF Release, OwnInv
<1>4. DelInv'
  BY Zenon DEF Release, DelInv, OwnInv, TypeOK, Cmd
<1>5. ReplyInv'
  BY DEF Release, ReplyInv, Awaited, Without
<1>6. LatchInv'
  BY Zenon DEF Release, LatchInv, TypeOK
<1>7. GrantInv'
  BY DEF Release, GrantInv, Owed, Reply, Without
<1> QED  BY Zenon, <1>1, <1>2, <1>3, <1>4, <1>5, <1>6, <1>7

\* The release ends.
LEMMA ReleaseDoneKeeps ==
    ASSUME LeaseInv, NEW i \in Inst, ReleaseDone(i)
    PROVE  LeaseInv'
<1> USE DEF LeaseInv
<1>1. TypeOK'
  BY Zenon DEF ReleaseDone, TypeOK, Forget, Without
<1>2. KeyInv'
  BY Zenon DEF ReleaseDone, KeyInv, Forget
<1>3. OwnInv'
  BY Zenon DEF ReleaseDone, OwnInv, TypeOK, Forget
<1>4. DelInv'
  BY DEF ReleaseDone, DelInv, Forget
<1>5. ReplyInv'
  BY DEF ReleaseDone, ReplyInv, Awaited, Forget, Without
<1>6. LatchInv'
  BY Zenon DEF ReleaseDone, LatchInv, TypeOK, Forget
<1>7. GrantInv'
  BY Zenon DEF ReleaseDone, GrantInv, TypeOK, Owed, Reply, Forget, Without
<1> QED  BY Zenon, <1>1, <1>2, <1>3, <1>4, <1>5, <1>6, <1>7

\* The guard is dropped.
LEMMA DropGuardKeeps ==
    ASSUME LeaseInv, NEW i \in Inst, DropGuard(i)
    PROVE  LeaseInv'
<1> USE DEF LeaseInv
<1>1. TypeOK'
  BY Zenon DEF DropGuard, TypeOK, Forget, Without
<1>2. KeyInv'
  BY Zenon DEF DropGuard, KeyInv, Forget
<1>3. OwnInv'
  BY Zenon DEF DropGuard, OwnInv, TypeOK, Forget
<1>4. DelInv'
  BY Zenon DEF DropGuard, DelInv, TypeOK, Forget
<1>5. ReplyInv'
  BY DEF DropGuard, ReplyInv, Awaited, Forget, Without
<1>6. LatchInv'
  BY Zenon DEF DropGuard, LatchInv, TypeOK, Forget
<1>7. GrantInv'
  BY Zenon DEF DropGuard, GrantInv, TypeOK, Owed, Reply, Forget, Without
<1> QED  BY Zenon, <1>1, <1>2, <1>3, <1>4, <1>5, <1>6, <1>7
-----------------------------------------------------------------------------
(* The theorems.                                                           *)

\* The backstop ends a third of the TTL before the key can expire.
LEMMA BackstopMargin ==
    Backstop \in Nat /\ Ttl \div 3 \in Nat /\ Backstop + Ttl \div 3 = Ttl /\ Backstop < Ttl
<1>1. Ttl \div 3 \in Nat /\ Ttl \div 3 >= MinPeriod /\ 2 * (Ttl \div 3) <= Ttl
  BY LeaseConstants
<1> QED  BY <1>1, LeaseConstants DEF Backstop, Larger

\* An unset key and idle instances satisfy the invariant.
LEMMA InitHolds == Init => LeaseInv
BY LeaseConstants DEF Init, LeaseInv, TypeOK, KeyInv, OwnInv, DelInv, ReplyInv, LatchInv, GrantInv

\* Every step of the server, of time, of the connections and of an instance
\* keeps it.
LEMMA NextKeeps == LeaseInv /\ [Next]_vars => LeaseInv'
<1> SUFFICES ASSUME LeaseInv, [Next]_vars  PROVE LeaseInv'
  OBVIOUS
<1>1. CASE Tick
  BY Zenon, <1>1, TickKeeps
<1>2. CASE Lose
  BY Zenon, <1>2, LoseKeeps
<1>3. ASSUME NEW c \in net, Serve(c)  PROVE LeaseInv'
  BY Zenon, <1>3, ServeKeeps
<1>4. ASSUME NEW i \in Inst, Holder(i)  PROVE LeaseInv'
  BY Zenon, <1>4, AcquireKeeps, AcquireWonKeeps, AcquireLostKeeps, AcquireTimesOutKeeps,
     RenewSendKeeps, RenewAcceptedKeeps, RenewFailsKeeps, CheckFailsKeeps,
     ReleaseKeeps, ReleaseDoneKeeps, DropGuardKeeps DEF Holder
<1>5. CASE UNCHANGED vars
  <2> USE <1>5 DEF vars, LeaseInv
  <2>1. TypeOK' /\ KeyInv' /\ OwnInv' /\ DelInv' /\ LatchInv'
    BY Zenon DEF TypeOK, KeyInv, OwnInv, DelInv, LatchInv
  <2>2. ReplyInv'
    BY Zenon DEF ReplyInv, Awaited
  <2>3. GrantInv'
    BY Zenon DEF GrantInv, Owed
  <2> QED  BY Zenon, <2>1, <2>2, <2>3
<1> QED  BY Zenon, <1>1, <1>2, <1>3, <1>4, <1>5 DEF Next

\* The server has owed every holder its TTL since the last accepted command was
\* sent (mark_renewed, lease.rs 46-51): LeaseInv holds in every reachable state.
THEOREM Invariance == Spec => []LeaseInv
<1> QED  BY InitHolds, NextKeeps, PTL DEF Spec

\* The key, the guards and the messages keep their types.
THEOREM TypeCorrect == Spec => []TypeOK
<1>1. LeaseInv => TypeOK
  BY Zenon DEF LeaseInv
<1> QED  BY <1>1, Invariance, PTL

\* A fence that passes is younger than the backstop, so the key is still owed.
LEMMA InvImpliesSound == LeaseInv => FenceSound
<1> SUFFICES ASSUME LeaseInv, NEW i \in Inst, Passes(i)
             PROVE  key = tok[i] /\ left > Ttl \div 3
  BY Zenon DEF FenceSound
<1>1. valid[i] /\ age[i] < Backstop /\ age[i] \in Nat /\ left \in Nat
  BY DEF Passes, LeaseInv, TypeOK
<1>2. age[i] < Ttl
  BY <1>1, BackstopMargin, LeaseConstants
<1>3. key = tok[i] /\ left + age[i] >= Ttl
  BY Zenon, <1>1, <1>2 DEF LeaseInv, GrantInv, Owed
<1> QED  BY <1>1, <1>3, BackstopMargin, LeaseConstants

\* While a guard's fence passes, the key on the server is that guard's and a
\* third of the TTL is left (ValkeyFence::check_at, backstop_for), for every
\* TTL, any number of instances and any delay, loss or crash.
THEOREM FenceIsSound == Spec => []FenceSound
<1> QED  BY Invariance, InvImpliesSound, PTL

\* Two instances never pass their fences at the same time (lease.rs 11-16).
THEOREM MutualExclusion == Spec => []OneActs
<1>1. LeaseInv => OneActs
  <2> SUFFICES ASSUME LeaseInv, NEW i \in Inst, NEW j \in Inst, Passes(i), Passes(j)
               PROVE  i = j
    BY Zenon DEF OneActs
  <2>1. key = tok[i] /\ key = tok[j]
    BY Zenon, InvImpliesSound DEF FenceSound
  <2>2. tok[i] # NoToken
    BY Zenon DEF LeaseInv, OwnInv, Passes
  <2> QED  BY Zenon, <2>1, <2>2 DEF LeaseInv, OwnInv
<1> QED  BY <1>1, Invariance, PTL

\* A guard whose check failed stays fenced off (ValkeyFence::check_at).
THEOREM FailedCheckIsFinal == Spec => []NoFlap
<1>1. LeaseInv => NoFlap
  BY Zenon DEF LeaseInv, LatchInv, NoFlap, Passes
<1> QED  BY <1>1, Invariance, PTL

\* No step takes the key from a guard whose fence passes (RELEASE_LUA,
\* spawn_abandoned_release, backstop_for).
THEOREM KeyIsSafe == Spec => KeySafeWhilePassing
<1>1. ASSUME LeaseInv, [Next]_vars
      PROVE  [\A i \in Inst : Passes(i) => key' = key]_vars
  <2> SUFFICES ASSUME NEW i \in Inst, Passes(i)  PROVE key' = key
    OBVIOUS
  <2>1. key = tok[i] /\ left > Ttl \div 3
    BY Zenon, <1>1, InvImpliesSound DEF FenceSound
  <2>2. tok[i] # NoToken /\ pc[i] = "held"
    BY Zenon, <1>1 DEF LeaseInv, OwnInv, Passes
  <2>3. CASE Tick
    <3>1. Ttl \div 3 >= 1 /\ Ttl \div 3 \in Nat /\ left \in Nat
      BY <1>1, LeaseConstants DEF LeaseInv, TypeOK
    <3> QED  BY <2>1, <2>3, <3>1 DEF Tick
  <2>4. CASE Lose \/ UNCHANGED vars
    BY Zenon, <2>4 DEF Lose, vars
  <2>5. ASSUME NEW c \in net, Serve(c)  PROVE key' = key
    <3>1. ~(c.op = "del" /\ c.tok = tok[i])
      BY Zenon, <1>1, <2>2 DEF LeaseInv, TypeOK, DelInv, Cmd
    <3> QED  BY Zenon, <2>1, <2>2, <2>5, <3>1 DEF Serve, ServeSet, ServeRenew, ServeDel, serverVars
  <2>6. ASSUME NEW j \in Inst, Holder(j)  PROVE key' = key
    BY Zenon, <2>6 DEF Holder, Acquire, AcquireWon, AcquireLost, AcquireTimesOut, RenewSend,
       RenewAccepted, RenewFails, CheckFails, Release, ReleaseDone, DropGuard, Forget
  <2> QED  BY Zenon, <1>1, <2>3, <2>4, <2>5, <2>6 DEF Next
<1> QED  BY <1>1, Invariance, PTL DEF Spec, KeySafeWhilePassing
=============================================================================
