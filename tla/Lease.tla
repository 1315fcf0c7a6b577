------------------------------- MODULE Lease -------------------------------
(***************************************************************************)
(* One Valkey lease (crates/valkey/src/lease.rs): the key on the server,   *)
(* the instances that compete for it, the commands between them, and the   *)
(* fence (crates/block/src/fence.rs) the holder consults before every      *)
(* irreversible step of a compaction or retention pass.                    *)
(*                                                                         *)
(* A unit of time is a millisecond.  Time is kept as ages and as the TTL   *)
(* that is left, so that it need not be bounded: `Tick' moves the server's *)
(* clock and every monotonic clock together, and every other step may be   *)
(* delayed by any number of ticks, which is how a stalled connection or a  *)
(* task that is not polled shows.                                          *)
(***************************************************************************)
EXTENDS Naturals, FiniteSets

CONSTANTS
    Inst,              \* scry instances
    Token, NoToken,    \* the uuids of acquisitions
    Ttl,               \* the lease TTL
    MinPeriod,         \* the 50 ms floor of renew_period and backstop_for
    MaxAcquireTimeout, \* MAX_ACQUIRE_TIMEOUT
    ReleaseTimeout,    \* RELEASE_TIMEOUT
    MaxNet             \* bound: commands under way

\* Every TTL of the daemons is at least a second (--lease-ttl, .max(1)).
ASSUME LeaseConstants ==
    /\ NoToken \notin Token
    /\ Ttl \in Nat
    /\ MinPeriod \in Nat \ {0} /\ 3 * MinPeriod <= Ttl
    /\ MaxAcquireTimeout \in Nat /\ ReleaseTimeout \in Nat /\ MaxNet \in Nat

VARIABLES
    key,      \* the token stored under the key, NoToken when it is unset
    left,     \* the server-side TTL that is left, 0 when the key is unset
    net,      \* commands on their way to the server
    replies,  \* replies on their way to a caller that still awaits them
    pc,       \* what the instance does with the lease
    tok,      \* the token of its current acquisition
    valid,    \* ValkeyFence::valid
    age,      \* time since last_ok_millis
    renew,    \* the renew task
    timer,    \* time since the tick the renew task consumed last
    wait,     \* time since the awaited command was sent
    failed    \* history: a check of this guard's fence has failed

serverVars == <<key, left>>
vars == <<key, left, net, replies, pc, tok, valid, age, renew, timer, wait, failed>>

Larger(a, b)  == IF a > b THEN a ELSE b
Smaller(a, b) == IF a < b THEN a ELSE b

\* Mutant: the fence lasts as long as the key.
BackstopWholeTtl == Ttl

RenewPeriod    == Larger(Ttl \div 3, MinPeriod)
Backstop       == Larger(Ttl - Ttl \div 3, MinPeriod)
AcquireTimeout == Smaller(RenewPeriod, MaxAcquireTimeout)

\* Ages stop counting where no condition tells them apart any more.
AgeCap   == Ttl
TimerCap == 2 * RenewPeriod
WaitCap  == Larger(Ttl, ReleaseTimeout)

Cmd(op, t)        == [op |-> op, tok |-> t]
Reply(op, t, yes) == [op |-> op, tok |-> t, yes |-> yes]

Awaited(i) == CASE pc[i] = "acquiring" -> "set"
                [] pc[i] = "held" /\ renew[i] = "sent" -> "renew"
                [] pc[i] = "releasing" -> "del"
                [] OTHER -> "none"

Answered(i, yes) == Reply(Awaited(i), tok[i], yes) \in replies
Unanswered(i)    == ~Answered(i, TRUE) /\ ~Answered(i, FALSE)

\* What a reply to a command nobody awaits any more leaves: nothing.
Without(t) == {r \in replies : r.tok # t}

\* Uuid::now_v7: never seen before.
Fresh == {t \in Token : /\ t # key /\ \A i \in Inst : tok[i] # t
                        /\ \A c \in net \cup replies : c.tok # t}

Init ==
    /\ key = NoToken /\ left = 0 /\ net = {} /\ replies = {}
    /\ pc = [i \in Inst |-> "idle"] /\ tok = [i \in Inst |-> NoToken]
    /\ valid = [i \in Inst |-> FALSE] /\ age = [i \in Inst |-> 0]
    /\ renew = [i \in Inst |-> "ended"] /\ timer = [i \in Inst |-> 0]
    /\ wait = [i \in Inst |-> 0] /\ failed = [i \in Inst |-> FALSE]
-----------------------------------------------------------------------------
(* The server, and the connections to it.                                  *)

\* Mutant: SET NX without PX.
ServeSetForever(c) ==
    /\ c.op = "set"
    /\ IF key = NoToken THEN key' = c.tok /\ left' = 0 ELSE UNCHANGED serverVars

\* SET key token NX PX ttl.
ServeSet(c) ==
    /\ c.op = "set"
    /\ IF key = NoToken THEN key' = c.tok /\ left' = Ttl ELSE UNCHANGED serverVars

\* Mutant: the TTL is added to what is left.
ServeRenewAdds(c) ==
    /\ c.op = "renew"
    /\ left' = IF key = c.tok THEN left + Ttl ELSE left
    /\ UNCHANGED key

\* RENEW_LUA: compare and PEXPIRE.
ServeRenew(c) ==
    /\ c.op = "renew"
    /\ left' = IF key = c.tok THEN Ttl ELSE left
    /\ UNCHANGED key

\* Mutant: a DEL that does not compare.
ServeDelAny(c) == c.op = "del" /\ key' = NoToken /\ left' = 0

\* RELEASE_LUA: compare and DEL.
ServeDel(c) ==
    /\ c.op = "del"
    /\ IF key = c.tok THEN key' = NoToken /\ left' = 0 ELSE UNCHANGED serverVars

Accepts(c) == IF c.op = "set" THEN key = NoToken ELSE key = c.tok

\* The server runs a command; its reply goes to the caller that awaits it.
Serve(c) ==
    /\ c \in net
    /\ net' = net \ {c}
    /\ ServeSet(c) \/ ServeRenew(c) \/ ServeDel(c)
    /\ replies' = IF \E i \in Inst : tok[i] = c.tok /\ Awaited(i) = c.op
                  THEN replies \cup {Reply(c.op, c.tok, Accepts(c))}
                  ELSE replies
    /\ UNCHANGED <<pc, tok, valid, age, renew, timer, wait, failed>>

\* A connection breaks: a command or a reply is gone and its caller hangs.
Lose ==
    /\ \/ \E c \in net : net' = net \ {c} /\ UNCHANGED replies
       \/ \E r \in replies : replies' = replies \ {r} /\ UNCHANGED net
    /\ UNCHANGED <<key, left, pc, tok, valid, age, renew, timer, wait, failed>>

\* Time passes; the key is gone when its TTL is.  Clocks nobody reads stand
\* still.
Tick ==
    /\ left' = IF left > 0 THEN left - 1 ELSE 0
    /\ key' = IF left = 1 THEN NoToken ELSE key
    /\ age' = [i \in Inst |-> IF valid[i] THEN Smaller(age[i] + 1, AgeCap) ELSE 0]
    /\ timer' = [i \in Inst |-> IF renew[i] = "ended" THEN 0
                                ELSE Smaller(timer[i] + 1, TimerCap)]
    /\ wait' = [i \in Inst |-> IF Awaited(i) = "none" THEN 0
                               ELSE Smaller(wait[i] + 1, WaitCap)]
    /\ UNCHANGED <<net, replies, pc, tok, valid, renew, failed>>
-----------------------------------------------------------------------------
(* try_acquire.                                                            *)

Acquire(i) ==
    /\ pc[i] = "idle"
    /\ Cardinality(net) < MaxNet
    /\ \E t \in Fresh :
        /\ tok' = [tok EXCEPT ![i] = t]
        /\ net' = net \cup {Cmd("set", t)}
    /\ pc' = [pc EXCEPT ![i] = "acquiring"]
    /\ wait' = [wait EXCEPT ![i] = 0]
    /\ UNCHANGED <<key, left, replies, valid, age, renew, timer, failed>>

\* Mutant: the fence is anchored at the instant the answer arrived.
AnchorAtReply(i) == 0

\* The fence is anchored at the instant the SET was sent.
Anchor(i) == wait[i]

AcquireWon(i) ==
    /\ pc[i] = "acquiring" /\ Answered(i, TRUE)
    /\ pc' = [pc EXCEPT ![i] = "held"]
    /\ valid' = [valid EXCEPT ![i] = TRUE]
    /\ age' = [age EXCEPT ![i] = Smaller(Anchor(i), AgeCap)]
    /\ renew' = [renew EXCEPT ![i] = "ticking"]
    /\ timer' = [timer EXCEPT ![i] = 0]
    /\ replies' = Without(tok[i])
    /\ UNCHANGED <<key, left, net, tok, wait, failed>>

\* The instance gives the acquisition or the guard up.
Forget(i) ==
    /\ pc' = [pc EXCEPT ![i] = "idle"]
    /\ tok' = [tok EXCEPT ![i] = NoToken]
    /\ valid' = [valid EXCEPT ![i] = FALSE]
    /\ renew' = [renew EXCEPT ![i] = "ended"]
    /\ failed' = [failed EXCEPT ![i] = FALSE]
    /\ age' = [age EXCEPT ![i] = 0]
    /\ timer' = [timer EXCEPT ![i] = 0]
    /\ wait' = [wait EXCEPT ![i] = 0]
    /\ replies' = Without(tok[i])
    /\ UNCHANGED <<key, left>>

\* A peer has the lease, or the SET failed with an error.
AcquireLost(i) ==
    /\ pc[i] = "acquiring" /\ ~Answered(i, TRUE)
    /\ Forget(i)
    /\ UNCHANGED net

\* The timeout: the SET may still land, so a compare-and-DEL follows it.
AcquireTimesOut(i) ==
    /\ pc[i] = "acquiring" /\ Unanswered(i) /\ wait[i] >= AcquireTimeout
    /\ Forget(i)
    /\ net' = net \cup {Cmd("del", tok[i])}
-----------------------------------------------------------------------------
(* The renew task of a held lease.                                         *)

RenewSend(i) ==
    /\ pc[i] = "held" /\ renew[i] = "ticking" /\ timer[i] >= RenewPeriod
    /\ renew' = [renew EXCEPT ![i] = "sent"]
    /\ timer' = [timer EXCEPT ![i] = @ - RenewPeriod]
    /\ wait' = [wait EXCEPT ![i] = 0]
    /\ net' = net \cup {Cmd("renew", tok[i])}
    /\ UNCHANGED <<key, left, replies, pc, tok, valid, age, failed>>

\* mark_renewed(sent): a maximum of instants is a minimum of ages.
MarkRenewed(i) == age' = [age EXCEPT ![i] = Smaller(@, wait[i])]

RenewAccepted(i) ==
    /\ pc[i] = "held" /\ renew[i] = "sent" /\ Answered(i, TRUE)
    /\ MarkRenewed(i)
    /\ renew' = [renew EXCEPT ![i] = "ticking"]
    /\ replies' = Without(tok[i])
    /\ UNCHANGED <<key, left, net, pc, tok, valid, timer, wait, failed>>

\* Not ours any more, a backend error, or no answer within a period: the fence
\* is latched and the task ends.
RenewFails(i) ==
    /\ pc[i] = "held" /\ renew[i] = "sent" /\ ~Answered(i, TRUE)
    /\ valid' = [valid EXCEPT ![i] = FALSE]
    /\ renew' = [renew EXCEPT ![i] = "ended"]
    /\ replies' = Without(tok[i])
    /\ UNCHANGED <<key, left, net, pc, tok, age, timer, wait, failed>>
-----------------------------------------------------------------------------
(* The holder.                                                             *)

\* ValkeyFence::check_at.
Passes(i) == pc[i] = "held" /\ valid[i] /\ age[i] < Backstop

\* Mutant: a failed check does not latch.
CheckFailsUnlatched(i) ==
    /\ pc[i] = "held" /\ ~Passes(i)
    /\ failed' = [failed EXCEPT ![i] = TRUE]
    /\ UNCHANGED <<key, left, net, replies, pc, tok, valid, age, renew, timer, wait>>

\* A check that fails latches the fence.
CheckFails(i) ==
    /\ pc[i] = "held" /\ ~Passes(i)
    /\ valid' = [valid EXCEPT ![i] = FALSE]
    /\ failed' = [failed EXCEPT ![i] = TRUE]
    /\ UNCHANGED <<key, left, net, replies, pc, tok, age, renew, timer, wait>>

\* LeaseGuard::release: fence off, stop renewing, compare and DEL.
Release(i) ==
    /\ pc[i] = "held"
    /\ valid' = [valid EXCEPT ![i] = FALSE]
    /\ renew' = [renew EXCEPT ![i] = "ended"]
    /\ pc' = [pc EXCEPT ![i] = "releasing"]
    /\ wait' = [wait EXCEPT ![i] = 0]
    /\ net' = net \cup {Cmd("del", tok[i])}
    /\ replies' = Without(tok[i])
    /\ UNCHANGED <<key, left, tok, age, timer, failed>>

ReleaseDone(i) ==
    /\ pc[i] = "releasing"
    /\ ~Unanswered(i) \/ wait[i] >= ReleaseTimeout
    /\ Forget(i)
    /\ UNCHANGED net

\* The guard is dropped without a release, or the process dies: the renew
\* task is gone, the key stays until its TTL is over.
DropGuard(i) ==
    /\ pc[i] # "idle"
    /\ Forget(i)
    /\ UNCHANGED net

Holder(i) ==
    \/ Acquire(i) \/ AcquireWon(i) \/ AcquireLost(i) \/ AcquireTimesOut(i)
    \/ RenewSend(i) \/ RenewAccepted(i) \/ RenewFails(i)
    \/ CheckFails(i) \/ Release(i) \/ ReleaseDone(i) \/ DropGuard(i)

Next ==
    \/ Tick \/ Lose
    \/ \E c \in net : Serve(c)
    \/ \E i \in Inst : Holder(i)

Spec == Init /\ [][Next]_vars
-----------------------------------------------------------------------------
(* Properties.                                                             *)

\* Type correctness.
TypeOK ==
    /\ key \in Token \cup {NoToken} /\ left \in 0..Ttl
    /\ net \subseteq [op : {"set", "renew", "del"}, tok : Token]
    /\ replies \subseteq [op : {"set", "renew", "del"}, tok : Token, yes : BOOLEAN]
    /\ pc \in [Inst -> {"idle", "acquiring", "held", "releasing"}]
    /\ tok \in [Inst -> Token \cup {NoToken}]
    /\ valid \in [Inst -> BOOLEAN] /\ failed \in [Inst -> BOOLEAN]
    /\ renew \in [Inst -> {"ticking", "sent", "ended"}]
    /\ age \in [Inst -> Nat] /\ timer \in [Inst -> Nat] /\ wait \in [Inst -> Nat]

\* While a guard's fence passes, the key on the server is that guard's, and a
\* full ttl/3 is left before it can expire (lease.rs 334-338), however late
\* its commands, replies and renew task are.
FenceSound ==
    \A i \in Inst : Passes(i) => key = tok[i] /\ left > Ttl \div 3

\* Two instances never pass their fences at the same time: a destructive step
\* that starts after a check has no competitor (lease.rs 11-16, 33-35).
OneActs == \A i, j \in Inst : Passes(i) /\ Passes(j) => i = j

\* A guard whose check has failed once never passes again, even when its renew
\* task wakes up late and is accepted (lease.rs 144-147).
NoFlap == \A i \in Inst : failed[i] => ~Passes(i)

\* No step takes the key from a guard whose fence passes: not the release or
\* the abandoned acquire of anyone, not the expiry (lease.rs 17-18, 267-271).
KeySafeWhilePassing ==
    [][\A i \in Inst : Passes(i) => key' = key]_vars

\* Fairness: time passes, connections deliver or lose what they carry, and a
\* pass under the lease ends and releases it.
Fairness ==
    /\ WF_vars(Tick)
    /\ WF_vars(\E c \in net : Serve(c))
    /\ \A i \in Inst : /\ WF_vars(Release(i)) /\ WF_vars(ReleaseDone(i))
                       /\ WF_vars(AcquireWon(i)) /\ WF_vars(AcquireLost(i))

FairSpec == Spec /\ Fairness

\* Whatever is lost and whoever crashes, the lease becomes free again: an
\* orphaned key expires and nobody keeps renewing it (lease.rs 208-216, 267-269).
FreeAgain == []<>(key = NoToken)
=============================================================================
