------------------------------ MODULE Idempotency ------------------------------
(***************************************************************************)
(* IdempotencyMiddleware (core/idempotency.py): the attempts a client      *)
(* makes under one Idempotency-Key.  Rows of different (credential, key)   *)
(* pairs never meet, so one pair is modelled.  A step is one database      *)
(* statement with its commit, or one message to or from the handler;       *)
(* attempts may run in several processes, and any of them may die.         *)
(***************************************************************************)
EXTENDS Integers, FiniteSets

CONSTANTS
  Attempts,   \* the requests that carry the key
  Prints,     \* request fingerprints: method, path, query and body
  Asks,       \* the fingerprint of each attempt
  None        \* no row, no answer

VARIABLES
  row,      \* the idempotency_records row of the key, or None
  pc,       \* where each attempt stands
  flag,     \* its commits list: a session committed on its behalf
  status,   \* the class of the handler's answer
  found,    \* the stored answer a replay will send
  got,      \* what the client was told
  written   \* ghost: the attempts whose writes stand since the key was free

vars == <<row, pc, flag, status, found, got, written>>

Ages == {"fresh", "stale", "expired"}   \* by IN_FLIGHT_GRACE and RETENTION

\* A 2xx or 4xx, a 5xx, and a 2xx that says Idempotency-Replayable: false.
Statuses == {"answered", "failed", "secret"}

\* What is kept of an answer: a secret is completed, not remembered.
Kept == {"answered", "notkept"}
KeptOf(s) == IF s = "secret" THEN "notkept" ELSE s

Replies == [by : Attempts, status : Kept]
Rows == [by : Attempts, print : Prints, age : Ages, reply : Replies \cup {None}]

\* What a client is told, whose answer it is and of which class.
Told == [kind : {"own", "unstored", "replay", "busy", "reused", "unresolved",
                 "denied", "error", "lost"},
         by : Attempts \cup {None}, status : Statuses \cup Kept \cup {None}]

ASSUME IdempotencyAssumption ==
  /\ Asks \in [Attempts -> Prints]
  /\ None \notin Attempts /\ None \notin Statuses
  /\ None \notin Rows /\ None \notin Replies /\ None \notin Told

Answer(kind, a, s) == [kind |-> kind, by |-> a, status |-> s]
Plain(kind) == Answer(kind, None, None)

Holders == {"running", "settling", "abandoning"}

Init ==
  /\ row = None
  /\ pc = [a \in Attempts |-> "new"]
  /\ flag = [a \in Attempts |-> FALSE]
  /\ status = [a \in Attempts |-> None]
  /\ found = [a \in Attempts |-> None]
  /\ got = [a \in Attempts |-> None]
  /\ written = {}

Mine(a) == row # None /\ row.by = a

End(a, told) ==
  /\ pc' = [pc EXCEPT ![a] = "done"]
  /\ got' = [got EXCEPT ![a] = told]

-----------------------------------------------------------------------------
(* _claim                                                                   *)

\* Mutation: the fingerprint of a completed row is not compared.
AnyRequest(a) == TRUE

SameRequest(a) == row.print = Asks[a]

\* What a row that exists means for the attempt that met it.
Meet(a) ==
  /\ row # None
  /\ \/ /\ row.reply = None /\ row.age = "fresh"
        /\ End(a, Plain("busy"))
        /\ UNCHANGED found
     \/ /\ row.reply = None /\ row.age # "fresh"
        /\ End(a, Plain(IF row.print = Asks[a] THEN "unresolved" ELSE "reused"))
        /\ UNCHANGED found
     \/ /\ row.reply # None /\ ~SameRequest(a)
        /\ End(a, Plain("reused"))
        /\ UNCHANGED found
     \/ /\ row.reply # None /\ SameRequest(a)
        /\ pc' = [pc EXCEPT ![a] = "replaying"]
        /\ found' = [found EXCEPT ![a] = row.reply]
        /\ UNCHANGED got
  /\ UNCHANGED <<row, flag, status, written>>

\* The key was never claimed, or it has been freed.
ClaimFree(a) ==
  /\ pc[a] = "new" /\ row = None
  /\ pc' = [pc EXCEPT ![a] = "inserting"]
  /\ UNCHANGED <<row, flag, status, found, got, written>>

Expired == row # None /\ row.age = "expired"

\* A row past retention is deleted by its id: the key is new again.
ClaimExpired(a) ==
  /\ pc[a] = "new" /\ Expired
  /\ row' = None
  /\ written' = {}
  /\ pc' = [pc EXCEPT ![a] = "inserting"]
  /\ UNCHANGED <<flag, status, found, got>>

ClaimTaken(a) == pc[a] = "new" /\ ~Expired /\ Meet(a)

\* The unique constraint lets one insert through.
ClaimInsert(a) ==
  /\ pc[a] = "inserting" /\ row = None
  /\ row' = [by |-> a, print |-> Asks[a], age |-> "fresh", reply |-> None]
  /\ pc' = [pc EXCEPT ![a] = "running"]
  /\ UNCHANGED <<flag, status, found, got, written>>

ClaimConflict(a) ==
  /\ pc[a] = "inserting" /\ row # None
  /\ pc' = [pc EXCEPT ![a] = "rereading"]
  /\ UNCHANGED <<row, flag, status, found, got, written>>

ClaimReread(a) == pc[a] = "rereading" /\ Meet(a)

\* Mutation: the loser waits for a row to appear.
VanishedWaits(a) == FALSE

\* The winner freed the key before the loser read it again: the loser reads
\* completed_at of no row and its request fails.
ClaimVanished(a) ==
  /\ pc[a] = "rereading" /\ row = None
  /\ End(a, Plain("error"))
  /\ UNCHANGED <<row, flag, status, found, written>>

\* _regate: the stored answer leaves only for a credential that still
\* authenticates.
Replay(a) ==
  /\ pc[a] = "replaying"
  /\ \/ End(a, Answer("replay", found[a].by, found[a].status))
     \/ End(a, Plain("denied"))
  /\ UNCHANGED <<row, flag, status, found, written>>

-----------------------------------------------------------------------------
(* The handler, as the middleware sees it                                   *)

HandlerCommits(a) ==
  /\ pc[a] = "running" /\ ~flag[a] /\ a \notin written
  /\ written' = written \cup {a}
  /\ flag' = [flag EXCEPT ![a] = TRUE]
  /\ UNCHANGED <<row, pc, status, found, got>>

\* The connection breaks in the COMMIT, which stands: after_commit never runs.
CommitUnheard(a) ==
  /\ pc[a] = "running" /\ ~flag[a] /\ a \notin written
  /\ written' = written \cup {a}
  /\ pc' = [pc EXCEPT ![a] = "abandoning"]
  /\ UNCHANGED <<row, flag, status, found, got>>

HandlerAnswers(a) ==
  /\ pc[a] = "running"
  /\ \E s \in Statuses : status' = [status EXCEPT ![a] = s]
  /\ pc' = [pc EXCEPT ![a] = "settling"]
  /\ UNCHANGED <<row, flag, found, got, written>>

HandlerRaises(a) ==
  /\ pc[a] = "running"
  /\ pc' = [pc EXCEPT ![a] = "abandoning"]
  /\ UNCHANGED <<row, flag, status, found, got, written>>

-----------------------------------------------------------------------------
(* _settle and _abandon                                                     *)

\* Mutation: a 5xx frees the key even after a commit.
AlwaysFrees(a) == TRUE

\* Mutation: a 5xx never frees the key.
NeverFrees(a) == FALSE

Frees(a) == ~flag[a]

\* Mutation: the row stays, without its fingerprint.
BlankRow(a) ==
  row' = IF ~Mine(a) THEN row
         ELSE [row EXCEPT !.print = IF Frees(a) THEN None ELSE @, !.age = "stale"]

\* Nothing to keep: free the key if nothing was committed, else backdate the
\* claim past its grace.
GiveUp(a) ==
  row' = IF ~Mine(a) THEN row
         ELSE IF Frees(a) THEN None ELSE [row EXCEPT !.age = "stale"]

SettleStore(a) ==
  /\ pc[a] = "settling" /\ status[a] # "failed"
  /\ row' = IF Mine(a)
            THEN [row EXCEPT !.reply = [by |-> a, status |-> KeptOf(status[a])]]
            ELSE row
  /\ pc' = [pc EXCEPT ![a] = "sending"]
  /\ UNCHANGED <<flag, status, found, got, written>>

SettleFailed(a) ==
  /\ pc[a] = "settling" /\ status[a] = "failed"
  /\ GiveUp(a)
  /\ pc' = [pc EXCEPT ![a] = "sending"]
  /\ UNCHANGED <<flag, status, found, got, written>>

\* The store itself fails: logged, the claim stays in flight, the answer goes.
SettleBreaks(a) ==
  /\ pc[a] = "settling"
  /\ End(a, Answer("unstored", a, status[a]))
  /\ UNCHANGED <<row, flag, status, found, written>>

\* Mutation: the first byte leaves before the answer is stored.
SendEarly(a) ==
  /\ pc[a] \in {"settling", "sending"}
  /\ End(a, Answer("own", a, status[a]))
  /\ UNCHANGED <<row, flag, status, found, written>>

Send(a) ==
  /\ pc[a] = "sending"
  /\ End(a, Answer("own", a, status[a]))
  /\ UNCHANGED <<row, flag, status, found, written>>

\* The handler raised, or ended without a last body chunk.
Abandon(a) ==
  /\ pc[a] = "abandoning"
  /\ GiveUp(a)
  /\ End(a, Plain("lost"))
  /\ UNCHANGED <<flag, status, found, written>>

\* The process dies, or the statement that would abandon the claim fails.
Die(a) ==
  /\ pc[a] \notin {"new", "done"}
  /\ End(a, Plain("lost"))
  /\ UNCHANGED <<row, flag, status, found, written>>

-----------------------------------------------------------------------------
(* Time                                                                     *)

GraceEnds ==
  /\ row # None /\ row.age = "fresh"
  /\ row' = [row EXCEPT !.age = "stale"]
  /\ UNCHANGED <<pc, flag, status, found, got, written>>

\* Bound: no attempt runs for the 24 hours of RETENTION.
RetentionEnds ==
  /\ row # None /\ row.age = "stale"
  /\ pc[row.by] \notin Holders
  /\ row' = [row EXCEPT !.age = "expired"]
  /\ UNCHANGED <<pc, flag, status, found, got, written>>

\* A claim under any key sweeps the rows past retention.
Sweep ==
  /\ Expired
  /\ row' = None
  /\ written' = {}
  /\ UNCHANGED <<pc, flag, status, found, got>>

-----------------------------------------------------------------------------
Claim(a) ==
  ClaimFree(a) \/ ClaimExpired(a) \/ ClaimTaken(a) \/ ClaimInsert(a) \/ ClaimConflict(a)
    \/ ClaimReread(a) \/ ClaimVanished(a) \/ Replay(a)

Handle(a) ==
  HandlerCommits(a) \/ CommitUnheard(a) \/ HandlerAnswers(a) \/ HandlerRaises(a)

Settle(a) ==
  SettleStore(a) \/ SettleFailed(a) \/ SettleBreaks(a) \/ Send(a) \/ Abandon(a)

Next ==
  \/ \E a \in Attempts : Claim(a) \/ Handle(a) \/ Settle(a) \/ Die(a)
  \/ GraceEnds \/ RetentionEnds \/ Sweep

Spec == Init /\ [][Next]_vars

\* The event loop and the worker threads get round to every attempt: its next
\* statement runs, and its handler ends one way or another.
Fairness == \A a \in Attempts : WF_vars(Claim(a) \/ Handle(a) \/ Settle(a))

FairSpec == Spec /\ Fairness

-----------------------------------------------------------------------------
(* Properties                                                               *)

TypeOK ==
  /\ row \in Rows \cup {None}
  /\ pc \in [Attempts -> {"new", "inserting", "rereading", "replaying", "running",
                          "settling", "sending", "abandoning", "done"}]
  /\ flag \in [Attempts -> BOOLEAN]
  /\ status \in [Attempts -> Statuses \cup {None}]
  /\ found \in [Attempts -> Replies \cup {None}]
  /\ got \in [Attempts -> Told \cup {None}]
  /\ written \subseteq Attempts

\* While the key is remembered one attempt writes, however often and however
\* concurrently it is retried, as far as after_commit hears of the writes.
OneHeardWrite == \A a, b \in written : flag[a] /\ flag[b] => a = b

\* A replay is the answer the first attempt gave, to the request it was asked.
ReplaysAreFirsts ==
  \A a \in Attempts :
    got[a] # None /\ got[a].kind = "replay" =>
      /\ Asks[a] = Asks[got[a].by]
      /\ got[a].status = KeptOf(status[got[a].by])

Heard(a) == got[a] # None /\ got[a].kind = "own"

\* A client that has the answer and retries at once is never told to wait: the
\* answer is stored before its first byte leaves.
AnswerLeavesStored ==
  \A a \in Attempts : Mine(a) /\ Heard(a) /\ status[a] # "failed" => row.reply # None

\* A 5xx from an attempt that committed nothing is not remembered by the time
\* the client hears of it: the retry runs again.
FailureForgets ==
  \A a \in Attempts : Mine(a) /\ Heard(a) /\ status[a] = "failed" => flag[a]

\* No attempt is left without an end, wherever it met another: every request
\* that claims, loses the claim or replays is answered or lost.
EveryAttemptEnds == \A a \in Attempts : pc[a] # "new" ~> pc[a] = "done"

\* What a stored answer is, and stays: its handler is past changing it.
IsFirst(r, print) ==
  /\ Asks[r.by] = print
  /\ pc[r.by] \in {"sending", "done"}
  /\ r.status = KeptOf(status[r.by])

\* Who the row belongs to: a handler that has yet to end holds it, and so does
\* whoever is known to have written; retention frees nobody's row.
RowBelongs ==
  /\ \A a \in Attempts : pc[a] \in Holders => Mine(a)
  /\ \A a \in written : flag[a] => Mine(a)
  /\ row # None => /\ row.print = Asks[row.by]
                   /\ pc[row.by] \in Holders \cup {"sending", "done"}
                   /\ row.age = "expired" => pc[row.by] \notin Holders

\* Answers between the handler, the row and the client.
AnswersMatch ==
  /\ \A a \in Attempts : pc[a] \in {"settling", "sending"} => status[a] # None
  /\ row # None /\ row.reply # None => row.reply.by = row.by /\ IsFirst(row.reply, row.print)
  /\ \A a \in Attempts : pc[a] = "replaying" => found[a] # None /\ IsFirst(found[a], Asks[a])
  /\ \A a \in Attempts : got[a] # None => pc[a] = "done"
  /\ \A a \in Attempts :
       got[a] # None /\ got[a].kind = "replay" =>
         got[a].by \in Attempts /\ IsFirst(got[a], Asks[a])
  /\ \A a \in Attempts : Mine(a) /\ (pc[a] = "sending" \/ Heard(a)) =>
       IF status[a] = "failed" THEN flag[a] ELSE row.reply # None

\* The inductive invariant of IdempotencyProofs.
IInv == TypeOK /\ RowBelongs /\ AnswersMatch
=============================================================================
