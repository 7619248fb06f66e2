------------------------------- MODULE Optout -------------------------------
(***************************************************************************)
(* optout/: the opt-out status of one contact, the cache of it that each   *)
(* process keeps (OptoutStatusCache on utils/ttl-cache.ts), the gate that  *)
(* an inbound message passes on that status, the proactive sends that ask  *)
(* it (channels/channel-manager.ts) and the operator's changes.  A step is *)
(* a database statement, or what runs between two awaits.                  *)
(***************************************************************************)
EXTENDS Naturals

CONSTANTS
  OptProcs,      \* engine processes
  Requests,      \* what may be under way at a time: messages, sends, changes
  Ttl,           \* ticks a cached status lives
  Lag,           \* ticks a database call may take
  MaxRequests,   \* bound: requests in all
  MaxErrors      \* bound: statements that fail

ASSUME OptoutAssumption ==
  /\ Ttl \in Nat \ {0} /\ Lag \in Nat
  /\ MaxRequests \in Nat /\ MaxErrors \in Nat

VARIABLES
  status,     \* the contact's row
  entry,      \* each process's cached status
  req,        \* the requests under way
  begun,      \* requests so far
  errors,     \* statements failed
  age,        \* history: ticks since the row last changed, up to Ttl + Lag
  last,       \* history: the process that last wrote the row
  ignored     \* history: a stop keyword was handled, alone, and the contact not opted out

optVars == <<status, entry, req, begun, errors, age, last, ignored>>

Statuses == {"opted_in", "opted_out"}

\* A stop keyword, a resume keyword, other text or a proactive send; and the
\* operator's two changes.
Questions == {"stop", "resume", "other"}
Changes   == {"admin_out", "admin_in"}

Asks(kind) == IF kind \in {"stop", "admin_out"} THEN "opted_out" ELSE "opted_in"

\* left: the ticks it has to live.  late: an invalidation passed between the entry's
\* read and its set.
NoEntry == [live |-> FALSE, value |-> "opted_in", left |-> 0, late |-> FALSE]

\* reading and answered: a cache miss; writing and written (not yet invalidated): a
\* change.  seen: the status read.  waited: ticks since the database was called.  met:
\* the contact's status was at some time as the request asks.
NoRequest(p) == [pc |-> "free", kind |-> "other", proc |-> p, seen |-> "opted_in",
                 waited |-> 0, late |-> FALSE, met |-> FALSE]
Free == NoRequest(CHOOSE p \in OptProcs : TRUE)

OptoutInit ==
  /\ status = "opted_in"
  /\ entry = [p \in OptProcs |-> NoEntry]
  /\ req = [r \in Requests |-> Free]
  /\ begun = 0
  /\ errors = 0
  /\ age = Ttl + Lag
  /\ last \in OptProcs
  /\ ignored = FALSE

Error == errors < MaxErrors /\ errors' = errors + 1

Begins(r) == req[r].pc = "free" /\ begun < MaxRequests /\ begun' = begun + 1

-----------------------------------------------------------------------------
\* Mutant: an expired entry is served.
HitsAny(p) == entry[p].live

\* TtlCache.get: an entry is served until it expires.
Hits(p) == entry[p].live /\ entry[p].left > 0

\* evaluateOptout: for an opted-out contact only a resume keyword counts, for a
\* subscribed one only a stop keyword.  A send asks for the status alone.
Transition(kind, seen) ==
  \/ seen = "opted_out" /\ kind = "resume"
  \/ seen = "opted_in" /\ kind = "stop"

\* No other request is under way.
Alone(r) == \A s \in Requests \ {r} : req[s].pc = "free"

\* The request, q so far, acts on the status seen: it changes the row, or is over
\* (passed to the pipeline, sent, or silenced).
Act(r, q, seen) ==
  IF Transition(q.kind, seen)
    THEN /\ req' = [req EXCEPT ![r] = [NoRequest(q.proc) EXCEPT !.pc = "writing", !.kind = q.kind]]
         /\ UNCHANGED ignored
    ELSE /\ req' = [req EXCEPT ![r] = Free]
         /\ ignored' = (ignored \/ (q.kind = "stop" /\ ~q.met /\ status = "opted_in" /\ Alone(r)))

\* getOptoutStatus: the cached status, or else a read of the row.
Ask(r, p, kind) ==
  LET q == [NoRequest(p) EXCEPT !.kind = kind] IN
  /\ Begins(r)
  /\ kind \in Questions
  /\ IF Hits(p)
       THEN Act(r, q, entry[p].value)
       ELSE /\ req' = [req EXCEPT ![r] = [q EXCEPT !.pc = "reading"]]
            /\ UNCHANGED ignored
  /\ UNCHANGED <<status, entry, errors, age, last>>

\* loadStatusFromDb: the SELECT runs.
Select(r) ==
  /\ req[r].pc = "reading"
  /\ req' = [req EXCEPT ![r].pc = "answered", ![r].seen = status,
                        ![r].met = status = Asks(req[r].kind)]
  /\ UNCHANGED <<status, entry, begun, errors, age, last, ignored>>

\* ... or fails: a message is not handled, a send goes out.
SelectFails(r) ==
  /\ req[r].pc = "reading"
  /\ Error
  /\ req' = [req EXCEPT ![r] = Free]
  /\ UNCHANGED <<status, entry, begun, age, last, ignored>>

\* The row arrives: it is cached, whatever happened since, and acted on.
Fill(r) ==
  /\ req[r].pc = "answered"
  /\ entry' = [entry EXCEPT ![req[r].proc] =
                 [live |-> TRUE, value |-> req[r].seen, left |-> Ttl, late |-> req[r].late]]
  /\ Act(r, req[r], req[r].seen)
  /\ UNCHANGED <<status, begun, errors, age, last>>

\* The operator changes the status (optouts.controller.ts): no question asked.
Change(r, p, kind) ==
  /\ Begins(r)
  /\ kind \in Changes
  /\ req' = [req EXCEPT ![r] = [NoRequest(p) EXCEPT !.pc = "writing", !.kind = kind]]
  /\ UNCHANGED <<status, entry, errors, age, last, ignored>>

\* setOptoutStatus: the upsert runs.
Write(r) ==
  /\ req[r].pc = "writing"
  /\ status' = Asks(req[r].kind)
  /\ age' = IF status' = status THEN age ELSE 0
  /\ last' = req[r].proc
  /\ req' = [req EXCEPT ![r].pc = "written"]
  /\ UNCHANGED <<entry, begun, errors, ignored>>

\* ... or fails: the gate writes that to the audit log and confirms all the same.
WriteFails(r) ==
  /\ req[r].pc = "writing"
  /\ Error
  /\ req' = [req EXCEPT ![r] = Free]
  /\ ignored' = (ignored \/ (req[r].kind = "stop" /\ Alone(r)))
  /\ UNCHANGED <<status, entry, begun, age, last>>

\* Mutant: nothing is invalidated.
KeepEntry(p) == UNCHANGED entry

DropEntry(p) == entry' = [entry EXCEPT ![p] = NoEntry]

\* The upsert is answered: this process's entry goes, and the reads under way in it
\* will be late.
Invalidate(r) ==
  LET Overtaken(s) == req[s].pc = "answered" /\ req[s].proc = req[r].proc IN
  /\ req[r].pc = "written"
  /\ DropEntry(req[r].proc)
  /\ req' = [s \in Requests |-> IF s = r THEN Free
                                ELSE [req[s] EXCEPT !.late = @ \/ Overtaken(s)]]
  /\ UNCHANGED <<status, begun, errors, age, last, ignored>>

\* TtlCache.set of other contacts, or its sweep, takes the entry out.
Evict(p) ==
  /\ entry[p].live
  /\ entry' = [entry EXCEPT ![p] = NoEntry]
  /\ UNCHANGED <<status, req, begun, errors, age, last, ignored>>

\* A database call is answered within Lag ticks.
Tick ==
  /\ \A r \in Requests : req[r].pc # "free" => req[r].waited < Lag
  /\ req' = [r \in Requests |-> IF req[r].pc = "free" THEN req[r]
                                ELSE [req[r] EXCEPT !.waited = @ + 1]]
  /\ entry' = [p \in OptProcs |-> [entry[p] EXCEPT !.left = IF @ > 0 THEN @ - 1 ELSE 0]]
  /\ age' = IF age < Ttl + Lag THEN age + 1 ELSE age
  /\ UNCHANGED <<status, begun, errors, last, ignored>>

OptoutNext ==
  \/ Tick
  \/ \E p \in OptProcs : Evict(p)
  \/ \E r \in Requests :
       \/ \E p \in OptProcs, kind \in Questions \union Changes : Ask(r, p, kind) \/ Change(r, p, kind)
       \/ Select(r) \/ SelectFails(r) \/ Fill(r)
       \/ Write(r) \/ WriteFails(r) \/ Invalidate(r)

OptoutSpec == OptoutInit /\ [][OptoutNext]_optVars

-----------------------------------------------------------------------------
(* Properties.                                                             *)

OptoutTypeOK ==
  /\ status \in Statuses
  /\ entry \in [OptProcs -> [live : BOOLEAN, value : Statuses, left : 0..Ttl, late : BOOLEAN]]
  /\ req \in [Requests -> [pc : {"free", "reading", "answered", "writing", "written"},
                           kind : Questions \union Changes, proc : OptProcs, seen : Statuses,
                           waited : 0..Lag, late : BOOLEAN, met : BOOLEAN]]
  /\ begun \in 0..MaxRequests
  /\ errors \in 0..MaxErrors
  /\ age \in 0..Ttl + Lag
  /\ last \in OptProcs
  /\ ignored \in BOOLEAN

\* A cached status that is served is the contact's, or the row was changed less than
\* the life of an entry and a read ago, in whatever process.
ServedStatusIsRecent ==
  \A p \in OptProcs :
    Hits(p) /\ entry[p].value # status => age < Ttl + Lag

\* A process sees its own change: once it has invalidated its entry, a cached status
\* that differs from the row it wrote comes from a read that was late.
OwnChangeIsSeen ==
  \A p \in OptProcs :
    (entry[p].live /\ last = p /\ entry[p].value # status) =>
      \/ entry[p].late
      \/ \E r \in Requests : req[r].pc = "written" /\ req[r].proc = p

\* "STOP/START are always honored first" (optout-gate.ts:25): a contact whose stop
\* keyword was handled is, or was during the request, opted out.
StopIsHonoured == ~ignored

-----------------------------------------------------------------------------
(* The inductive invariant of OptoutProofs.                                *)

HasRead(r) == req[r].pc = "answered"

\* Some change of process p has written the row and not yet invalidated the entry.
Invalidating(p) == \E r \in Requests : req[r].pc = "written" /\ req[r].proc = p

\* What was read is not older than the read's call, and what is cached not older than
\* that and the entry.
ReadIsRecent ==
  \A r \in Requests : HasRead(r) /\ req[r].seen # status => age <= req[r].waited

EntryIsRecent ==
  \A p \in OptProcs :
    Hits(p) /\ entry[p].value # status => age + entry[p].left <= Ttl + Lag

\* OwnChangeIsSeen of a status that was read and is about to be cached.
OwnChangeIsRead ==
  \A r \in Requests :
    (HasRead(r) /\ last = req[r].proc /\ req[r].seen # status) =>
      req[r].late \/ Invalidating(req[r].proc)

OptoutInv ==
  /\ OptoutTypeOK
  /\ ReadIsRecent
  /\ EntryIsRecent
  /\ OwnChangeIsRead
  /\ OwnChangeIsSeen
=============================================================================
