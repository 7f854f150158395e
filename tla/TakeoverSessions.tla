--------------------------- MODULE TakeoverSessions ---------------------------
(***************************************************************************)
(* The records of the takeover session manager                             *)
(* (src/src/browser-takeover/session.ts) for one intervention and one      *)
(* principal.  Every page makes up a binding of its own and binding,       *)
(* capability and reconnect handle change together, so a client is its     *)
(* generation, and a request that carries an older one, or another         *)
(* principal, is refused before anything changes.  Time is two facts about *)
(* a record: its media lease is over, its completion window is over.       *)
(***************************************************************************)
EXTENDS Integers, FiniteSets

CONSTANTS
    Epochs,         \* epochs of the intervention a session may be made for
    MaxSessions,    \* bound on the sessions ever made
    MaxGen          \* bound on the client generation of a session

ASSUME SessionsAssumption ==
    /\ Epochs \subseteq Nat \ {0} /\ MaxSessions \in Nat /\ MaxGen \in Nat

VARIABLES
    records,    \* TakeoverSessionManager.records
    issued      \* sessions made so far

sessionVars == <<records, issued>>

Sessions == 1..MaxSessions

\* TakeoverRecord, without its identifiers.
TakeoverRecord == [epoch: Epochs \union {0}, revoked: BOOLEAN, completed: BOOLEAN,
                   gen: 0..MaxGen, inFlight: Nat, released: BOOLEAN,
                   mediaOver: BOOLEAN, doneOver: BOOLEAN, extended: BOOLEAN]

NewRecord(e) ==
    [epoch |-> e, revoked |-> FALSE, completed |-> FALSE, gen |-> 0, inFlight |-> 0,
     released |-> FALSE, mediaOver |-> FALSE, doneOver |-> FALSE, extended |-> FALSE]

\* A record the manager does not have: every operation treats it as revoked.
Gone == [NewRecord(0) EXCEPT !.revoked = TRUE]

SessionsInit == records = [s \in Sessions |-> Gone] /\ issued = 0

\* requireActive()
Live(r) == ~r.revoked /\ ~r.mediaOver

\* pruneExpired(): unclaimed media time, or the completion window of a claim, is over.
Pruned ==
    [s \in Sessions |->
        LET r == records[s] IN
        IF \/ r.revoked /\ ~r.completed
           \/ r.gen = 0 /\ r.mediaOver
           \/ r.gen > 0 /\ r.doneOver
        THEN Gone ELSE r]

\* ensure(): the live session of this epoch, or a new one that revokes what is live.
Reusable(e) == {s \in Sessions : Live(Pruned[s]) /\ records[s].epoch = e}

Ensure(e, s) ==
    IF s <= issued THEN s \in Reusable(e) /\ records' = Pruned /\ UNCHANGED issued
    ELSE /\ Reusable(e) = {} /\ s = issued + 1 /\ issued' = s
         /\ records' = [o \in Sessions |->
                IF o = s THEN NewRecord(e)
                ELSE [Pruned[o] EXCEPT !.revoked = @ \/ ~Pruned[o].mediaOver]]

\* What a request shows of its client (binding, capability, reconnect handle) is compared
\* with what the record signs for its generation: nothing before the first claim, and
\* nothing of an earlier client.
Names(r, g) == g > 0 /\ r.gen = g

\* The completion capability signs completionExpiresAt: one that was moved makes it stale.
OriginalWindow(r) == ~r.extended

\* claimClient(): the first claim, or the claim of the client that holds it already.
MayClaim(r) == Live(r) /\ (r.gen = 0 \/ ~r.released)
Claimed(r) == IF r.gen = 0 THEN [r EXCEPT !.gen = 1, !.released = FALSE] ELSE r

\* Variant: a client with a use in flight is replaced.
MayReconnectOverUse(r) == Live(r) /\ r.gen > 0

\* reconnectClient(): an unreleased client must have been idle long enough, which a
\* guard on time may or may not find; a use in flight always keeps the client.
MayReconnect(r) == Live(r) /\ r.gen > 0 /\ r.inFlight = 0
Reconnected(r) == [r EXCEPT !.gen = @ + 1, !.released = FALSE]

\* verify(), beginUse(), beginBoundUse()
MayUse(r, g) == Live(r) /\ ~r.released /\ Names(r, g)
UseBegun(r) == [r EXCEPT !.inFlight = @ + 1]

\* endUse(): max(0, inFlight - 1) for the generation that began the use.
UseEnded(r, g) ==
    IF Live(r) /\ r.gen = g /\ r.inFlight > 0 THEN [r EXCEPT !.inFlight = @ - 1] ELSE r

\* releaseClientGeneration(), whose refusal every caller ignores or has excluded.
Released(r, g) == IF Live(r) /\ r.gen = g THEN [r EXCEPT !.released = TRUE] ELSE r

\* complete(), with the capability of the original completion window.
MayComplete(r) ==
    /\ ~r.revoked \/ r.completed
    /\ r.mediaOver => r.gen > 0 /\ ~r.doneOver
    /\ OriginalWindow(r)
Completed(r) == [r EXCEPT !.completed = TRUE, !.revoked = TRUE, !.released = TRUE]

\* isCompleted()
IsCompleted(r) == r.completed /\ ~r.doneOver

\* completeAfterVerification(): the sessions of the epoch that it reports.
Verifiable(e) ==
    {s \in Sessions : Pruned[s].epoch = e
        /\ (Pruned[s].completed \/ (~Pruned[s].revoked /\ ~Pruned[s].doneOver))}
VerifiedRecords(e) ==
    [s \in Sessions |->
        IF s \in Verifiable(e) /\ ~Pruned[s].completed
        THEN [Completed(Pruned[s]) EXCEPT !.extended = TRUE, !.doneOver = FALSE]
        ELSE Pruned[s]]

\* revoke()
Revoked(r) == [r EXCEPT !.revoked = TRUE]

\* Time: the completion window starts with the media lease and ends after it, unless
\* a verified completion started it anew.
MediaLeaseEnds(s) ==
    /\ records[s].epoch > 0 /\ ~records[s].mediaOver
    /\ records' = [records EXCEPT ![s].mediaOver = TRUE]
CompletionWindowEnds(s) ==
    /\ records[s].epoch > 0 /\ ~records[s].doneOver
    /\ records[s].mediaOver \/ records[s].extended
    /\ records' = [records EXCEPT ![s].doneOver = TRUE]

\* Two mutable sessions of the intervention never coexist.
OneLiveSession == Cardinality({s \in Sessions : Live(records[s])}) <= 1
================================================================================
