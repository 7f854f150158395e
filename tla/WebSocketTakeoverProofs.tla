------------------------- MODULE WebSocketTakeoverProofs -------------------------
(***************************************************************************)
(* Machine-checked theorems on WebSocketTakeover, for every number of      *)
(* sessions, generations, connections and queued messages.                 *)
(*                                                                         *)
(* ChannelInv is inductive.  The use count of a session record and the     *)
(* channels know of each other only through the client generation, so the  *)
(* invariant says that a channel with something in progress belongs to the *)
(* generation that the authority let in last (Consistent), that no two     *)
(* connections share a generation (ConnInv), and that a session without a  *)
(* channel of its generation has no use (SessionInv).  Most steps are one  *)
(* operation of one channel: Midway says what holds of its record and its  *)
(* channel in the middle of such a step, and the Midway lemmas how the     *)
(* step goes on.                                                           *)
(***************************************************************************)
EXTENDS WebSocketTakeover, FiniteSetTheorems, TLAPS

States == {"none", "open", "closing", "failed", "closed", "revoked"}
ChannelRecord ==
    [session: 0..MaxSessions, gen: 0..MaxGen, ticket: BOOLEAN, state: States, admits: BOOLEAN,
     received: Nat, queue: Seq(Ops), busy: {"no", "input", "done"}, starting: BOOLEAN,
     sending: BOOLEAN, pending: BOOLEAN, timer: BOOLEAN, released: BOOLEAN,
     socket: {"open", "closing", "gone"}, left: BOOLEAN]

ChannelTypeOK ==
    /\ records \in [Sessions -> TakeoverRecord] /\ issued \in 0..MaxSessions
    /\ clientGen \in [Sessions -> 0..MaxGen] /\ conn \in [Conns -> ChannelRecord]
    /\ active \in [Sessions -> 0..MaxConns]

\* A channel has a use of its surface, or the consumer's hook, in progress.
Holding(ch) == ch.starting \/ ch.sending \/ ch.busy # "no"
One(b) == IF b THEN 1 ELSE 0
InUse(ch) == One(ch.starting) + One(ch.sending) + One(ch.busy = "input")

\* The client of the channel is the one that its session's authority last let in.
Current(ch) == ch.gen = clientGen[ch.session]

\* A record and a channel of its session.
Consistent(r, ch) ==
    /\ Holding(ch) => Current(ch)
    /\ Live(r) /\ Current(ch) => r.inFlight = InUse(ch)
    /\ ch.busy = "done" => ~Live(r)
    /\ ch.released \/ Ending(ch) => ~(Live(r) /\ ~r.released /\ Current(ch))

\* Every session: not made yet, over, or live under its authority's client, without a use
\* when there is no channel of that client.
SessionInv ==
    \A s \in Sessions :
        /\ s > issued => ~Live(records[s]) /\ clientGen[s] = 0
        /\ Live(records[s]) => records[s].gen = clientGen[s]
        /\ Live(records[s]) /\ (\A c \in Conns : ~(conn[c].session = s /\ conn[c].gen = clientGen[s]))
            => records[s].inFlight = 0

\* Every connection is the only one of its client.
ConnInv ==
    /\ \A c \in Conns : conn[c].state = "none" => conn[c] = Channel(0, 0)
    /\ \A c \in Conns : conn[c].state # "none" =>
            /\ conn[c].session \in 1..issued /\ conn[c].gen \in 1..clientGen[conn[c].session]
            /\ Consistent(records[conn[c].session], conn[c])
    /\ \A c, d \in Conns :
            conn[c].state # "none" /\ conn[c].session = conn[d].session /\ conn[c].gen = conn[d].gen
                => c = d

ActiveInv == \A s \in Sessions : active[s] # 0 => conn[active[s]].state # "none"

ChannelInv == ChannelTypeOK /\ SessionInv /\ ConnInv /\ ActiveInv

-----------------------------------------------------------------------------
(* The records of the session manager.                                     *)

\* Every operation of the manager keeps the shape of its record.
LEMMA RecordOps ==
    ASSUME NEW r \in TakeoverRecord
    PROVE  /\ \A g : UseEnded(r, g) \in TakeoverRecord /\ Released(r, g) \in TakeoverRecord
           /\ UseBegun(r) \in TakeoverRecord /\ Completed(r) \in TakeoverRecord
           /\ Revoked(r) \in TakeoverRecord
           /\ [r EXCEPT !.released = TRUE] \in TakeoverRecord
           /\ r.gen < MaxGen => Reconnected(r) \in TakeoverRecord
           /\ 0 < MaxGen => Claimed(r) \in TakeoverRecord
<1>1. /\ r.inFlight \in Nat /\ r.gen \in 0..MaxGen /\ MaxGen \in Nat
      BY SessionsAssumption DEF TakeoverRecord
<1>2. \A g : UseEnded(r, g) \in TakeoverRecord /\ Released(r, g) \in TakeoverRecord
  <2>1. r.inFlight > 0 => r.inFlight - 1 \in Nat
        BY <1>1
  <2>. QED
    BY <1>1, <2>1 DEF TakeoverRecord, UseEnded, Released
<1>3. UseBegun(r) \in TakeoverRecord
  <2>1. r.inFlight + 1 \in Nat
        BY <1>1
  <2>. QED
    BY <2>1 DEF TakeoverRecord, UseBegun
<1>4. Completed(r) \in TakeoverRecord /\ Revoked(r) \in TakeoverRecord
      BY DEF TakeoverRecord, Completed, Revoked
<1>5. r.gen < MaxGen => Reconnected(r) \in TakeoverRecord
  <2>1. r.gen < MaxGen => r.gen + 1 \in 0..MaxGen
        BY <1>1
  <2>. QED
    BY <2>1 DEF TakeoverRecord, Reconnected
<1>6. 0 < MaxGen => Claimed(r) \in TakeoverRecord
  <2>1. 0 < MaxGen => 1 \in 0..MaxGen
        BY <1>1
  <2>. QED
    BY <2>1 DEF TakeoverRecord, Claimed
<1>. QED
  BY <1>2, <1>3, <1>4, <1>5, <1>6 DEF TakeoverRecord

\* The record that the manager does not have is over; a new one is live and has no client.
LEMMA NewRecords ==
    /\ Gone \in TakeoverRecord /\ ~Live(Gone)
    /\ \A e \in Epochs : /\ NewRecord(e) \in TakeoverRecord /\ Live(NewRecord(e))
                         /\ NewRecord(e).gen = 0 /\ NewRecord(e).inFlight = 0
<1>1. 0 \in 0..MaxGen /\ 0 \in Nat
      BY SessionsAssumption
<1>2. \A e \in Epochs \union {0} : NewRecord(e) \in TakeoverRecord
      BY <1>1 DEF NewRecord, TakeoverRecord
<1>3. \A e : Live(NewRecord(e)) /\ NewRecord(e).gen = 0 /\ NewRecord(e).inFlight = 0
      BY DEF NewRecord, Live
<1>4. Gone \in TakeoverRecord /\ Gone.revoked = TRUE
  <2>1. NewRecord(0) \in TakeoverRecord
        BY <1>2
  <2>. QED
    BY <2>1 DEF Gone, TakeoverRecord
<1>. QED
  BY <1>2, <1>3, <1>4 DEF Live

\* r2 is r, as far as a client can use it, or over.
Quiet(r, r2) ==
    Live(r2) => /\ Live(r) /\ r2.gen = r.gen /\ r2.inFlight = r.inFlight
                /\ r.released => r2.released

\* pruneExpired() takes records away, and leaves the others as they are.
LEMMA PrunedQuiet ==
    ASSUME records \in [Sessions -> TakeoverRecord]
    PROVE  /\ Pruned \in [Sessions -> TakeoverRecord]
           /\ \A s \in Sessions : Quiet(records[s], Pruned[s]) /\ Pruned[s] \in {records[s], Gone}
  BY NewRecords DEF Pruned, Quiet

\* What ends a session quietly.
LEMMA EndsQuietly ==
    ASSUME NEW r \in TakeoverRecord
    PROVE  /\ Quiet(r, r) /\ Quiet(r, Gone) /\ Quiet(r, Revoked(r)) /\ Quiet(r, Completed(r))
           /\ Quiet(r, [r EXCEPT !.mediaOver = TRUE]) /\ Quiet(r, [r EXCEPT !.doneOver = TRUE])
           /\ ~Live(Revoked(r)) /\ ~Live(Completed(r))
           /\ \A b \in BOOLEAN : Quiet(r, [r EXCEPT !.revoked = @ \/ b])
                                  /\ [r EXCEPT !.revoked = @ \/ b] \in TakeoverRecord
  BY NewRecords DEF Quiet, Live, Revoked, Completed, TakeoverRecord

-----------------------------------------------------------------------------
(* A record and a channel of its session, through the operations of the channel.        *)

\* What an operation of the channel may do to the record.
Follows(r, r2, ch) ==
    /\ Live(r2) => /\ Live(r) /\ r2.gen = r.gen
                   /\ r.released => r2.released
                   /\ ~Current(ch) => r2.inFlight = r.inFlight
    /\ r2 \in TakeoverRecord

SameClient(ch, ch2) ==
    /\ ch2 \in ChannelRecord /\ ch2.session = ch.session /\ ch2.gen = ch.gen
    /\ ch2.state # "none"

\* A channel that stops serving keeps its client and what it has in progress.
LEMMA CutTyped ==
    ASSUME NEW ch \in ChannelRecord, NEW st \in States \ {"none"}
    PROVE  /\ Closing(ch) \in {"open", "closing", "gone"}
           /\ Cut(ch, st) \in ChannelRecord /\ Cut(ch, st).state = st
           /\ Cut(ch, st).session = ch.session /\ Cut(ch, st).gen = ch.gen
           /\ Cut(ch, st).starting = ch.starting /\ Cut(ch, st).sending = ch.sending
           /\ Cut(ch, st).busy = ch.busy /\ Cut(ch, st).released = ch.released
           /\ Cut(ch, st).queue = ch.queue
  BY DEF Closing, Cut, ChannelRecord

\* A failed channel keeps its client, its queue and what it has in progress.
LEMMA FailedTyped ==
    ASSUME NEW ch \in ChannelRecord
    PROVE  /\ Failed(ch) \in ChannelRecord
           /\ Failed(ch).session = ch.session /\ Failed(ch).gen = ch.gen
           /\ Failed(ch).queue = ch.queue /\ Failed(ch).starting = ch.starting
           /\ Failed(ch).sending = ch.sending /\ Failed(ch).busy = ch.busy
           /\ Failed(ch).state \in {"failed", "closed", "revoked"}
<1>1. Cut(ch, "failed") \in ChannelRecord /\ Closing(ch) \in {"open", "closing", "gone"}
      BY CutTyped DEF States
<1>2. [Cut(ch, "failed") EXCEPT !.released = TRUE, !.socket = Closing(ch)] \in ChannelRecord
      BY <1>1 DEF ChannelRecord
<1>. QED
  BY <1>2 DEF Failed, Ending, Cut, ChannelRecord

\* failClosed(): the lease of the channel is given back, and its uses are still counted.
LEMMA FailedConsistent ==
    ASSUME NEW rs \in [Sessions -> TakeoverRecord], NEW ch \in ChannelRecord, ch.state # "none",
           ch.session \in Sessions, Live(rs[ch.session]) => rs[ch.session].gen = clientGen[ch.session],
           Consistent(rs[ch.session], ch)
    PROVE  /\ SameClient(ch, Failed(ch)) /\ Failed(ch).queue = ch.queue
           /\ FailedRecords(rs, ch) = [rs EXCEPT ![ch.session] = FailedRecords(rs, ch)[ch.session]]
           /\ Follows(rs[ch.session], FailedRecords(rs, ch)[ch.session], ch)
           /\ Consistent(FailedRecords(rs, ch)[ch.session], Failed(ch))
           /\ Ending(Failed(ch))
<1>1. Failed(ch) \in ChannelRecord
      BY FailedTyped
<1>2. /\ Failed(ch).session = ch.session /\ Failed(ch).gen = ch.gen /\ Failed(ch).queue = ch.queue
      /\ Failed(ch).starting = ch.starting /\ Failed(ch).sending = ch.sending
      /\ Failed(ch).busy = ch.busy /\ Failed(ch).state \in {"failed", "closed", "revoked"}
      BY FailedTyped
<1>3. SameClient(ch, Failed(ch)) /\ Ending(Failed(ch))
      BY <1>1, <1>2 DEF SameClient, Ending
<1>4. rs[ch.session] \in TakeoverRecord
      OBVIOUS
<1>5. CASE Ending(ch) \/ ch.released
  <2>1. FailedRecords(rs, ch) = rs
        BY <1>5 DEF FailedRecords
  <2>2. Consistent(rs[ch.session], Failed(ch))
        BY <1>2, <1>5 DEF Consistent, Holding, InUse, Current
  <2>. QED
    BY <1>2, <1>3, <1>4, <2>1, <2>2 DEF Follows
<1>6. CASE ~(Ending(ch) \/ ch.released)
  <2>1. CASE Current(ch)
    <3>1. FailedRecords(rs, ch) = [rs EXCEPT ![ch.session] = Released(@, ch.gen)]
          BY <1>6, <2>1 DEF FailedRecords, LeaseReleased, Current
    <3>. DEFINE r == rs[ch.session]  r2 == Released(r, ch.gen)
    <3>3. /\ r2 \in TakeoverRecord /\ (Live(r2) <=> Live(r)) /\ r2.gen = r.gen /\ r2.inFlight = r.inFlight
          /\ r.released => r2.released
          /\ Live(r) /\ r.gen = ch.gen => r2.released
          BY <1>4, RecordOps DEF Released, Live, TakeoverRecord
    <3>4. Consistent(r2, Failed(ch))
          BY <1>2, <2>1, <3>3 DEF Consistent, Holding, InUse, Current
    <3>. QED
      BY <1>2, <1>3, <3>1, <3>3, <3>4 DEF Follows
  <2>2. CASE ~Current(ch)
    <3>1. FailedRecords(rs, ch) = rs
          BY <1>6, <2>2 DEF FailedRecords, LeaseReleased, Current
    <3>2. Consistent(rs[ch.session], Failed(ch))
          BY <1>2, <2>2 DEF Consistent, Holding, InUse, Current
    <3>. QED
      BY <1>2, <1>3, <1>4, <3>1, <3>2 DEF Follows
  <2>. QED
    BY <2>1, <2>2
<1>. QED
  BY <1>5, <1>6

\* The end of a use of the channel, with the bit that stood for it.
LEMMA EndedConsistent ==
    ASSUME NEW rs \in [Sessions -> TakeoverRecord], NEW ch \in ChannelRecord,
           NEW ch2 \in ChannelRecord, NEW ok,
           ch.session \in Sessions, Live(rs[ch.session]) => rs[ch.session].gen = clientGen[ch.session],
           Consistent(rs[ch.session], ch), Holding(ch),
           SameClient(ch, ch2), ch2.state = ch.state, ch2.released = ch.released,
           \/ /\ ch.starting /\ ~ch2.starting
              /\ ch2.sending = ch.sending /\ ch2.busy = ch.busy
           \/ /\ ch.sending /\ ~ch2.sending
              /\ ch2.starting = ch.starting /\ ch2.busy = ch.busy
           \/ /\ ch.busy = "input" /\ ch2.busy = "no"
              /\ ch2.starting = ch.starting /\ ch2.sending = ch.sending
    PROVE  LET rs2 == EndedAnyway(rs, ch2, ok) IN
           /\ rs2 = [rs EXCEPT ![ch.session] = rs2[ch.session]]
           /\ Follows(rs[ch.session], rs2[ch.session], ch)
           /\ Consistent(rs2[ch.session], ch2)
<1>. DEFINE r == rs[ch.session]  r2 == UseEnded(r, ch.gen)
<1>1. EndedAnyway(rs, ch2, ok) = [rs EXCEPT ![ch.session] = r2]
      BY DEF EndedAnyway, EndedUse, SameClient
<1>2. Current(ch) /\ Current(ch2)
      BY DEF Consistent, Current, SameClient
<1>3. r2 \in TakeoverRecord /\ r \in TakeoverRecord
      BY RecordOps
<1>4. (Live(r2) <=> Live(r)) /\ r2.gen = r.gen /\ r2.released = r.released
      BY <1>3 DEF UseEnded, Live, TakeoverRecord
<1>5. Live(r) => r.gen = ch.gen /\ r.inFlight = InUse(ch)
      BY <1>2 DEF Consistent, Current
<1>6. InUse(ch) = InUse(ch2) + 1 /\ InUse(ch2) \in Nat
      BY DEF InUse, One, ChannelRecord
<1>7. Live(r) => r2.inFlight = InUse(ch2)
      BY <1>3, <1>5, <1>6 DEF UseEnded, TakeoverRecord
<1>8. Consistent(r2, ch2)
      BY <1>2, <1>4, <1>7 DEF Consistent, Ending
<1>. QED
  BY <1>1, <1>2, <1>3, <1>4, <1>8 DEF Follows

\* A use begins, and the channel has a bit for it.
LEMMA BegunConsistent ==
    ASSUME NEW rs \in [Sessions -> TakeoverRecord], NEW ch \in ChannelRecord,
           NEW ch2 \in ChannelRecord,
           ch.session \in Sessions, Consistent(rs[ch.session], ch),
           clientGen[ch.session] = ch.gen, MayUse(rs[ch.session], ch.gen),
           SameClient(ch, ch2), ch2.state = ch.state, ch2.released = ch.released,
           \/ /\ ~ch.sending /\ ch2.sending
              /\ ch2.starting = ch.starting /\ ch2.busy = ch.busy
           \/ /\ ch.busy = "no" /\ ch2.busy = "input"
              /\ ch2.starting = ch.starting /\ ch2.sending = ch.sending
    PROVE  LET rs2 == [rs EXCEPT ![ch.session] = UseBegun(@)] IN
           /\ Follows(rs[ch.session], rs2[ch.session], ch)
           /\ Consistent(rs2[ch.session], ch2)
<1>. DEFINE r == rs[ch.session]  r2 == UseBegun(r)
<1>1. Current(ch) /\ Current(ch2)
      BY DEF Current, SameClient
<1>2. r2 \in TakeoverRecord /\ r \in TakeoverRecord /\ Live(r)
      BY RecordOps DEF MayUse
<1>3. (Live(r2) <=> Live(r)) /\ r2.gen = r.gen /\ r2.released = r.released /\ r2.inFlight = r.inFlight + 1
      BY <1>2 DEF UseBegun, Live, TakeoverRecord
<1>4. InUse(ch2) = InUse(ch) + 1
      BY DEF InUse, One, ChannelRecord
<1>5. ~ch.released /\ ~Ending(ch) /\ ~ch2.released /\ ~Ending(ch2)
      BY <1>1, <1>2 DEF Consistent, MayUse, Ending
<1>6. Consistent(r2, ch2)
      BY <1>1, <1>2, <1>3, <1>4, <1>5 DEF Consistent
<1>. QED
  BY <1>1, <1>2, <1>3, <1>6 DEF Follows

-----------------------------------------------------------------------------
(* The two shapes of a step.                                               *)

\* What a connection means to its session.
SameUse(ch, ch2) ==
    /\ ch2.session = ch.session /\ ch2.gen = ch.gen /\ ch2.state = ch.state
    /\ ch2.starting = ch.starting /\ ch2.sending = ch.sending /\ ch2.busy = ch.busy
    /\ ch2.released = ch.released
    /\ ch.state = "none" => ch2 = ch

\* A connection goes on as it is; one whose session is over may let go.
GoesOn(ch, ch2, r2) ==
    \/ SameUse(ch, ch2)
    \/ /\ ch.state # "none" /\ ~Live(r2) /\ SameClient(ch, ch2)
       /\ Holding(ch2) => Holding(ch)

\* Sessions end or are made, and connections go on as they are.
LEMMA QuietStep ==
    ASSUME ChannelInv, ChannelTypeOK', UNCHANGED clientGen,
           \/ issued' = issued
           \/ /\ issued' = issued + 1
              /\ \E e \in Epochs : records'[issued'] = NewRecord(e),
           \A s \in Sessions : s # issued' \/ issued' = issued => Quiet(records[s], records'[s]),
           \A c \in Conns : GoesOn(conn[c], conn'[c], records'[conn[c].session]),
           \A s \in Sessions : active'[s] \in {active[s], 0}
    PROVE  ChannelInv'
<1>. USE DEF ChannelInv
<1>1. issued \in 0..MaxSessions /\ issued' \in 0..MaxSessions /\ issued <= issued' /\ MaxSessions \in Nat
      /\ \A s \in Sessions : s \in Nat \ {0} /\ records[s] \in TakeoverRecord /\ clientGen[s] \in Nat
      BY SessionsAssumption DEF ChannelTypeOK, Sessions
<1>2. \A c \in Conns : conn[c].state # "none" => conn[c].session \in 1..issued /\ conn[c].session \in Sessions
      BY <1>1 DEF ConnInv, Sessions
<1>3. SessionInv'
  <2>1. SUFFICES ASSUME NEW s \in Sessions
                 PROVE  /\ s > issued' => ~Live(records'[s]) /\ clientGen[s] = 0
                        /\ Live(records'[s]) => records'[s].gen = clientGen[s]
                        /\ Live(records'[s])
                              /\ (\A c \in Conns : ~(conn[c].session = s /\ conn[c].gen = clientGen[s]))
                            => records'[s].inFlight = 0
    <3>1. \A c \in Conns : conn'[c].session = conn[c].session /\ conn'[c].gen = conn[c].gen
          BY DEF SameUse, GoesOn, SameClient
    <3>. QED
      BY <3>1 DEF SessionInv
  <2>2. s > issued' => clientGen[s] = 0
        BY <1>1 DEF SessionInv
  <2>3. CASE s # issued' \/ issued' = issued
    <3>1. Quiet(records[s], records'[s]) /\ (s > issued' => s > issued)
          BY <1>1, <2>3
    <3>. QED
      BY <2>2, <3>1 DEF SessionInv, Quiet
  <2>4. CASE s = issued' /\ issued' = issued + 1
        BY <1>1, <2>4, NewRecords DEF SessionInv
  <2>. QED
    BY <2>3, <2>4
<1>4. ConnInv'
  <2>1. \A c \in Conns : conn[c].state = "none" => conn'[c] = Channel(0, 0)
        BY DEF SameUse, GoesOn, ConnInv
  <2>2. ASSUME NEW c \in Conns, conn'[c].state # "none"
        PROVE  /\ conn'[c].session \in 1..issued' /\ conn'[c].gen \in 1..clientGen[conn'[c].session]
               /\ Consistent(records[conn[c].session], conn[c])'
    <3>1. /\ conn[c].state # "none" /\ GoesOn(conn[c], conn'[c], records'[conn[c].session])
          /\ conn'[c].session = conn[c].session /\ conn'[c].gen = conn[c].gen
          BY <2>2 DEF SameUse, SameClient, GoesOn
    <3>2. conn[c].session \in Sessions /\ Quiet(records[conn[c].session], records'[conn[c].session])
          BY <1>1, <1>2, <3>1
    <3>3. Consistent(records[conn[c].session], conn[c])
          BY <3>1 DEF ConnInv
    <3>4. (Current(conn[c]))' <=> Current(conn[c])
          BY <3>1 DEF Current
    <3>5. ASSUME SameUse(conn[c], conn'[c])
          PROVE  Consistent(records[conn[c].session], conn[c])'
          BY <3>1, <3>2, <3>3, <3>4, <3>5 DEF Consistent, Quiet, SameUse, Holding, InUse, Ending, Current
    <3>6. ASSUME ~SameUse(conn[c], conn'[c])
          PROVE  Consistent(records[conn[c].session], conn[c])'
          BY <3>1, <3>3, <3>4, <3>6 DEF Consistent, GoesOn
    <3>. QED
      BY <1>1, <3>1, <3>5, <3>6 DEF ConnInv
  <2>3. \A c, d \in Conns : conn'[c].state # "none" /\ conn'[c].session = conn'[d].session
                             /\ conn'[c].gen = conn'[d].gen => c = d
        BY DEF ConnInv, SameUse, GoesOn, SameClient
  <2>4. \A c \in Conns : conn'[c].state = "none" => conn[c].state = "none"
        BY DEF SameUse, GoesOn, SameClient
  <2>. QED
    BY <2>1, <2>2, <2>3, <2>4 DEF ConnInv
<1>5. ActiveInv'
  <2>1. \A s \in Sessions : active[s] # 0 => active[s] \in Conns
        BY ChannelAssumption DEF ChannelTypeOK, Conns
  <2>. QED
    BY <2>1 DEF ActiveInv, SameUse, GoesOn, SameClient
<1>. QED
  BY <1>3, <1>4, <1>5

\* A connection that there is: it has a session, and its record follows the authority.
LEMMA Connected ==
    ASSUME ChannelInv, NEW c \in Conns, conn[c].state # "none"
    PROVE  /\ conn[c] \in ChannelRecord /\ conn[c].session \in Sessions
           /\ conn[c].session <= issued /\ records \in [Sessions -> TakeoverRecord]
           /\ records[conn[c].session] \in TakeoverRecord
           /\ Live(records[conn[c].session]) =>
                 records[conn[c].session].gen = clientGen[conn[c].session]
           /\ Consistent(records[conn[c].session], conn[c])
<1>1. conn[c].session \in 1..issued /\ issued \in 0..MaxSessions /\ MaxSessions \in Nat
      BY SessionsAssumption DEF ChannelInv, ConnInv, ChannelTypeOK
<1>2. conn[c].session \in Sessions /\ conn[c].session <= issued
      BY <1>1 DEF Sessions
<1>. QED
  BY <1>2 DEF ChannelInv, ConnInv, ChannelTypeOK, SessionInv

\* One operation of one channel.
LEMMA ChannelStep ==
    ASSUME ChannelInv, NEW c \in Conns, conn[c].state # "none", NEW ch2, NEW r2,
           SameClient(conn[c], ch2), Follows(records[conn[c].session], r2, conn[c]),
           Consistent(r2, ch2), conn' = [conn EXCEPT ![c] = ch2],
           records' = [records EXCEPT ![conn[c].session] = r2],
           UNCHANGED <<issued, clientGen, active>>
    PROVE  ChannelInv'
<1>. DEFINE s == conn[c].session  r == records[s]
<1>1. /\ s \in Sessions /\ s <= issued /\ conn \in [Conns -> ChannelRecord]
      /\ records \in [Sessions -> TakeoverRecord]
      BY Connected DEF ChannelInv, ChannelTypeOK
<1>2. ch2 \in ChannelRecord /\ r2 \in TakeoverRecord /\ ch2.session = s /\ ch2.gen = conn[c].gen
      /\ ch2.state # "none"
      BY DEF SameClient, Follows
<1>3. /\ \A d \in Conns : conn'[d] = IF d = c THEN ch2 ELSE conn[d]
      /\ \A o \in Sessions : records'[o] = IF o = s THEN r2 ELSE records[o]
      BY <1>1
<1>4. ChannelTypeOK'
      BY <1>1, <1>2 DEF ChannelTypeOK, ChannelInv
<1>5. SessionInv'
  <2>1. SUFFICES ASSUME NEW o \in Sessions
                 PROVE  /\ o > issued => ~Live(records'[o]) /\ clientGen[o] = 0
                        /\ Live(records'[o]) => records'[o].gen = clientGen[o]
                        /\ Live(records'[o])
                              /\ (\A d \in Conns : ~(conn[d].session = o /\ conn[d].gen = clientGen[o]))
                            => records'[o].inFlight = 0
    <3>1. \A d \in Conns : conn'[d].session = conn[d].session /\ conn'[d].gen = conn[d].gen
          BY <1>2, <1>3
    <3>. QED
      BY <3>1 DEF SessionInv
  <2>2. CASE o # s
        BY <1>3, <2>2 DEF ChannelInv, SessionInv
  <2>3. CASE o = s
    <3>1. ~(s > issued)
          BY <1>1 DEF ChannelInv, ChannelTypeOK, Sessions
    <3>2. Live(r2) => Live(r) /\ r2.gen = r.gen /\ (~Current(conn[c]) => r2.inFlight = r.inFlight)
          BY DEF Follows
    <3>. QED
      BY <1>1, <1>3, <2>3, <3>1, <3>2 DEF ChannelInv, SessionInv, Current
  <2>. QED
    BY <2>2, <2>3
<1>6. ConnInv'
  <2>1. \A d \in Conns : conn'[d].state = "none" => conn'[d] = Channel(0, 0)
        BY <1>2, <1>3 DEF ChannelInv, ConnInv
  <2>2. ASSUME NEW d \in Conns, conn'[d].state # "none"
        PROVE  /\ conn'[d].session \in 1..issued' /\ conn'[d].gen \in 1..clientGen'[conn'[d].session]
               /\ Consistent(records[conn[d].session], conn[d])'
    <3>1. conn[d].state # "none" /\ conn'[d].session = conn[d].session /\ conn'[d].gen = conn[d].gen
          BY <1>2, <1>3, <2>2
    <3>2. conn[d].session \in Sessions /\ Consistent(records[conn[d].session], conn[d])
          BY <3>1, Connected
    <3>3. ASSUME d = c
          PROVE  Consistent(records[conn[d].session], conn[d])'
          BY <1>1, <1>2, <1>3, <3>3 DEF Consistent, Current, Holding, Ending, InUse
    <3>4. ASSUME d # c, conn[d].session # s
          PROVE  Consistent(records[conn[d].session], conn[d])'
          BY <1>3, <3>2, <3>4 DEF Consistent, Current, Holding, Ending, InUse
    <3>5. ASSUME d # c, conn[d].session = s
          PROVE  Consistent(records[conn[d].session], conn[d])'
      <4>1. conn[d].gen # conn[c].gen
            BY <3>1, <3>5 DEF ChannelInv, ConnInv
      <4>2. Current(conn[d]) => ~Current(conn[c])
            BY <4>1, <3>5 DEF Current
      <4>3. conn'[d] = conn[d] /\ records'[s] = r2
            BY <1>1, <1>3, <3>5
      <4>4. /\ Live(r2) => Live(r) /\ (r.released => r2.released)
            /\ Live(r2) /\ Current(conn[d]) => r2.inFlight = r.inFlight
            BY <4>2 DEF Follows
      <4>. QED
        BY <3>2, <3>5, <4>3, <4>4 DEF Consistent, Current, Holding, Ending, InUse
    <3>6. Consistent(records[conn[d].session], conn[d])'
          BY <3>3, <3>4, <3>5
    <3>. QED
      BY <3>1, <3>6 DEF ChannelInv, ConnInv
  <2>3. \A d, e \in Conns : conn'[d].state # "none" /\ conn'[d].session = conn'[e].session
                             /\ conn'[d].gen = conn'[e].gen => d = e
        BY <1>2, <1>3 DEF ChannelInv, ConnInv
  <2>. QED
    BY <2>1, <2>2, <2>3 DEF ConnInv
<1>7. ActiveInv'
      BY <1>2, <1>3, ChannelAssumption DEF ChannelInv, ChannelTypeOK, ActiveInv, Conns
<1>. QED
  BY <1>4, <1>5, <1>6, <1>7 DEF ChannelInv

-----------------------------------------------------------------------------
(* Sessions are made, end, and their connections are told.                 *)

\* An operation that is enqueued after admission is closed changes no use.
LEMMA FencedUse ==
    ASSUME NEW ch \in ChannelRecord, NEW op \in Ops
    PROVE  Fenced(ch, op) \in ChannelRecord /\ (ch.state # "none" => SameUse(ch, Fenced(ch, op)))
<1>1. ch.queue \in Seq(Ops) /\ Append(ch.queue, op) \in Seq(Ops)
      BY DEF ChannelRecord
<1>. QED
  BY <1>1 DEF Fenced, ChannelRecord, SameUse

\* ingress.revoke() and the routes: no connection changes its use.
LEMMA RelinkKeeps ==
    ASSUME ChannelInv, NEW cs \in [Conns -> ChannelRecord], NEW S \in SUBSET Sessions,
           NEW added, Relink(S, added, cs),
           \A c \in Conns : cs[c].state = "none" => cs[c].session = 0
    PROVE  /\ conn' \in [Conns -> ChannelRecord] /\ active' \in [Sessions -> 0..MaxConns]
           /\ \A s \in Sessions : active'[s] \in {active[s], 0}
           /\ \A c \in Conns : SameUse(cs[c], conn'[c])
           /\ UNCHANGED clientGen
<1>. DEFINE told == S \intersect routes
<1>1. /\ conn' = TellRevoked(cs, told) /\ UNCHANGED clientGen
      /\ active' = [s \in Sessions |-> IF s \in told THEN 0 ELSE active[s]]
      BY DEF Relink
<1>2. active \in [Sessions -> 0..MaxConns] /\ 0 \in 0..MaxConns
      BY ChannelAssumption DEF ChannelInv, ChannelTypeOK
<1>3. \A c \in Conns : cs[c].session \in told => cs[c].state # "none"
      BY DEF Sessions
<1>4. \A c \in Conns : conn'[c] \in {cs[c], Fenced(cs[c], "revoke")}
                     /\ (cs[c].session \notin told => conn'[c] = cs[c])
      BY <1>1 DEF TellRevoked
<1>5. \A c \in Conns : conn'[c] \in ChannelRecord /\ SameUse(cs[c], conn'[c])
      BY <1>3, <1>4, FencedUse DEF Ops, SameUse
<1>6. conn' \in [Conns -> ChannelRecord]
      BY <1>1, <1>5 DEF TellRevoked
<1>. QED
  BY <1>1, <1>2, <1>5, <1>6

\* A page is shown: a session is found or made for it, and the others end.
LEMMA ShowPageInv ==
    ASSUME ChannelInv, NEW e \in Epochs, NEW s \in Sessions, ShowPage(e, s)
    PROVE  ChannelInv'
<1>. USE DEF ChannelInv
<1>1. SessionFor(e, s) /\ Relink(Sessions \ {s}, {s}, conn)
      BY DEF ShowPage, Start, Link
<1>2. /\ conn' \in [Conns -> ChannelRecord] /\ active' \in [Sessions -> 0..MaxConns]
      /\ \A o \in Sessions : active'[o] \in {active[o], 0}
      /\ \A c \in Conns : SameUse(conn[c], conn'[c])
      /\ UNCHANGED clientGen
  <2>1. \A c \in Conns : conn[c].state = "none" => conn[c].session = 0
        BY DEF ConnInv, Channel
  <2>. QED
    BY <1>1, <2>1, RelinkKeeps DEF ChannelTypeOK
<1>3. /\ records \in [Sessions -> TakeoverRecord] /\ Pruned \in [Sessions -> TakeoverRecord]
      /\ \A o \in Sessions : Quiet(records[o], Pruned[o])
      BY PrunedQuiet DEF ChannelTypeOK
<1>4. CASE issued' = issued /\ records' = Pruned
      BY <1>2, <1>3, <1>4, QuietStep DEF GoesOn, ChannelTypeOK
<1>5. ASSUME s = issued + 1, issued' = s, records'[s] = NewRecord(e), DOMAIN records' = Sessions,
             records' = [o \in Sessions |-> records'[o]],
             \A o \in Sessions \ {s} :
                /\ records'[o] \in TakeoverRecord /\ Quiet(records[o], records'[o])
      PROVE  ChannelInv'
  <2>1. records' \in [Sessions -> TakeoverRecord]
        BY <1>5, NewRecords
  <2>2. issued' \in 0..MaxSessions
        BY <1>5, SessionsAssumption DEF ChannelTypeOK, Sessions
  <2>3. ChannelTypeOK'
        BY <1>2, <2>1, <2>2 DEF ChannelTypeOK
  <2>4. s # issued
        BY <1>5 DEF ChannelTypeOK
  <2>. QED
    BY <1>2, <1>5, <2>3, <2>4, QuietStep DEF GoesOn
<1>6. ASSUME s = issued + 1, issued' = s,
             records' = [o \in Sessions |->
                IF o = s THEN NewRecord(e)
                ELSE [Pruned[o] EXCEPT !.revoked = @ \/ ~Pruned[o].mediaOver]]
      PROVE  ChannelInv'
  <2>1. ASSUME NEW o \in Sessions \ {s}
        PROVE  records'[o] \in TakeoverRecord /\ Quiet(records[o], records'[o])
    <3>1. Pruned[o] \in TakeoverRecord /\ (~Pruned[o].mediaOver) \in BOOLEAN
          BY <1>3
    <3>2. /\ records'[o] = [Pruned[o] EXCEPT !.revoked = @ \/ ~Pruned[o].mediaOver]
          /\ records'[o] \in TakeoverRecord /\ Quiet(Pruned[o], records'[o])
          BY <1>6, <3>1, EndsQuietly
    <3>. QED
      BY <1>3, <3>2 DEF Quiet
  <2>. QED
    BY <1>5, <1>6, <2>1
<1>7. ASSUME s = issued + 1, issued' = s,
             records' = [o \in Sessions |->
                IF o = s THEN NewRecord(e) ELSE IF Pruned[o].completed THEN Pruned[o] ELSE Gone]
      PROVE  ChannelInv'
  <2>1. \A o \in Sessions \ {s} : records'[o] \in TakeoverRecord /\ Quiet(records[o], records'[o])
        BY <1>3, <1>7, NewRecords DEF Quiet
  <2>. QED
    BY <1>5, <1>7, <2>1
<1>. QED
  BY <1>1, <1>4, <1>6, <1>7 DEF SessionFor, Ensure

\* The consumer's revocation, or what the surface's loss of authority has revoked.
LEMMA RevokedInv ==
    ASSUME ChannelInv, NEW rs, NEW cs \in [Conns -> ChannelRecord], Revoke(rs, cs),
           rs \in [Sessions -> TakeoverRecord],
           \A c \in Conns :
                IF conn[c].state = "none" THEN cs[c] = conn[c]
                ELSE SameClient(conn[c], cs[c]) /\ (Holding(cs[c]) => Holding(conn[c]))
    PROVE  ChannelInv'
<1>. USE DEF ChannelInv
<1>1. \A c \in Conns : cs[c].state = "none" => cs[c].session = 0
      BY DEF ConnInv, Channel, SameClient
<1>2. Relink(Sessions, {}, cs) /\ UNCHANGED issued /\ records' = [s \in Sessions |-> Revoked(rs[s])]
      BY DEF Revoke
<1>3. /\ conn' \in [Conns -> ChannelRecord] /\ active' \in [Sessions -> 0..MaxConns]
      /\ \A s \in Sessions : active'[s] \in {active[s], 0}
      /\ \A c \in Conns : SameUse(cs[c], conn'[c])
      /\ UNCHANGED clientGen
      BY <1>1, <1>2, RelinkKeeps
<1>4. /\ records' \in [Sessions -> TakeoverRecord]
      /\ \A s \in Sessions : ~Live(records'[s])
      BY <1>2, RecordOps, EndsQuietly
<1>5. ChannelTypeOK'
      BY <1>2, <1>3, <1>4 DEF ChannelTypeOK
<1>6. ASSUME NEW c \in Conns
      PROVE  GoesOn(conn[c], conn'[c], records'[conn[c].session])
  <2>1. CASE conn[c].state = "none"
        BY <1>3, <2>1 DEF GoesOn
  <2>2. CASE conn[c].state # "none"
    <3>1. conn[c].session \in Sessions
          BY <2>2, Connected
    <3>2. SameClient(conn[c], cs[c]) /\ SameUse(cs[c], conn'[c]) /\ conn'[c] \in ChannelRecord
          BY <1>3, <2>2
    <3>3. SameClient(conn[c], conn'[c]) /\ (Holding(conn'[c]) => Holding(conn[c]))
          BY <2>2, <3>2 DEF SameClient, SameUse, Holding
    <3>. QED
      BY <1>4, <2>2, <3>1, <3>3 DEF GoesOn
  <2>. QED
    BY <2>1, <2>2
<1>7. \A s \in Sessions : Quiet(records[s], records'[s])
      BY <1>4 DEF Quiet
<1>. QED
  BY <1>2, <1>3, <1>5, <1>6, <1>7, QuietStep

\* The consumer verifies a completion.
LEMMA VerifiedInv ==
    ASSUME ChannelInv, NEW e \in Epochs, CompleteAfterVerification(e)
    PROVE  ChannelInv'
<1>. USE DEF ChannelInv
<1>1. /\ records' = VerifiedRecords(e) /\ UNCHANGED <<issued, clientGen, active, conn>>
      BY DEF CompleteAfterVerification, ingressVars
<1>2. /\ records \in [Sessions -> TakeoverRecord] /\ Pruned \in [Sessions -> TakeoverRecord]
      /\ \A o \in Sessions : Quiet(records[o], Pruned[o])
      BY PrunedQuiet DEF ChannelTypeOK
<1>3. ASSUME NEW s \in Sessions
      PROVE  records'[s] \in TakeoverRecord /\ Quiet(records[s], records'[s])
  <2>1. Completed(Pruned[s]) \in TakeoverRecord
        BY <1>2, RecordOps
  <2>2. /\ [Completed(Pruned[s]) EXCEPT !.extended = TRUE, !.doneOver = FALSE] \in TakeoverRecord
        /\ ~Live([Completed(Pruned[s]) EXCEPT !.extended = TRUE, !.doneOver = FALSE])
        BY <2>1 DEF TakeoverRecord, Completed, Live
  <2>. QED
    BY <1>1, <1>2, <2>2 DEF VerifiedRecords, Quiet
<1>4. records' \in [Sessions -> TakeoverRecord]
      BY <1>1, <1>3 DEF VerifiedRecords
<1>5. ChannelTypeOK'
      BY <1>1, <1>4 DEF ChannelTypeOK
<1>. QED
  BY <1>1, <1>3, <1>5, QuietStep DEF GoesOn, SameUse, ChannelTypeOK

\* The cleanup timer, and the passing of time.
LEMMA ExpiryInv ==
    ASSUME ChannelInv, NEW s \in Sessions, ExpiryCleanup(s)
    PROVE  ChannelInv'
<1>. USE DEF ChannelInv
<1>1. /\ records' = [records EXCEPT ![s] = Revoked(@)] /\ Relink({s}, {}, conn) /\ UNCHANGED issued
      BY DEF ExpiryCleanup
<1>2. /\ conn' \in [Conns -> ChannelRecord] /\ active' \in [Sessions -> 0..MaxConns]
      /\ \A o \in Sessions : active'[o] \in {active[o], 0}
      /\ \A c \in Conns : SameUse(conn[c], conn'[c])
      /\ UNCHANGED clientGen
  <2>1. \A c \in Conns : conn[c].state = "none" => conn[c].session = 0
        BY DEF ConnInv, Channel
  <2>. QED
    BY <1>1, <2>1, RelinkKeeps DEF ChannelTypeOK
<1>3. /\ records' \in [Sessions -> TakeoverRecord]
      /\ \A o \in Sessions : Quiet(records[o], records'[o])
      BY <1>1, RecordOps, EndsQuietly DEF ChannelTypeOK
<1>4. ChannelTypeOK'
      BY <1>1, <1>2, <1>3 DEF ChannelTypeOK
<1>. QED
  BY <1>1, <1>2, <1>3, <1>4, QuietStep DEF GoesOn

\* A media lease or a completion window ends.
LEMMA TimeInv ==
    ASSUME ChannelInv, NEW s \in Sessions, Time(s)
    PROVE  ChannelInv'
<1>. USE DEF ChannelInv
<1>1. UNCHANGED <<issued, clientGen, active, conn>>
      BY DEF Time, MediaLeaseEnds, CompletionWindowEnds, ingressVars
<1>2. /\ records' \in [Sessions -> TakeoverRecord]
      /\ \A o \in Sessions : Quiet(records[o], records'[o])
  <2>0. records \in [Sessions -> TakeoverRecord]
        BY DEF ChannelTypeOK
  <2>1. ASSUME NEW r \in TakeoverRecord
        PROVE  [r EXCEPT !.mediaOver = TRUE] \in TakeoverRecord /\ [r EXCEPT !.doneOver = TRUE] \in TakeoverRecord
        BY <2>1 DEF TakeoverRecord
  <2>2. \E r2 \in {[records[s] EXCEPT !.mediaOver = TRUE], [records[s] EXCEPT !.doneOver = TRUE]} :
            records' = [records EXCEPT ![s] = r2]
        BY DEF Time, MediaLeaseEnds, CompletionWindowEnds
  <2>3. PICK r2 \in {[records[s] EXCEPT !.mediaOver = TRUE], [records[s] EXCEPT !.doneOver = TRUE]} :
            records' = [records EXCEPT ![s] = r2]
        BY <2>2
  <2>4. r2 \in TakeoverRecord /\ Quiet(records[s], r2)
        BY <2>0, <2>1, <2>3, EndsQuietly
  <2>. QED
    BY <2>0, <2>3, <2>4, EndsQuietly
<1>3. ChannelTypeOK'
      BY <1>1, <1>2 DEF ChannelTypeOK
<1>. QED
  BY <1>1, <1>2, <1>3, QuietStep DEF GoesOn, SameUse, ChannelTypeOK

-----------------------------------------------------------------------------
(* The client asks, and the socket tells.                                  *)

\* A step that leaves every session, and every use of a channel, as it is.
LEMMA SameUseInv ==
    ASSUME ChannelInv, UNCHANGED <<records, issued, clientGen>>,
           conn' \in [Conns -> ChannelRecord], \A c \in Conns : SameUse(conn[c], conn'[c]),
           active' \in [Sessions -> 0..MaxConns],
           \A s \in Sessions : active'[s] \in {active[s], 0}
    PROVE  ChannelInv'
<1>1. ChannelTypeOK' /\ \A s \in Sessions : Quiet(records[s], records'[s])
      BY DEF ChannelInv, ChannelTypeOK, Quiet
<1>. QED
  BY <1>1, QuietStep DEF GoesOn, ChannelInv, ChannelTypeOK

\* issueHandshakeTicket(): only tickets change.
LEMMA TicketInv ==
    ASSUME ChannelInv, NEW s \in Sessions, IssueTicket(s)
    PROVE  ChannelInv'
<1>. DEFINE keeps(c) == conn[c].ticket /\ conn[c].session # s /\ conn[c].session \in PrunedKnown
<1>1. \A c \in Conns : keeps(c) \in BOOLEAN /\ (conn[c].state = "none" => ~keeps(c))
      BY DEF ChannelInv, ConnInv, Channel, ChannelTypeOK, ChannelRecord
<1>2. ASSUME NEW ch \in ChannelRecord, NEW b \in BOOLEAN, ch.state = "none" => ch = Channel(0, 0) /\ ~b
      PROVE  [ch EXCEPT !.ticket = b] \in ChannelRecord /\ SameUse(ch, [ch EXCEPT !.ticket = b])
  <2>1. [ch EXCEPT !.ticket = b] \in ChannelRecord
        BY DEF ChannelRecord
  <2>2. ch.state = "none" => [ch EXCEPT !.ticket = b] = ch
    <3>1. (0 > 0) = FALSE
          OBVIOUS
    <3>2. Channel(0, 0).ticket = (0 > 0)
          BY Zenon DEF Channel
    <3>3. Channel(0, 0).ticket = FALSE
          BY <3>1, <3>2, Zenon
    <3>. QED
      BY <1>2, <2>1, <3>3 DEF ChannelRecord
  <2>. QED
    BY <2>1, <2>2 DEF SameUse, ChannelRecord
<1>3. /\ conn' = [c \in Conns |-> [conn[c] EXCEPT !.ticket = keeps(c)]]
      /\ UNCHANGED <<records, issued, clientGen, active>>
  <2>1. conn' = [c \in Conns |->
            [conn[c] EXCEPT !.ticket = @ /\ conn[c].session # s /\ conn[c].session \in PrunedKnown]]
        BY DEF IssueTicket
  <2>. QED
    BY <2>1 DEF IssueTicket
<1>4. \A c \in Conns : conn'[c] \in ChannelRecord /\ SameUse(conn[c], conn'[c])
  <2>. HIDE DEF keeps
  <2>. QED
    BY <1>1, <1>2, <1>3 DEF ChannelInv, ConnInv, ChannelTypeOK
<1>5. conn' \in [Conns -> ChannelRecord]
      BY <1>3, <1>4
<1>. QED
  BY <1>3, <1>4, <1>5, SameUseInv DEF ChannelInv, ChannelTypeOK

\* receiveText(): a message is queued, or the queue is at its limit.
LEMMA ReceiveInv ==
    ASSUME ChannelInv, NEW c \in Conns, NEW kind \in Kinds, Receive(c, kind)
    PROVE  ChannelInv'
<1>1. conn[c] \in ChannelRecord /\ conn[c].state # "none" /\ conn[c].received + 1 \in Nat
      BY DEF Receive, ChannelInv, ConnInv, ChannelTypeOK, ChannelRecord, Channel
<1>2. Append(conn[c].queue, kind) \in Seq(Ops)
      BY <1>1 DEF ChannelRecord, Ops
<1>3. ASSUME NEW ch \in {[conn[c] EXCEPT !.queue = Append(@, kind)], Fenced(conn[c], "overflow")}
      PROVE  /\ [ch EXCEPT !.received = conn[c].received + 1] \in ChannelRecord
             /\ SameUse(conn[c], [ch EXCEPT !.received = conn[c].received + 1])
  <2>1. ch \in ChannelRecord /\ SameUse(conn[c], ch)
    <3>1. CASE ch = [conn[c] EXCEPT !.queue = Append(@, kind)]
          BY <1>1, <1>2, <3>1 DEF ChannelRecord, SameUse
    <3>2. CASE ch = Fenced(conn[c], "overflow")
          BY <1>1, <3>2, FencedUse DEF Ops
    <3>. QED
      BY <1>3, <3>1, <3>2
  <2>. QED
    BY <1>1, <2>1 DEF ChannelRecord, SameUse
<1>4. PICK ch2 : ch2 = Received(conn[c], kind)
      OBVIOUS
<1>5. conn' = [conn EXCEPT ![c] = ch2]
      BY <1>4 DEF Receive
<1>6. \A d \in Conns : conn'[d] = IF d = c THEN ch2 ELSE conn[d]
      BY <1>5 DEF ChannelInv, ChannelTypeOK
<1>7. ch2 \in ChannelRecord /\ SameUse(conn[c], ch2)
      BY <1>3, <1>4 DEF Received
<1>8. conn' \in [Conns -> ChannelRecord] /\ \A d \in Conns : SameUse(conn[d], conn'[d])
      BY <1>5, <1>6, <1>7 DEF ChannelInv, ChannelTypeOK, SameUse
<1>. QED
  BY <1>8, SameUseInv DEF Receive, ingressVars, ChannelInv, ChannelTypeOK

\* disconnectOnce(): the socket goes, and the channel is told.
LEMMA LeaveInv ==
    ASSUME ChannelInv, NEW c \in Conns, NEW sock \in {"closing", "gone"}, Leave(c, sock)
    PROVE  ChannelInv'
<1>1. conn[c] \in ChannelRecord /\ conn[c].state # "none"
      BY DEF Leave, ChannelInv, ChannelTypeOK
<1>2. Fenced(conn[c], "disconnect") \in ChannelRecord /\ SameUse(conn[c], Fenced(conn[c], "disconnect"))
      BY <1>1, FencedUse DEF Ops
<1>3. PICK ch2 \in {[conn[c] EXCEPT !.socket = sock],
                    [Fenced(conn[c], "disconnect") EXCEPT !.socket = sock, !.left = TRUE]} :
            conn' = [conn EXCEPT ![c] = ch2]
      BY DEF Leave
<1>4. ch2 \in ChannelRecord /\ SameUse(conn[c], ch2)
  <2>1. CASE ch2 = [conn[c] EXCEPT !.socket = sock]
        BY <1>1, <2>1 DEF ChannelRecord, SameUse
  <2>2. CASE ch2 = [Fenced(conn[c], "disconnect") EXCEPT !.socket = sock, !.left = TRUE]
        BY <1>1, <1>2, <2>2 DEF ChannelRecord, SameUse
  <2>. QED
    BY <1>3, <2>1, <2>2
<1>5. \A d \in Conns : conn'[d] = IF d = c THEN ch2 ELSE conn[d]
      BY <1>3 DEF ChannelInv, ChannelTypeOK
<1>6. conn' \in [Conns -> ChannelRecord] /\ \A d \in Conns : SameUse(conn[d], conn'[d])
      BY <1>3, <1>4, <1>5 DEF ChannelInv, ChannelTypeOK, SameUse
<1>7. /\ active' \in [Sessions -> 0..MaxConns]
      /\ \A s \in Sessions : active'[s] \in {active[s], 0}
  <2>1. active' = [s \in Sessions |-> IF active[s] = c /\ ~conn[c].left THEN 0 ELSE active[s]]
        BY DEF Leave
  <2>. QED
    BY <2>1, ChannelAssumption DEF ChannelInv, ChannelTypeOK
<1>. QED
  BY <1>6, <1>7, SameUseInv DEF Leave

\* What leaves records, connections and clients alone, as pumpFrame() does.
LEMMA PumpInv ==
    ASSUME ChannelInv, UNCHANGED <<records, issued, clientGen, active, conn>>
    PROVE  ChannelInv'
  BY SameUseInv DEF SameUse, ChannelInv, ChannelTypeOK

\* A capture fails: the authority over the window is lost, or nothing changes.
LEMMA CaptureFailsInv ==
    ASSUME ChannelInv, NEW lost, CaptureFails(lost)
    PROVE  ChannelInv'
<1>1. CASE Revoke(records, conn)
  <2>1. /\ conn \in [Conns -> ChannelRecord] /\ records \in [Sessions -> TakeoverRecord]
        /\ \A c \in Conns : IF conn[c].state = "none" THEN conn[c] = conn[c]
                            ELSE SameClient(conn[c], conn[c]) /\ (Holding(conn[c]) => Holding(conn[c]))
        BY DEF ChannelInv, ChannelTypeOK, SameClient
  <2>. QED
    BY <1>1, <2>1, RevokedInv
<1>2. CASE UNCHANGED <<records, issued, brokerVars, ingressVars, conn>>
      BY <1>2, PumpInv DEF ingressVars
<1>. QED
  BY <1>1, <1>2 DEF CaptureFails

-----------------------------------------------------------------------------
(* A channel in the middle of a step, and how the step goes on.            *)

\* The records are rs and the channel of c is ch, halfway through a step.
Midway(c, rs, ch) ==
    LET s == conn[c].session IN
    /\ rs \in [Sessions -> TakeoverRecord] /\ rs = [records EXCEPT ![s] = rs[s]]
    /\ Follows(records[s], rs[s], conn[c])
    /\ ch \in ChannelRecord /\ SameClient(conn[c], ch) /\ Consistent(rs[s], ch)

\* In the middle of a step the channel has the client it had before.
LEMMA MidwayClient ==
    ASSUME ChannelInv, NEW c \in Conns, conn[c].state # "none", NEW rs, NEW ch, Midway(c, rs, ch)
    PROVE  /\ ch.session = conn[c].session /\ ch.gen = conn[c].gen /\ ch.session \in Sessions
           /\ Live(rs[ch.session]) => rs[ch.session].gen = clientGen[ch.session]
           /\ Current(ch) <=> Current(conn[c])
  BY Connected DEF Midway, Follows, SameClient, Current

\* The step is over.
LEMMA MidwayEnds ==
    ASSUME ChannelInv, NEW c \in Conns, conn[c].state # "none", NEW rs, NEW ch, Midway(c, rs, ch),
           conn' = [conn EXCEPT ![c] = ch], records' = rs, UNCHANGED <<issued, clientGen, active>>
    PROVE  ChannelInv'
  BY ChannelStep DEF Midway

\* The channel fails.
LEMMA MidwayFails ==
    ASSUME ChannelInv, NEW c \in Conns, conn[c].state # "none", NEW rs, NEW ch, Midway(c, rs, ch)
    PROVE  Midway(c, FailedRecords(rs, ch), Failed(ch))
<1>. DEFINE s == conn[c].session  rs2 == FailedRecords(rs, ch)
<1>1. /\ ch.session = s /\ ch.gen = conn[c].gen /\ s \in Sessions
      /\ Live(rs[s]) => rs[s].gen = clientGen[s]
      /\ Current(ch) <=> Current(conn[c])
      BY MidwayClient
<1>2. /\ SameClient(ch, Failed(ch)) /\ rs2 = [rs EXCEPT ![s] = rs2[s]]
      /\ Follows(rs[s], rs2[s], ch) /\ Consistent(rs2[s], Failed(ch))
      BY <1>1, FailedConsistent DEF Midway, SameClient
<1>3. Follows(records[s], rs2[s], conn[c])
      BY <1>1, <1>2 DEF Follows, Midway
<1>4. rs2 \in [Sessions -> TakeoverRecord] /\ rs2 = [records EXCEPT ![s] = rs2[s]]
  <2>. HIDE DEF rs2
  <2>. QED
    BY <1>1, <1>2 DEF Midway, Follows
<1>5. Failed(ch) \in ChannelRecord /\ SameClient(conn[c], Failed(ch))
      BY <1>1, <1>2 DEF SameClient
<1>. QED
  BY <1>2, <1>3, <1>4, <1>5 DEF Midway

\* A use begins.
LEMMA MidwayBegins ==
    ASSUME ChannelInv, NEW c \in Conns, conn[c].state # "none", NEW rs, NEW ch, Midway(c, rs, ch),
           clientGen[ch.session] = ch.gen, MayUse(rs[ch.session], ch.gen),
           NEW ch2 \in ChannelRecord, SameClient(ch, ch2), ch2.state = ch.state, ch2.released = ch.released,
           \/ /\ ~ch.sending /\ ch2.sending
              /\ ch2.starting = ch.starting /\ ch2.busy = ch.busy
           \/ /\ ch.busy = "no" /\ ch2.busy = "input"
              /\ ch2.starting = ch.starting /\ ch2.sending = ch.sending
    PROVE  Midway(c, [rs EXCEPT ![ch.session] = UseBegun(@)], ch2)
<1>. DEFINE s == conn[c].session  rs2 == [rs EXCEPT ![s] = UseBegun(@)]
<1>1. /\ ch.session = s /\ ch.gen = conn[c].gen /\ s \in Sessions
      /\ Current(ch) <=> Current(conn[c])
      BY MidwayClient
<1>2. Follows(rs[s], rs2[s], ch) /\ Consistent(rs2[s], ch2)
      BY <1>1, BegunConsistent DEF Midway
<1>3. Follows(records[s], rs2[s], conn[c])
      BY <1>1, <1>2 DEF Follows, Midway
<1>4. rs2 \in [Sessions -> TakeoverRecord] /\ rs2 = [records EXCEPT ![s] = rs2[s]]
      BY <1>1, RecordOps DEF Midway
<1>5. SameClient(conn[c], ch2)
      BY <1>1 DEF SameClient
<1>. QED
  BY <1>1, <1>2, <1>3, <1>4, <1>5 DEF Midway

\* A use of the connection is over.
LEMMA MidwayEnded ==
    ASSUME ChannelInv, NEW c \in Conns, conn[c].state # "none", Holding(conn[c]),
           NEW ch \in ChannelRecord, NEW ok,
           SameClient(conn[c], ch), ch.state = conn[c].state, ch.released = conn[c].released,
           \/ /\ conn[c].starting /\ ~ch.starting
              /\ ch.sending = conn[c].sending /\ ch.busy = conn[c].busy
           \/ /\ conn[c].sending /\ ~ch.sending
              /\ ch.starting = conn[c].starting /\ ch.busy = conn[c].busy
           \/ /\ conn[c].busy = "input" /\ ch.busy = "no"
              /\ ch.starting = conn[c].starting /\ ch.sending = conn[c].sending
    PROVE  Midway(c, EndedAnyway(records, ch, ok), ch)
<1>. DEFINE s == conn[c].session  rs2 == EndedAnyway(records, ch, ok)
<1>1. /\ conn[c] \in ChannelRecord /\ s \in Sessions
      /\ records \in [Sessions -> TakeoverRecord]
      /\ Live(records[s]) => records[s].gen = clientGen[s]
      /\ Consistent(records[s], conn[c])
      BY Connected
<1>2. /\ rs2 = [records EXCEPT ![s] = rs2[s]]
      /\ Follows(records[s], rs2[s], conn[c]) /\ Consistent(rs2[s], ch)
      BY <1>1, EndedConsistent
<1>3. rs2 \in [Sessions -> TakeoverRecord]
  <2>. HIDE DEF rs2
  <2>. QED
    BY <1>1, <1>2 DEF Follows
<1>. QED
  BY <1>2, <1>3 DEF Midway

\* The records are as they were, and the channel is one with the same uses.
LEMMA MidwayStarts ==
    ASSUME ChannelInv, NEW c \in Conns, conn[c].state # "none", NEW ch \in ChannelRecord,
           SameClient(conn[c], ch), Consistent(records[conn[c].session], ch)
    PROVE  Midway(c, records, ch)
<1>1. /\ conn[c].session \in Sessions /\ records \in [Sessions -> TakeoverRecord]
      BY Connected
<1>2. Follows(records[conn[c].session], records[conn[c].session], conn[c])
      BY <1>1 DEF Follows
<1>. QED
  BY <1>1, <1>2 DEF Midway

\* The first operation of the queue is taken: nothing else of the channel changes.
LEMMA MidwayPopped ==
    ASSUME ChannelInv, NEW c \in Conns, NEW kind, Head1(c, kind)
    PROVE  /\ conn[c].state # "none" /\ Popped(c) \in ChannelRecord /\ SameUse(conn[c], Popped(c))
           /\ SameClient(conn[c], Popped(c)) /\ Midway(c, records, Popped(c)) /\ conn[c].busy = "no"
<1>1. conn[c].state # "none" /\ conn[c] \in ChannelRecord
      BY DEF Head1, ChannelInv, ConnInv, ChannelTypeOK, Channel
<1>2. Tail(conn[c].queue) \in Seq(Ops)
      BY <1>1 DEF Head1, ChannelRecord
<1>3. Popped(c) \in ChannelRecord /\ SameUse(conn[c], Popped(c)) /\ SameClient(conn[c], Popped(c))
      BY <1>1, <1>2 DEF Popped, ChannelRecord, SameUse, SameClient
<1>4. Consistent(records[conn[c].session], Popped(c))
      BY <1>1, <1>3, Connected DEF SameUse, Consistent, Holding, InUse, Ending, Current
<1>. QED
  BY <1>1, <1>3, <1>4, MidwayStarts DEF Head1

\* The next frame is sent, waits, or fails the channel.
LEMMA SendNextInv ==
    ASSUME ChannelInv, NEW c \in Conns, conn[c].state # "none", NEW rs, NEW ch, NEW congested \in BOOLEAN,
           Midway(c, rs, ch), ~ch.sending, SendNext(c, ch, rs, congested),
           UNCHANGED <<issued, clientGen, active>>
    PROVE  ChannelInv'
<1>0. ch \in ChannelRecord
      BY DEF Midway
<1>1. CASE congested
  <2>. DEFINE ch2 == [ch EXCEPT !.sending = FALSE, !.pending = TRUE, !.timer = TRUE]
  <2>1. ch2 \in ChannelRecord /\ SameUse(ch, ch2) /\ ch2.state = ch.state
        BY <1>0 DEF ChannelRecord, SameUse, Midway, SameClient
  <2>2. Midway(c, rs, ch2)
        BY <2>1 DEF Midway, SameUse, SameClient, Consistent, Holding, InUse, Ending, Current
  <2>3. conn' = [conn EXCEPT ![c] = ch2] /\ records' = rs
        BY <1>1 DEF SendNext
  <2>. QED
    BY <2>2, <2>3, MidwayEnds
<1>2. CASE ~congested /\ clientGen[ch.session] = ch.gen /\ MayUse(rs[ch.session], ch.gen)
  <2>. DEFINE ch2 == [ch EXCEPT !.sending = TRUE, !.pending = FALSE]
  <2>1. /\ ch2 \in ChannelRecord /\ SameClient(ch, ch2) /\ ch2.state = ch.state /\ ch2.released = ch.released
        /\ ch2.sending /\ ch2.starting = ch.starting /\ ch2.busy = ch.busy
        BY <1>0 DEF ChannelRecord, SameClient, Midway
  <2>2. Midway(c, [rs EXCEPT ![ch.session] = UseBegun(@)], ch2)
    <3>. HIDE DEF ch2
    <3>. QED
      BY <1>2, <2>1, MidwayBegins
  <2>3. conn' = [conn EXCEPT ![c] = ch2] /\ records' = [rs EXCEPT ![ch.session] = UseBegun(@)]
        BY <1>2 DEF SendNext
  <2>. QED
    BY <2>2, <2>3, MidwayEnds
<1>3. CASE ~congested /\ ~(clientGen[ch.session] = ch.gen /\ MayUse(rs[ch.session], ch.gen))
  <2>1. [Failed(ch) EXCEPT !.sending = FALSE] = Failed(ch)
    <3>1. Failed(ch) \in ChannelRecord /\ Failed(ch).sending = FALSE
          BY <1>0, FailedTyped DEF ChannelRecord
    <3>. QED
      BY <3>1 DEF ChannelRecord
  <2>2. conn' = [conn EXCEPT ![c] = Failed(ch)] /\ records' = FailedRecords(rs, ch)
        BY <1>3, <2>1 DEF SendNext
  <2>. QED
    BY <2>2, MidwayFails, MidwayEnds
<1>. QED
  BY <1>1, <1>2, <1>3

-----------------------------------------------------------------------------
(* The operations of a channel, and the frames.                            *)

\* channel.start() has its answer.
LEMMA ReadyInv ==
    ASSUME ChannelInv, NEW c \in Conns, NEW ok \in BOOLEAN, Ready(c, ok)
    PROVE  ChannelInv'
<1>. DEFINE ch == [conn[c] EXCEPT !.starting = FALSE]  rs == EndedAnyway(records, ch, ok)
<1>1. conn[c].state # "none" /\ conn[c] \in ChannelRecord /\ conn[c].starting
  <2>0. (0 > 0) = FALSE
        OBVIOUS
  <2>1. Channel(0, 0).starting = (0 > 0)
        BY Zenon DEF Channel
  <2>. QED
    BY <2>0, <2>1 DEF Ready, ChannelInv, ConnInv, ChannelTypeOK
<1>2. Midway(c, rs, ch)
  <2>1. /\ ch \in ChannelRecord /\ SameClient(conn[c], ch) /\ ch.state = conn[c].state
        /\ ch.released = conn[c].released /\ ~ch.starting /\ ch.sending = conn[c].sending
        /\ ch.busy = conn[c].busy
        BY <1>1 DEF ChannelRecord, SameClient
  <2>. QED
    BY <1>1, <2>1, MidwayEnded DEF Holding
<1>. HIDE DEF ch, rs
<1>3. UNCHANGED <<issued, clientGen, active>>
      BY DEF Ready
<1>4. CASE ok
  <2>1. conn' = [conn EXCEPT ![c] = ch] /\ records' = rs
        BY <1>4 DEF Ready, ch, rs
  <2>. QED
    BY <1>1, <1>2, <1>3, <2>1, MidwayEnds
<1>5. CASE ~ok
  <2>1. conn' = [conn EXCEPT ![c] = Failed(ch)] /\ records' = FailedRecords(rs, ch)
        BY <1>5 DEF Ready, ch, rs
  <2>. QED
    BY <1>1, <1>2, <1>3, <2>1, MidwayFails, MidwayEnds
<1>. QED
  BY <1>4, <1>5

\* An input begins its use, is dropped, or fails the channel.
LEMMA RunInputInv ==
    ASSUME ChannelInv, NEW c \in Conns, RunInput(c)
    PROVE  ChannelInv'
<1>. DEFINE ch == Popped(c)
<1>1. /\ conn[c].state # "none" /\ ch \in ChannelRecord /\ SameUse(conn[c], ch)
      /\ SameClient(conn[c], ch) /\ Midway(c, records, ch) /\ conn[c].busy = "no"
      /\ UNCHANGED <<issued, clientGen, active>>
      BY MidwayPopped DEF RunInput
<1>. HIDE DEF ch
<1>2. CASE conn' = [conn EXCEPT ![c] = ch] /\ records' = records
      BY <1>1, <1>2, MidwayEnds
<1>3. CASE /\ MayBegin(ch) /\ conn' = [conn EXCEPT ![c] = [ch EXCEPT !.busy = "input"]]
           /\ records' = Begun(ch)
  <2>. DEFINE ch2 == [ch EXCEPT !.busy = "input"]
  <2>1. /\ ch2 \in ChannelRecord /\ SameClient(ch, ch2) /\ ch2.state = ch.state /\ ch2.released = ch.released
        /\ ch.busy = "no" /\ ch2.busy = "input" /\ ch2.starting = ch.starting /\ ch2.sending = ch.sending
        BY <1>1 DEF ChannelRecord, SameClient, SameUse
  <2>. HIDE DEF ch2
  <2>2. Midway(c, [records EXCEPT ![ch.session] = UseBegun(@)], ch2)
        BY <1>1, <1>3, <2>1, MidwayBegins DEF MayBegin
  <2>3. conn' = [conn EXCEPT ![c] = ch2] /\ records' = [records EXCEPT ![ch.session] = UseBegun(@)]
        BY <1>3 DEF Begun, ch2
  <2>. QED
    BY <1>1, <2>2, <2>3, MidwayEnds
<1>4. CASE FailClosed(c, ch)
      BY <1>1, <1>4, MidwayFails, MidwayEnds DEF FailClosed
<1>. QED
  BY <1>2, <1>3, <1>4 DEF RunInput, ch

\* The use of an input ends with its answer; lost authority revokes every session.
LEMMA InputSettlesInv ==
    ASSUME ChannelInv, NEW c \in Conns, NEW outcome, InputSettles(c, outcome)
    PROVE  ChannelInv'
<1>. DEFINE ch == [conn[c] EXCEPT !.busy = "no"]
<1>1. conn[c].state # "none" /\ conn[c] \in ChannelRecord /\ conn[c].busy = "input"
      BY DEF InputSettles, ChannelInv, ConnInv, ChannelTypeOK, Channel
<1>2. \A ok : Midway(c, EndedAnyway(records, ch, ok), ch)
  <2>1. /\ ch \in ChannelRecord /\ SameClient(conn[c], ch) /\ ch.state = conn[c].state
        /\ ch.released = conn[c].released /\ ch.starting = conn[c].starting
        /\ ch.sending = conn[c].sending /\ ch.busy = "no"
        BY <1>1 DEF ChannelRecord, SameClient
  <2>. HIDE DEF ch
  <2>. QED
    BY <1>1, <2>1, MidwayEnded DEF Holding
<1>. HIDE DEF ch
<1>3. CASE outcome # "lost"
  <2>1. /\ conn' = [conn EXCEPT ![c] = ch] /\ UNCHANGED <<issued, clientGen, active>>
        /\ records' = EndedAnyway(records, ch, outcome = "applied")
        BY <1>3 DEF InputSettles, ch
  <2>. QED
    BY <1>1, <1>2, <2>1, MidwayEnds
<1>4. CASE outcome = "lost"
  <2>. DEFINE rs == EndedAnyway(records, ch, FALSE)  cs == [conn EXCEPT ![c] = Failed(ch)]
  <2>1. Revoke(rs, cs)
        BY <1>4 DEF InputSettles, ch
  <2>2. /\ ch \in ChannelRecord /\ rs \in [Sessions -> TakeoverRecord]
        BY <1>2 DEF Midway
  <2>3. Failed(ch) \in ChannelRecord /\ SameClient(conn[c], Failed(ch)) /\ Holding(conn[c])
    <3>1. ch.session = conn[c].session /\ ch.gen = conn[c].gen
          BY <1>1 DEF ch, ChannelRecord
    <3>2. Holding(conn[c])
          BY <1>1 DEF Holding
    <3>. QED
      BY <2>2, <3>1, <3>2, FailedTyped DEF SameClient
  <2>4. /\ cs \in [Conns -> ChannelRecord]
        /\ \A d \in Conns : cs[d] = IF d = c THEN Failed(ch) ELSE conn[d]
        BY <2>3 DEF ChannelInv, ChannelTypeOK
  <2>5. \A d \in Conns : IF conn[d].state = "none" THEN cs[d] = conn[d]
                          ELSE SameClient(conn[d], cs[d]) /\ (Holding(cs[d]) => Holding(conn[d]))
        BY <1>1, <2>3, <2>4 DEF SameClient, ChannelInv, ChannelTypeOK
  <2>. HIDE DEF rs, cs
  <2>. QED
    BY <2>1, <2>2, <2>4, <2>5, RevokedInv
<1>. QED
  BY <1>3, <1>4

\* A message that does not parse, or does not fit, fails the channel.
LEMMA RunRefusedInv ==
    ASSUME ChannelInv, NEW c \in Conns, RunRefused(c)
    PROVE  ChannelInv'
<1>. DEFINE ch == Popped(c)
<1>1. /\ conn[c].state # "none" /\ Midway(c, records, ch) /\ UNCHANGED <<issued, clientGen, active>>
      BY MidwayPopped DEF RunRefused
<1>. HIDE DEF ch
<1>2. CASE conn' = [conn EXCEPT ![c] = ch] /\ records' = records
      BY <1>1, <1>2, MidwayEnds
<1>3. CASE FailClosed(c, ch)
      BY <1>1, <1>3, MidwayFails, MidwayEnds DEF FailClosed
<1>. QED
  BY <1>2, <1>3 DEF RunRefused, ch

\* Done: the session is over before the consumer is told.
LEMMA RunDoneInv ==
    ASSUME ChannelInv, NEW c \in Conns, RunDone(c)
    PROVE  ChannelInv'
<1>. DEFINE ch == Popped(c)  s == conn[c].session
<1>1. /\ conn[c].state # "none" /\ ch \in ChannelRecord /\ SameUse(conn[c], ch)
      /\ SameClient(conn[c], ch) /\ Midway(c, records, ch) /\ conn[c].busy = "no"
      /\ UNCHANGED <<issued, clientGen, active>>
      BY MidwayPopped DEF RunDone
<1>. HIDE DEF ch
<1>2. CASE conn' = [conn EXCEPT ![c] = ch] /\ records' = records
      BY <1>1, <1>2, MidwayEnds
<1>3. CASE FailClosed(c, ch)
      BY <1>1, <1>3, MidwayFails, MidwayEnds DEF FailClosed
<1>4. CASE /\ MayFinish(ch) /\ records' = [records EXCEPT ![s] = Completed(@)]
           /\ conn' = [conn EXCEPT ![c] =
                IF s \in routes THEN [Cut(ch, "closing") EXCEPT !.busy = "done"] ELSE Failed(ch)]
  <2>. DEFINE ch2 == IF s \in routes THEN [Cut(ch, "closing") EXCEPT !.busy = "done"] ELSE Failed(ch)
              r2 == Completed(records[s])
  <2>1. ch2 \in ChannelRecord /\ SameClient(conn[c], ch2)
    <3>1. CASE s \in routes
      <4>1. /\ Cut(ch, "closing") \in ChannelRecord /\ Cut(ch, "closing").state = "closing"
            /\ Cut(ch, "closing").session = ch.session /\ Cut(ch, "closing").gen = ch.gen
            BY <1>1, CutTyped DEF States
      <4>. QED
        BY <1>1, <3>1, <4>1 DEF ChannelRecord, SameClient
    <3>2. CASE s \notin routes
          BY <1>1, <3>2, FailedTyped DEF SameClient
    <3>. QED
      BY <3>1, <3>2
  <2>2. Current(conn[c])
        BY <1>1, <1>4 DEF MayFinish, Current, SameClient
  <2>3. records[s] \in TakeoverRecord /\ r2 \in TakeoverRecord /\ ~Live(r2) /\ s \in Sessions
        BY <1>1, Connected, RecordOps, EndsQuietly
  <2>4. Follows(records[s], r2, conn[c])
        BY <2>3 DEF Follows
  <2>5. Consistent(r2, ch2)
        BY <2>1, <2>2, <2>3 DEF Consistent, Current, SameClient
  <2>6. conn' = [conn EXCEPT ![c] = ch2] /\ records' = [records EXCEPT ![s] = r2]
        BY <1>4
  <2>. HIDE DEF ch2, r2
  <2>. QED
    BY <1>1, <2>1, <2>4, <2>5, <2>6, ChannelStep
<1>5. ch.session = s
      BY <1>1 DEF SameUse
<1>. QED
  BY <1>2, <1>3, <1>4, <1>5 DEF RunDone, ch

\* The answer of the consumer closes the channel or fails it; its session is over already.
LEMMA CompletedHookInv ==
    ASSUME ChannelInv, NEW c \in Conns, NEW ok, CompletedHook(c, ok)
    PROVE  ChannelInv'
<1>. DEFINE ch == [conn[c] EXCEPT !.busy = "no"]
<1>1. conn[c].state # "none" /\ conn[c] \in ChannelRecord /\ conn[c].busy = "done"
      BY DEF CompletedHook, ChannelInv, ConnInv, ChannelTypeOK, Channel
<1>2. /\ ch \in ChannelRecord /\ SameClient(conn[c], ch) /\ ~Live(records[conn[c].session])
      /\ Consistent(records[conn[c].session], conn[c])
      BY <1>1, Connected DEF ChannelRecord, SameClient, Consistent
<1>3. UNCHANGED <<issued, clientGen, active>>
      BY DEF CompletedHook, ingressVars
<1>4. CASE ok
  <2>. DEFINE ch2 == [ch EXCEPT !.released = TRUE, !.state = "closed", !.socket = Closing(ch)]
  <2>1. Closing(ch) \in {"open", "closing", "gone"}
        BY <1>2, CutTyped DEF States
  <2>2. ch2 \in ChannelRecord /\ SameClient(conn[c], ch2)
        BY <1>2, <2>1 DEF ChannelRecord, SameClient, States
  <2>3. Consistent(records[conn[c].session], ch2)
        BY <1>1, <1>2, <2>2 DEF Consistent, Holding, Current, SameClient
  <2>4. conn' = [conn EXCEPT ![c] = ch2] /\ records' = records
        BY <1>4 DEF CompletedHook
  <2>. HIDE DEF ch2
  <2>. QED
    BY <1>1, <1>3, <2>2, <2>3, <2>4, MidwayStarts, MidwayEnds
<1>5. CASE ~ok
  <2>1. Consistent(records[conn[c].session], ch)
        BY <1>1, <1>2 DEF Consistent, Holding, Current, SameClient
  <2>2. FailClosed(c, ch)
        BY <1>5 DEF CompletedHook
  <2>. HIDE DEF ch
  <2>. QED
    BY <1>1, <1>2, <1>3, <2>1, <2>2, MidwayStarts, MidwayFails, MidwayEnds DEF FailClosed
<1>. QED
  BY <1>4, <1>5

\* disconnect() and revoke(): the lease is released.
LEMMA RunEndInv ==
    ASSUME ChannelInv, NEW c \in Conns, RunEnd(c)
    PROVE  ChannelInv'
<1>. DEFINE ch == Popped(c)  s == conn[c].session  revoking == Head1(c, "revoke")
            st == IF revoking THEN "revoked" ELSE "closed"
            sock == IF revoking THEN Closing(ch) ELSE ch.socket
            ch2 == [Cut(ch, st) EXCEPT !.released = TRUE, !.socket = sock]
            rs2 == IF ch.released THEN records ELSE LeaseReleased(records, ch)
<1>1. /\ conn[c].state # "none" /\ ch \in ChannelRecord /\ SameUse(conn[c], ch)
      /\ SameClient(conn[c], ch) /\ Midway(c, records, ch)
      /\ UNCHANGED <<issued, clientGen, active>>
      BY MidwayPopped DEF RunEnd, ingressVars
<1>2. \/ conn' = [conn EXCEPT ![c] = ch] /\ records' = records
      \/ conn' = [conn EXCEPT ![c] = ch2] /\ records' = rs2
      BY DEF RunEnd
<1>. HIDE DEF ch
<1>3. CASE conn' = [conn EXCEPT ![c] = ch] /\ records' = records
      BY <1>1, <1>3, MidwayEnds
<1>4. CASE conn' = [conn EXCEPT ![c] = ch2] /\ records' = rs2
  <2>1. /\ Closing(ch) \in {"open", "closing", "gone"} /\ Cut(ch, st) \in ChannelRecord
        /\ Cut(ch, st).state = st /\ Cut(ch, st).session = ch.session /\ Cut(ch, st).gen = ch.gen
        /\ Cut(ch, st).starting = ch.starting /\ Cut(ch, st).sending = ch.sending
        /\ Cut(ch, st).busy = ch.busy
    <3>1. st \in States \ {"none"}
          BY DEF States
    <3>. QED
      BY <1>1, <3>1, CutTyped
  <2>2. sock \in {"open", "closing", "gone"}
        BY <1>1, <2>1 DEF ChannelRecord
  <2>3. /\ ch2 \in ChannelRecord /\ ch2.state \in {"revoked", "closed"} /\ ch2.session = s
        /\ ch2.gen = conn[c].gen /\ ch2.starting = ch.starting /\ ch2.sending = ch.sending
        /\ ch2.busy = ch.busy /\ SameClient(conn[c], ch2)
    <3>. HIDE DEF sock
    <3>. QED
      BY <1>1, <2>1, <2>2 DEF ChannelRecord, SameClient
  <2>4. /\ records \in [Sessions -> TakeoverRecord] /\ s \in Sessions /\ records[s] \in TakeoverRecord
        /\ Live(records[s]) => records[s].gen = clientGen[s]
        /\ Consistent(records[s], ch)
        BY <1>1, Connected DEF Midway
  <2>. DEFINE r2 == Released(records[s], ch.gen)
  <2>5. /\ r2 \in TakeoverRecord /\ (Live(r2) <=> Live(records[s])) /\ r2.gen = records[s].gen
        /\ r2.inFlight = records[s].inFlight /\ (records[s].released => r2.released)
        /\ Live(records[s]) /\ records[s].gen = ch.gen => r2.released
        BY <2>4, RecordOps DEF Released, Live, TakeoverRecord
  <2>6. CASE ch.released \/ ~Current(ch)
    <3>1. rs2 = records
          BY <2>6 DEF LeaseReleased, Current
    <3>2. Consistent(records[s], ch2)
          BY <1>1, <2>3, <2>4, <2>6 DEF Consistent, Holding, InUse, Current, SameClient
    <3>. QED
      BY <1>1, <1>4, <2>3, <3>1, <3>2, MidwayStarts, MidwayEnds
  <2>7. CASE ~ch.released /\ Current(ch)
    <3>1. rs2 = [records EXCEPT ![s] = r2]
          BY <1>1, <2>7 DEF LeaseReleased, Current, SameClient
    <3>2. Consistent(r2, ch2)
      <4>1. Current(ch2) /\ ch.gen = clientGen[s]
            BY <1>1, <2>3, <2>7 DEF Current, SameClient
      <4>2. Live(r2) => r2.released
            BY <2>4, <2>5, <4>1
      <4>. QED
        BY <1>1, <2>3, <2>4, <2>5, <2>7, <4>1, <4>2 DEF Consistent, Holding, InUse, Current
    <3>3. Follows(records[s], r2, conn[c])
          BY <2>5 DEF Follows
    <3>. HIDE DEF r2, ch2, rs2
    <3>. QED
      BY <1>1, <1>4, <2>3, <3>1, <3>2, <3>3, ChannelStep
  <2>. QED
    BY <2>6, <2>7
<1>. QED
  BY <1>2, <1>3, <1>4

\* The newest frame of a capture goes to the open connection.
LEMMA CaptureSettlesInv ==
    ASSUME ChannelInv, NEW congested \in BOOLEAN, CaptureSettles(congested)
    PROVE  ChannelInv'
<1>1. UNCHANGED <<issued, clientGen, active>>
      BY DEF CaptureSettles, ingressVars
<1>2. ASSUME NEW c \in OpenConn(window.session), PushFrame(c, congested)
      PROVE  ChannelInv'
  <2>1. c \in Conns /\ conn[c].state = "open" /\ conn[c] \in ChannelRecord
        BY <1>2 DEF OpenConn, ChannelInv, ChannelTypeOK
  <2>2. CASE conn[c].sending \/ congested
    <3>. DEFINE ch2 == [conn[c] EXCEPT !.pending = TRUE, !.timer = TRUE]
    <3>1. conn' = [conn EXCEPT ![c].pending = TRUE, ![c].timer = TRUE] /\ records' = records
          BY <1>2, <2>2 DEF PushFrame
    <3>2. conn' = [conn EXCEPT ![c] = ch2]
          BY <2>1, <3>1 DEF ChannelInv, ChannelTypeOK
    <3>3. ch2 \in ChannelRecord /\ SameClient(conn[c], ch2) /\ SameUse(conn[c], ch2)
          BY <2>1 DEF ChannelRecord, SameClient, SameUse
    <3>4. Consistent(records[conn[c].session], ch2)
          BY <2>1, <3>3, Connected DEF Consistent, SameUse, Holding, InUse, Ending, Current
    <3>. HIDE DEF ch2
    <3>. QED
      BY <1>1, <2>1, <3>1, <3>2, <3>3, <3>4, MidwayStarts, MidwayEnds
  <2>3. CASE ~(conn[c].sending \/ congested)
    <3>. DEFINE ch == [conn[c] EXCEPT !.pending = FALSE]
    <3>1. SendNext(c, ch, records, FALSE)
          BY <1>2, <2>3 DEF PushFrame
    <3>2. ch \in ChannelRecord /\ SameClient(conn[c], ch) /\ SameUse(conn[c], ch) /\ ~ch.sending
          BY <2>1, <2>3 DEF ChannelRecord, SameClient, SameUse
    <3>3. Consistent(records[conn[c].session], ch)
          BY <2>1, <3>2, Connected DEF Consistent, SameUse, Holding, InUse, Ending, Current
    <3>. HIDE DEF ch
    <3>. QED
      BY <1>1, <2>1, <3>1, <3>2, <3>3, MidwayStarts, SendNextInv
  <2>. QED
    BY <2>2, <2>3
<1>3. CASE UNCHANGED <<records, conn>>
      BY <1>1, <1>3, PumpInv
<1>. QED
  BY <1>2, <1>3 DEF CaptureSettles

\* A frame was sent or not: its use ends, and the loop goes on with the next one.
LEMMA FrameSentInv ==
    ASSUME ChannelInv, NEW c \in Conns, NEW ok \in BOOLEAN, NEW congested \in BOOLEAN,
           FrameSent(c, ok, congested)
    PROVE  ChannelInv'
<1>. DEFINE ch == [conn[c] EXCEPT !.sending = FALSE]  rs == EndedAnyway(records, ch, ok)
<1>1. conn[c].state # "none" /\ conn[c] \in ChannelRecord /\ conn[c].sending
      BY DEF FrameSent, ChannelInv, ConnInv, ChannelTypeOK, Channel
<1>2. ch \in ChannelRecord /\ ~ch.sending /\ Midway(c, rs, ch)
  <2>1. /\ ch \in ChannelRecord /\ SameClient(conn[c], ch) /\ ch.state = conn[c].state
        /\ ch.released = conn[c].released /\ ~ch.sending /\ ch.starting = conn[c].starting
        /\ ch.busy = conn[c].busy
        BY <1>1 DEF ChannelRecord, SameClient
  <2>. QED
    BY <1>1, <2>1, MidwayEnded DEF Holding
<1>3. UNCHANGED <<issued, clientGen, active>>
      BY DEF FrameSent, ingressVars
<1>4. \/ conn' = [conn EXCEPT ![c] = Failed(ch)] /\ records' = FailedRecords(rs, ch)
      \/ SendNext(c, ch, rs, congested)
      \/ conn' = [conn EXCEPT ![c] = ch] /\ records' = rs
      BY DEF FrameSent
<1>. HIDE DEF ch, rs
<1>5. CASE conn' = [conn EXCEPT ![c] = Failed(ch)] /\ records' = FailedRecords(rs, ch)
      BY <1>1, <1>2, <1>3, <1>5, MidwayFails, MidwayEnds
<1>6. CASE SendNext(c, ch, rs, congested)
      BY <1>1, <1>2, <1>3, <1>6, SendNextInv
<1>7. CASE conn' = [conn EXCEPT ![c] = ch] /\ records' = rs
      BY <1>1, <1>2, <1>3, <1>7, MidwayEnds
<1>. QED
  BY <1>4, <1>5, <1>6, <1>7

\* flushPendingFrame(): a frame that waited is sent, or goes on waiting.
LEMMA DrainInv ==
    ASSUME ChannelInv, NEW c \in Conns, NEW congested \in BOOLEAN, Drain(c, congested)
    PROVE  ChannelInv'
<1>. DEFINE ch == [conn[c] EXCEPT !.timer = FALSE]
<1>1. conn[c].state # "none" /\ conn[c] \in ChannelRecord
      BY DEF Drain, ChannelInv, ConnInv, ChannelTypeOK, Channel
<1>2. ch \in ChannelRecord /\ SameClient(conn[c], ch) /\ SameUse(conn[c], ch)
      BY <1>1 DEF ChannelRecord, SameClient, SameUse
<1>3. Consistent(records[conn[c].session], ch)
      BY <1>1, <1>2, Connected DEF Consistent, SameUse, Holding, InUse, Ending, Current
<1>4. UNCHANGED <<issued, clientGen, active>> /\ Midway(c, records, ch)
      BY <1>1, <1>2, <1>3, MidwayStarts DEF Drain, ingressVars
<1>5. \/ ~ch.sending /\ SendNext(c, ch, records, congested)
      \/ conn' = [conn EXCEPT ![c] = ch] /\ records' = records
      BY DEF Drain
<1>. HIDE DEF ch
<1>6. CASE ~ch.sending /\ SendNext(c, ch, records, congested)
      BY <1>1, <1>4, <1>6, SendNextInv
<1>7. CASE conn' = [conn EXCEPT ![c] = ch] /\ records' = records
      BY <1>1, <1>4, <1>7, MidwayEnds
<1>. QED
  BY <1>5, <1>6, <1>7

-----------------------------------------------------------------------------
(* A client is let in: the authority's generation moves on.                *)

\* accept() lets a client in only where no connection has a use in progress.
LEMMA AcceptedAlone ==
    ASSUME ChannelInv, NEW s \in Sessions, Accept(s)
    PROVE  /\ records[s] \in TakeoverRecord /\ Live(records[s]) /\ s <= issued
           /\ records[s].inFlight = 0 /\ clientGen[s] \in Nat /\ clientGen[s] + 1 \in 0..MaxGen
           /\ Accepted(s) \in TakeoverRecord /\ Live(Accepted(s)) /\ Accepted(s).gen = clientGen[s] + 1
           /\ Accepted(s).inFlight = 0 /\ ~Accepted(s).released
           /\ \A c \in Conns : conn[c].session = s /\ conn[c].state # "none" => ~Holding(conn[c])
           /\ \A c \in Conns : conn[c].session = s => conn[c].gen # clientGen[s] + 1
<1>1. /\ records[s] \in TakeoverRecord /\ clientGen[s] \in 0..MaxGen /\ MaxGen \in Nat
      /\ issued \in 0..MaxSessions /\ MaxSessions \in Nat /\ s \in Nat \ {0}
      BY SessionsAssumption DEF ChannelInv, ChannelTypeOK, Sessions
<1>2. Live(records[s]) /\ clientGen[s] < MaxGen
      BY DEF Accept, MayClaim, MayReconnect
<1>3. s <= issued /\ records[s].gen = clientGen[s]
      BY <1>1, <1>2 DEF ChannelInv, SessionInv
<1>4. \A c \in Conns : conn[c].session = s /\ conn[c].state # "none" =>
            /\ conn[c].gen \in 1..clientGen[s] /\ Consistent(records[s], conn[c])
            /\ conn[c] \in ChannelRecord
      BY DEF ChannelInv, ConnInv, ChannelTypeOK
<1>5. \A c \in Conns : conn[c].session = s => conn[c].state # "none"
      BY <1>1 DEF ChannelInv, ConnInv, Channel
<1>6. records[s].inFlight = 0
  <2>1. CASE clientGen[s] = 0
    <3>1. \A c \in Conns : ~(conn[c].session = s /\ conn[c].gen = clientGen[s])
          BY <1>4, <1>5, <2>1
    <3>. QED
      BY <1>2, <3>1 DEF ChannelInv, SessionInv
  <2>2. CASE clientGen[s] # 0
        BY <2>2 DEF Accept, MayReconnect
  <2>. QED
    BY <2>1, <2>2
<1>7. \A c \in Conns : conn[c].session = s /\ conn[c].state # "none" => ~Holding(conn[c])
  <2>1. ASSUME NEW c \in Conns, conn[c].session = s, conn[c].state # "none", Holding(conn[c])
        PROVE  FALSE
    <3>1. InUse(conn[c]) = 0 /\ ~(conn[c].busy = "done")
          BY <1>2, <1>4, <1>6, <2>1 DEF Consistent, Current
    <3>2. conn[c] \in ChannelRecord
          BY <1>4, <2>1
    <3>. QED
      BY <2>1, <3>1, <3>2 DEF InUse, One, Holding, ChannelRecord
  <2>. QED
    BY <2>1
<1>8. /\ Accepted(s) \in TakeoverRecord /\ Live(Accepted(s)) /\ Accepted(s).gen = clientGen[s] + 1
      /\ Accepted(s).inFlight = 0 /\ ~Accepted(s).released
  <2>1. Accepted(s) = [records[s] EXCEPT !.gen = clientGen[s] + 1, !.released = FALSE]
    <3>1. CASE clientGen[s] = 0
      <4>1. 1 = clientGen[s] + 1 /\ records[s].gen = 0
            BY <1>3, <3>1
      <4>2. Accepted(s) = [records[s] EXCEPT !.gen = 1, !.released = FALSE]
            BY <3>1, <4>1 DEF Accepted, Claimed
      <4>. QED
        BY <4>1, <4>2
    <3>2. CASE clientGen[s] # 0
          BY <1>3, <3>2 DEF Accepted, Reconnected
    <3>. QED
      BY <3>1, <3>2
  <2>2. clientGen[s] + 1 \in 0..MaxGen
        BY <1>1, <1>2
  <2>. QED
    BY <1>1, <1>2, <1>6, <2>1, <2>2 DEF TakeoverRecord, Live
<1>9. \A c \in Conns : conn[c].session = s => conn[c].gen # clientGen[s] + 1
      BY <1>1, <1>4, <1>5
<1>. QED
  BY <1>1, <1>2, <1>3, <1>6, <1>7, <1>8, <1>9

\* The generation of s moves on, to a client with or without a connection c.
LEMMA LetIn ==
    ASSUME ChannelInv, NEW s \in Sessions, Accept(s), NEW r2 \in TakeoverRecord,
           Live(r2), r2.gen = clientGen[s] + 1, records' = [records EXCEPT ![s] = r2],
           clientGen' = [clientGen EXCEPT ![s] = @ + 1], UNCHANGED issued,
           conn' \in [Conns -> ChannelRecord], active' \in [Sessions -> 0..MaxConns],
           NEW c \in Conns,
           \A d \in Conns : d = c \/ SameUse(conn[d], conn'[d]),
           \/ SameUse(conn[c], conn'[c]) /\ r2.inFlight = 0
           \/ /\ conn[c].state = "none" /\ conn'[c] = Channel(s, clientGen[s] + 1)
              /\ r2.inFlight = 1 /\ ~r2.released,
           \A o \in Sessions : active'[o] \in {0, active[o]} \/ active'[o] = c,
           \A o \in Sessions : active'[o] = c => conn'[c].state # "none"
    PROVE  ChannelInv'
<1>1. /\ records[s] \in TakeoverRecord /\ Live(records[s]) /\ s <= issued /\ s \in 1..issued
      /\ clientGen[s] \in Nat /\ clientGen[s] + 1 \in 0..MaxGen
      /\ \A d \in Conns : conn[d].session = s /\ conn[d].state # "none" => ~Holding(conn[d])
      /\ \A d \in Conns : conn[d].session = s => conn[d].gen # clientGen[s] + 1
      BY AcceptedAlone DEF ChannelInv, ChannelTypeOK, Sessions
<1>2. /\ \A o \in Sessions : records'[o] = IF o = s THEN r2 ELSE records[o]
      /\ \A o \in Sessions : clientGen'[o] = IF o = s THEN clientGen[s] + 1 ELSE clientGen[o]
      /\ clientGen' \in [Sessions -> 0..MaxGen]
      BY <1>1 DEF ChannelInv, ChannelTypeOK
<1>3. ChannelTypeOK'
      BY <1>2 DEF ChannelInv, ChannelTypeOK
<1>. DEFINE new == conn[c].state = "none" /\ conn'[c] = Channel(s, clientGen[s] + 1)
<1>4. s # 0 /\ (new => /\ conn'[c].session = s /\ conn'[c].gen = clientGen[s] + 1
                       /\ conn'[c].state = "open" /\ conn'[c].starting /\ ~conn'[c].sending
                       /\ conn'[c].busy = "no" /\ ~conn'[c].released)
  <2>1. s # 0 /\ (s > 0) = TRUE
        BY SessionsAssumption DEF Sessions
  <2>2. Channel(s, clientGen[s] + 1).starting = (s > 0)
        BY Zenon DEF Channel
  <2>3. LET ch == Channel(s, clientGen[s] + 1) IN
        /\ ch.session = s /\ ch.gen = clientGen[s] + 1 /\ ch.state = "open" /\ ~ch.sending
        /\ ch.busy = "no" /\ ~ch.released
        BY <2>1 DEF Channel
  <2>. QED
    BY <2>1, <2>2, <2>3
<1>. HIDE DEF new
<1>5. \A d \in Conns : SameUse(conn[d], conn'[d]) \/ (d = c /\ new)
      BY DEF new
<1>6. \A d \in Conns : conn[d].state = "none" => conn[d].session = 0
      BY DEF ChannelInv, ConnInv, Channel
<1>7. new => conn[c].state = "none" /\ conn[c].session = 0 /\ r2.inFlight = 1 /\ ~r2.released
      BY <1>4, <1>6 DEF new, SameUse
<1>8. SessionInv'
  <2>1. SUFFICES ASSUME NEW o \in Sessions
                 PROVE  /\ o > issued => ~Live(records'[o]) /\ clientGen'[o] = 0
                        /\ Live(records'[o]) => records'[o].gen = clientGen'[o]
                        /\ Live(records'[o])
                              /\ (\A d \in Conns : ~(conn'[d].session = o /\ conn'[d].gen = clientGen'[o]))
                            => records'[o].inFlight = 0
        BY DEF SessionInv
  <2>2. CASE o = s
    <3>1. ~new => r2.inFlight = 0
          BY DEF new
    <3>. QED
      BY <1>1, <1>2, <1>4, <2>2, <3>1, SessionsAssumption DEF ChannelInv, ChannelTypeOK, Sessions
  <2>3. CASE o # s
    <3>1. records'[o] = records[o] /\ clientGen'[o] = clientGen[o]
          BY <1>2, <2>3
    <3>2. ASSUME \A d \in Conns : ~(conn'[d].session = o /\ conn'[d].gen = clientGen[o])
          PROVE  \A d \in Conns : ~(conn[d].session = o /\ conn[d].gen = clientGen[o])
      <4>1. ASSUME NEW d \in Conns, SameUse(conn[d], conn'[d])
            PROVE  ~(conn[d].session = o /\ conn[d].gen = clientGen[o])
            BY <3>2, <4>1 DEF SameUse
      <4>2. o # 0
            BY SessionsAssumption DEF Sessions
      <4>. QED
        BY <1>5, <1>7, <4>1, <4>2
    <3>. QED
      BY <3>1, <3>2 DEF ChannelInv, SessionInv
  <2>. QED
    BY <2>2, <2>3
<1>9. ConnInv'
  <2>1. \A d \in Conns : conn'[d].state = "none" => conn'[d] = Channel(0, 0)
        BY <1>4, <1>5 DEF SameUse, ChannelInv, ConnInv
  <2>2. ASSUME NEW d \in Conns, conn'[d].state # "none", SameUse(conn[d], conn'[d])
        PROVE  /\ conn'[d].session \in 1..issued' /\ conn'[d].gen \in 1..clientGen'[conn'[d].session]
               /\ Consistent(records[conn[d].session], conn[d])'
    <3>1. /\ conn[d].state # "none" /\ conn[d].session \in Sessions /\ conn[d].session \in 1..issued
          /\ conn[d].gen \in 1..clientGen[conn[d].session]
          /\ Consistent(records[conn[d].session], conn[d])
          /\ conn'[d].session = conn[d].session /\ conn'[d].gen = conn[d].gen
          BY <2>2, Connected DEF SameUse, ChannelInv, ConnInv
    <3>2. CASE conn[d].session # s
          BY <1>2, <2>2, <3>1, <3>2 DEF Consistent, Current, Holding, InUse, Ending, SameUse
    <3>3. CASE conn[d].session = s
      <4>1. conn[d].gen \in 1..clientGen'[s]
            BY <1>1, <1>2, <3>1, <3>3
      <4>2. ~Holding(conn[d])
            BY <1>1, <3>1, <3>3
      <4>3. /\ ~Holding(conn'[d]) /\ conn'[d].busy # "done" /\ conn'[d].gen # clientGen'[s]
            BY <1>1, <1>2, <2>2, <3>3, <4>2 DEF Holding, SameUse
      <4>. QED
        BY <3>1, <3>3, <4>1, <4>3 DEF Consistent, Current
    <3>. QED
      BY <3>2, <3>3
  <2>3. ASSUME NEW d \in Conns, d = c, new
        PROVE  /\ conn'[d].session \in 1..issued' /\ conn'[d].gen \in 1..clientGen'[conn'[d].session]
               /\ Consistent(records[conn[d].session], conn[d])'
    <3>1. InUse(conn'[d]) = 1 /\ ~Ending(conn'[d])
          BY <1>4, <2>3 DEF InUse, One, Ending
    <3>. QED
      BY <1>1, <1>2, <1>4, <1>7, <2>3, <3>1 DEF Consistent, Current
  <2>4. ASSUME NEW d \in Conns, NEW e \in Conns, conn'[d].state # "none",
               conn'[d].session = conn'[e].session, conn'[d].gen = conn'[e].gen
        PROVE  d = e
    <3>1. CASE SameUse(conn[d], conn'[d]) /\ SameUse(conn[e], conn'[e])
      <4>1. /\ conn[d].state # "none" /\ conn[d].session = conn[e].session
            /\ conn[d].gen = conn[e].gen
            BY <2>4, <3>1 DEF SameUse
      <4>. QED
        BY <4>1 DEF ChannelInv, ConnInv
    <3>2. CASE SameUse(conn[d], conn'[d]) /\ e = c /\ new
      <4>1. conn[d].session = conn'[d].session /\ conn[d].gen = conn'[d].gen
            BY <3>2 DEF SameUse
      <4>2. conn'[e].session = s /\ conn'[e].gen = clientGen[s] + 1
            BY <1>4, <3>2
      <4>. QED
        BY <1>1, <2>4, <4>1, <4>2
    <3>3. CASE SameUse(conn[e], conn'[e]) /\ d = c /\ new
          BY <1>1, <1>4, <2>4, <3>3 DEF SameUse
    <3>. QED
      BY <1>5, <3>1, <3>2, <3>3
  <2>. QED
    BY <1>5, <2>1, <2>2, <2>3, <2>4 DEF ConnInv
<1>10. ActiveInv'
  <2>1. \A o \in Sessions : active[o] # 0 => active[o] \in Conns
        BY ChannelAssumption DEF ChannelInv, ChannelTypeOK, Conns
  <2>2. \A d \in Conns : conn[d].state # "none" => conn'[d].state # "none"
        BY <1>4, <1>5 DEF SameUse
  <2>. QED
    BY <2>1, <2>2 DEF ActiveInv, ChannelInv
<1>. QED
  BY <1>3, <1>8, <1>9, <1>10 DEF ChannelInv

\* handleUpgrade(): the new channel begins its first use, the earlier one is told to go.
LEMMA UpgradeInv ==
    ASSUME ChannelInv, NEW s \in Sessions, NEW c \in Conns, Upgrade(s, c)
    PROVE  ChannelInv'
<1>. DEFINE r2 == UseBegun(Accepted(s))
<1>1. /\ Accept(s) /\ records' = [records EXCEPT ![s] = r2]
      /\ clientGen' = [clientGen EXCEPT ![s] = @ + 1] /\ active' = [active EXCEPT ![s] = c]
      /\ UNCHANGED issued /\ conn[c].state = "none"
      BY DEF Upgrade
<1>2. /\ conn' = [d \in Conns |->
            IF d = c THEN Channel(s, clientGen[s] + 1)
            ELSE IF d = active[s] THEN [Fenced(conn[d], "disconnect") EXCEPT !.socket = Closing(conn[d])]
            ELSE conn[d]]
      BY DEF Upgrade
<1>3. /\ Accepted(s) \in TakeoverRecord /\ Live(Accepted(s)) /\ Accepted(s).gen = clientGen[s] + 1
      /\ Accepted(s).inFlight = 0 /\ ~Accepted(s).released /\ clientGen[s] + 1 \in 0..MaxGen
      BY <1>1, AcceptedAlone
<1>4. /\ r2 \in TakeoverRecord /\ Live(r2) /\ r2.gen = clientGen[s] + 1 /\ r2.inFlight = 1 /\ ~r2.released
      BY <1>3, RecordOps DEF UseBegun, TakeoverRecord, Live
<1>5. Channel(s, clientGen[s] + 1) \in ChannelRecord /\ Channel(s, clientGen[s] + 1).state = "open"
  <2>1. s \in 0..MaxSessions /\ s > 0 /\ (s > 0) \in BOOLEAN /\ (0 > 0) \in BOOLEAN
        BY SessionsAssumption DEF Sessions
  <2>2. <<>> \in Seq(Ops) /\ 0 \in Nat
        OBVIOUS
  <2>3. ASSUME NEW b \in BOOLEAN, NEW st \in {"open", "none"}, NEW so \in {"open", "gone"},
               NEW g \in 0..MaxGen
        PROVE  [session |-> s, gen |-> g, ticket |-> b, state |-> st,
                admits |-> b, received |-> 0, queue |-> <<>>, busy |-> "no", starting |-> b,
                sending |-> FALSE, pending |-> FALSE, timer |-> FALSE, released |-> FALSE,
                socket |-> so, left |-> FALSE] \in ChannelRecord
        BY <2>1, <2>2 DEF ChannelRecord, States
  <2>4. (IF s > 0 THEN "open" ELSE "none") = "open" /\ (IF s > 0 THEN "open" ELSE "gone") = "open"
        BY <2>1
  <2>. QED
    BY <1>3, <2>1, <2>3, <2>4 DEF Channel
<1>6. ASSUME NEW d \in Conns, d # c
      PROVE  conn'[d] \in ChannelRecord /\ SameUse(conn[d], conn'[d])
  <2>1. conn[d] \in ChannelRecord
        BY DEF ChannelInv, ChannelTypeOK
  <2>2. CASE d # active[s]
        BY <1>2, <1>6, <2>1, <2>2 DEF SameUse
  <2>3. CASE d = active[s]
    <3>1. d # 0 /\ conn[d].state # "none"
          BY <2>3 DEF ChannelInv, ActiveInv, Conns
    <3>2. /\ Fenced(conn[d], "disconnect") \in ChannelRecord
          /\ SameUse(conn[d], Fenced(conn[d], "disconnect"))
          /\ Closing(conn[d]) \in {"open", "closing", "gone"}
          BY <2>1, <3>1, FencedUse, CutTyped DEF Ops, States
    <3>3. conn'[d] = [Fenced(conn[d], "disconnect") EXCEPT !.socket = Closing(conn[d])]
          BY <1>2, <1>6, <2>3
    <3>. QED
      BY <3>1, <3>2, <3>3 DEF ChannelRecord, SameUse
  <2>. QED
    BY <2>2, <2>3
<1>7. conn'[c] = Channel(s, clientGen[s] + 1)
      BY <1>2
<1>8. conn' \in [Conns -> ChannelRecord]
  <2>1. \A d \in Conns : conn'[d] \in ChannelRecord
        BY <1>5, <1>6, <1>7
  <2>2. conn' = [d \in Conns |-> conn'[d]]
        BY <1>2
  <2>. QED
    BY <2>1, <2>2
<1>9. /\ active' \in [Sessions -> 0..MaxConns]
      /\ \A o \in Sessions : active'[o] \in {0, active[o]} \/ active'[o] = c
      BY <1>1, ChannelAssumption DEF ChannelInv, ChannelTypeOK, Conns
<1>. HIDE DEF r2
<1>. QED
  BY <1>1, <1>4, <1>5, <1>6, <1>7, <1>8, <1>9, LetIn

\* A client is let in, and its connection comes to nothing.
LEMMA UpgradeFailsInv ==
    ASSUME ChannelInv, NEW s \in Sessions, NEW released \in BOOLEAN, UpgradeFails(s, released)
    PROVE  ChannelInv'
<1>. DEFINE r2 == IF released THEN [Accepted(s) EXCEPT !.released = TRUE] ELSE Accepted(s)
<1>1. /\ Accept(s) /\ records' = [records EXCEPT ![s] = r2]
      /\ clientGen' = [clientGen EXCEPT ![s] = @ + 1] /\ UNCHANGED <<issued, active, conn>>
      BY DEF UpgradeFails
<1>2. r2 \in TakeoverRecord /\ Live(r2) /\ r2.gen = clientGen[s] + 1 /\ r2.inFlight = 0
      BY <1>1, AcceptedAlone DEF TakeoverRecord, Live
<1>3. 1 \in Conns
      BY ChannelAssumption DEF Conns
<1>4. /\ conn' \in [Conns -> ChannelRecord] /\ active' \in [Sessions -> 0..MaxConns]
      /\ \A d \in Conns : SameUse(conn[d], conn'[d])
      /\ \A o \in Sessions : active'[o] = active[o]
      /\ \A o \in Sessions : active'[o] = 1 => conn'[1].state # "none"
      BY <1>1 DEF ChannelInv, ChannelTypeOK, SameUse, ActiveInv
<1>. HIDE DEF r2
<1>. QED
  BY <1>1, <1>2, <1>3, <1>4, LetIn

-----------------------------------------------------------------------------
(* The theorems.                                                           *)

\* Nothing is issued, connected or counted in the initial state.
LEMMA ChannelInit == Init => ChannelInv
<1>. SUFFICES ASSUME Init
              PROVE  ChannelInv
  OBVIOUS
<1>1. /\ records = [s \in Sessions |-> Gone] /\ issued = 0
      /\ clientGen = [s \in Sessions |-> 0] /\ active = [s \in Sessions |-> 0]
      /\ conn = [c \in Conns |-> Channel(0, 0)]
      BY DEF Init, SessionsInit
<1>2. Channel(0, 0) \in ChannelRecord /\ Channel(0, 0).state = "none"
  <2>1. (0 > 0) = FALSE /\ 0 \in 0..MaxSessions /\ 0 \in 0..MaxGen /\ <<>> \in Seq(Ops) /\ 0 \in Nat
        BY SessionsAssumption
  <2>2. [session |-> 0, gen |-> 0, ticket |-> FALSE, state |-> "none",
         admits |-> FALSE, received |-> 0, queue |-> <<>>, busy |-> "no", starting |-> FALSE,
         sending |-> FALSE, pending |-> FALSE, timer |-> FALSE, released |-> FALSE,
         socket |-> "gone", left |-> FALSE] \in ChannelRecord
        BY <2>1 DEF ChannelRecord, States
  <2>3. (IF 0 > 0 THEN "open" ELSE "none") = "none" /\ (IF 0 > 0 THEN "open" ELSE "gone") = "gone"
        OBVIOUS
  <2>4. Channel(0, 0) =
        [session |-> 0, gen |-> 0, ticket |-> FALSE, state |-> "none",
         admits |-> FALSE, received |-> 0, queue |-> <<>>, busy |-> "no", starting |-> FALSE,
         sending |-> FALSE, pending |-> FALSE, timer |-> FALSE, released |-> FALSE,
         socket |-> "gone", left |-> FALSE]
        BY <2>1, <2>3, Zenon DEF Channel
  <2>5. Channel(0, 0) \in ChannelRecord
        BY <2>2, <2>4, Zenon
  <2>6. Channel(0, 0).state = "none"
        BY <2>3 DEF Channel
  <2>. QED
    BY <2>5, <2>6
<1>3. 0 \in 0..MaxSessions /\ 0 \in 0..MaxGen /\ 0 \in 0..MaxConns
      BY SessionsAssumption, ChannelAssumption
<1>4. ChannelTypeOK
      BY <1>1, <1>2, <1>3, NewRecords DEF ChannelTypeOK
<1>5. SessionInv
      BY <1>1, NewRecords DEF SessionInv
<1>6. ConnInv
      BY <1>1, <1>2 DEF ConnInv
<1>. QED
  BY <1>1, <1>4, <1>5, <1>6 DEF ChannelInv, ActiveInv

\* Every step keeps the invariant.
LEMMA ChannelNext == ChannelInv /\ [Next]_vars => ChannelInv'
<1>. SUFFICES ASSUME ChannelInv, [Next]_vars
              PROVE  ChannelInv'
  OBVIOUS
<1>1. ASSUME NEW c \in Conns, Run(c)
      PROVE  ChannelInv'
      BY <1>1, RunDoneInv, RunInputInv, RunRefusedInv, RunEndInv DEF Run
<1>2. ASSUME NEW c \in Conns, NEW kind \in Kinds, Receive(c, kind)
      PROVE  ChannelInv'
      BY <1>2, ReceiveInv
<1>3. CASE Consumer
  <2>1. CASE RevokeByConsumer
    <3>1. /\ conn \in [Conns -> ChannelRecord] /\ records \in [Sessions -> TakeoverRecord]
          /\ \A c \in Conns : IF conn[c].state = "none" THEN conn[c] = conn[c]
                              ELSE SameClient(conn[c], conn[c]) /\ (Holding(conn[c]) => Holding(conn[c]))
          BY DEF ChannelInv, ChannelTypeOK, SameClient
    <3>. QED
      BY <2>1, <3>1, RevokedInv DEF RevokeByConsumer
  <2>. QED
    BY <1>3, <2>1, ShowPageInv DEF Consumer
<1>4. CASE Broker
      BY <1>4, VerifiedInv, ExpiryInv, TimeInv, CompletedHookInv DEF Broker
<1>5. CASE Client
      BY <1>5, TicketInv, UpgradeInv, UpgradeFailsInv, LeaveInv, ReadyInv DEF Client, Bootstrap
<1>6. CASE Surface
  <2>1. CASE Pump
        BY <2>1, PumpInv DEF Pump, ingressVars
  <2>. QED
    BY <1>6, <2>1, InputSettlesInv, CaptureSettlesInv, CaptureFailsInv, FrameSentInv, DrainInv DEF Surface
<1>7. CASE UNCHANGED vars
      BY <1>7, PumpInv DEF vars, ingressVars
<1>. QED
  BY <1>1, <1>2, <1>3, <1>4, <1>5, <1>6, <1>7 DEF Next

\* The invariant of records and channels holds through every interleaving of upgrades, messages,
\* frames, failures and revocations of the WebSocket transport.
THEOREM ChannelInvariant == Spec => []ChannelInv
  BY ChannelInit, ChannelNext, PTL DEF Spec

\* UsesAreAccounted: the uses counted in a live session's record (beginBoundUse, endUse) are
\* those that its client has in progress at the surface, at the start and on its frame loop.
THEOREM UsesAccounted == Spec => []UsesAreAccounted
<1>1. ChannelInv => UsesAreAccounted
  <2>1. SUFFICES ASSUME ChannelInv, NEW s \in Sessions, Live(records[s]), records[s].gen > 0
                 PROVE  records[s].inFlight = Uses(s)
        BY DEF UsesAreAccounted
  <2>. DEFINE of == {c \in Conns : conn[c].session = s /\ conn[c].gen = records[s].gen}
  <2>2. records[s].gen = clientGen[s] /\ records[s].inFlight \in Nat /\ s # 0
        BY <2>1, SessionsAssumption DEF ChannelInv, SessionInv, ChannelTypeOK, Sessions, TakeoverRecord
  <2>3. Uses(s) = Cardinality({c \in of : conn[c].starting}) + Cardinality({c \in of : conn[c].sending})
                    + Cardinality({c \in of : conn[c].busy = "input"})
        BY DEF Uses
  <2>4. CASE of = {}
    <3>1. /\ {c \in of : conn[c].starting} = {} /\ {c \in of : conn[c].sending} = {}
          /\ {c \in of : conn[c].busy = "input"} = {}
          BY <2>4
    <3>2. records[s].inFlight = 0
      <4>1. \A c \in Conns : ~(conn[c].session = s /\ conn[c].gen = clientGen[s])
            BY <2>2, <2>4
      <4>. QED
        BY <2>1, <4>1 DEF ChannelInv, SessionInv
    <3>3. Cardinality({}) = 0
          BY FS_EmptySet
    <3>. HIDE DEF of
    <3>. QED
      BY <2>3, <3>1, <3>2, <3>3
  <2>5. ASSUME NEW c \in of
        PROVE  records[s].inFlight = Uses(s)
    <3>1. conn[c].session = s /\ conn[c].gen = clientGen[s] /\ conn[c].state # "none"
          BY <2>1, <2>2, <2>5 DEF ChannelInv, ConnInv, Channel
    <3>2. of = {c}
          BY <2>1, <2>2, <2>5, <3>1 DEF ChannelInv, ConnInv
    <3>3. records[s].inFlight = InUse(conn[c])
          BY <2>1, <2>5, <3>1 DEF ChannelInv, ConnInv, Consistent, Current
    <3>4. /\ {d \in of : conn[d].starting} = IF conn[c].starting THEN {c} ELSE {}
          /\ {d \in of : conn[d].sending} = IF conn[c].sending THEN {c} ELSE {}
          /\ {d \in of : conn[d].busy = "input"} = IF conn[c].busy = "input" THEN {c} ELSE {}
          BY <3>2
    <3>5. Cardinality({c}) = 1 /\ Cardinality({}) = 0
          BY FS_Singleton, FS_EmptySet
    <3>6. /\ Cardinality({d \in of : conn[d].starting}) = One(conn[c].starting)
          /\ Cardinality({d \in of : conn[d].sending}) = One(conn[c].sending)
          /\ Cardinality({d \in of : conn[d].busy = "input"}) = One(conn[c].busy = "input")
          BY <3>4, <3>5 DEF One
    <3>. QED
      BY <2>3, <3>3, <3>6 DEF InUse
  <2>. QED
    BY <2>4, <2>5
<1>. QED
  BY <1>1, ChannelInvariant, PTL

\* InputsSettleBeforeDone: while the consumer is told of a completion, no connection of the
\* session has an input at the surface, and its page is no longer answered.
THEOREM DoneIsTheLastWord == Spec => []InputsSettleBeforeDone
<1>1. ChannelInv => InputsSettleBeforeDone
  <2>1. SUFFICES ASSUME ChannelInv, NEW c \in Conns, conn[c].busy = "done"
                 PROVE  /\ ~Page(conn[c].session)
                        /\ \A d \in Conns : conn[d].session = conn[c].session => conn[d].busy # "input"
        BY DEF InputsSettleBeforeDone
  <2>2. conn[c].state # "none"
        BY <2>1 DEF ChannelInv, ConnInv, Channel
  <2>3. ~Live(records[conn[c].session]) /\ Current(conn[c])
        BY <2>1, <2>2, Connected DEF Consistent, Holding
  <2>4. ASSUME NEW d \in Conns, conn[d].session = conn[c].session, conn[d].busy = "input"
        PROVE  FALSE
    <3>1. conn[d].state # "none"
          BY <2>1, <2>4 DEF ChannelInv, ConnInv, Channel
    <3>2. Current(conn[d])
          BY <2>1, <2>4, <3>1, Connected DEF Consistent, Holding
    <3>3. d = c
          BY <2>1, <2>2, <2>3, <2>4, <3>1, <3>2 DEF ChannelInv, ConnInv, Current
    <3>. QED
      BY <2>1, <2>4, <3>3
  <2>. QED
    BY <2>3, <2>4 DEF Page, Located
<1>. QED
  BY <1>1, ChannelInvariant, PTL

\* DeadClientReleases: a channel that has ended with nothing left to run does not hold the lease.
THEOREM TheDeadRelease == Spec => []DeadClientReleases
<1>1. ChannelInv => DeadClientReleases
  <2>1. SUFFICES ASSUME ChannelInv, NEW c \in Conns, Ending(conn[c])
                 PROVE  ~(MayUse(records[conn[c].session], conn[c].gen)
                            /\ clientGen[conn[c].session] = conn[c].gen)
        BY DEF DeadClientReleases
  <2>2. Consistent(records[conn[c].session], conn[c])
        BY <2>1, Connected DEF Ending
  <2>. QED
    BY <2>1, <2>2 DEF Consistent, MayUse, Current
<1>. QED
  BY <1>1, ChannelInvariant, PTL
================================================================================
