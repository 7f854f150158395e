---------------------------- MODULE WindowProofs ----------------------------
(***************************************************************************)
(* Machine-checked theorems on WindowHost and WindowSurface, for every     *)
(* bound of a behaviour.  The invariants HostInv and SurfaceInv are        *)
(* inductive.                                                              *)
(*                                                                         *)
(* The core of HostInv is that the native helper knows of everything that  *)
(* is pressed, but for a press whose release failed, so that its last act  *)
(* can release it, and that a check the running program has passed stays   *)
(* witnessed until the program touches the window: ChecksWitnessed ties the*)
(* position in the program to what was seen since the last change of the   *)
(* window.  OrderlyInv adds what a shutdown knows of what is pressed: while*)
(* nothing failed, all of it.                                              *)
(*                                                                         *)
(* SurfaceInv is mostly about a World: Fine relates the uses to the        *)
(* helpers that hold them and to the answers on their way, and each        *)
(* operator on worlds is shown to keep it (Fine) and to start no process   *)
(* (Akin, Grows).  A step of the surface then is one such operator, the    *)
(* forgetting of ended helpers (Forgetting), and what becomes of #active   *)
(* and #transition (StepKeeps).                                            *)
(***************************************************************************)
EXTENDS WindowHost, WindowSurface, SequenceTheorems, FiniteSetTheorems, TLAPS

-----------------------------------------------------------------------------
(* The Linux window host.                                                  *)

Pressed == [button: BOOLEAN, key: BOOLEAN]
Jobs == InputKinds \union {"shutdown"}
Steps == Commands \union {"own", "same", "focus", "hold", "axis", "inject", "publish", "close"}
Whether == {"no", "failure", "stop"}

\* The steps after which the host knows nothing of the window any more.
Mutations == Commands \union {"axis", "inject"}

HostTypeOK ==
    /\ window \in [owned: BOOLEAN, focused: BOOLEAN, place: {0, 1}]
    /\ pressed \in Pressed /\ known \in Pressed
    /\ native \in [state: {"up", "leaving", "ended", "killed", "dead"},
                   command: Commands \union {"none"}, reply: {"none", "ok", "err"},
                   holds: Pressed, unreleased: Pressed]
    /\ pointer \in [pending: Commands \union {"none"}, closing: Whether]
    /\ chain \in Seq(Jobs)
    /\ job \in [at: Nat \ {0}, place: {0, 1}, sent: BOOLEAN, undo: BOOLEAN]
    /\ since \in [owned: BOOLEAN, focused: BOOLEAN]

\* The first job is at one of its steps, or at its end, and a cancellation of what it
\* pressed is only of an input.
JobInProgress ==
    /\ Busy => job.at <= Len(Program[Kind]) + 1
    /\ ~Busy => job = NewJob
    /\ Busy /\ job.undo => Kind # "shutdown"

TypeInv == HostTypeOK /\ JobInProgress

\* The helper owns what it pressed until it ends, but for a press whose release failed.
HelperOwnsPresses ==
    /\ native.state \in {"up", "leaving"} =>
          /\ pressed.button => native.holds.button \/ native.unreleased.button
          /\ pressed.key => native.holds.key \/ native.unreleased.key
    /\ native.state = "ended" =>
          /\ pressed.button => native.unreleased.button
          /\ pressed.key => native.unreleased.key

\* The job passed one of these checks and has not touched the window since.
Established(steps) ==
    \E j \in 1..(job.at - 1) :
        /\ Program[Kind][j] \in steps
        /\ \A i \in j..(job.at - 1) : Program[Kind][i] \notin Mutations

ChecksWitnessed ==
    Busy /\ ~job.undo =>
        /\ Established({"own", "same"}) => since.owned
        /\ Established({"focus", "hold"}) => since.focused

AuthorityInv ==
    /\ window.focused => since.focused
    /\ ChecksWitnessed
    /\ pointer.pending # "none" => Busy /\ job.sent /\ pointer.pending = Step

\* Kinds of steps the programs are made of.
LEMMA ProgramSteps ==
    /\ \A k \in Jobs : Program[k] \in Seq(Steps) /\ Len(Program[k]) \in Nat \ {0}
    /\ \A i \in 1..Len(Program["shutdown"]) : Program["shutdown"][i] \notin Commands \ Cancels
  BY DEF Program, Jobs, InputKinds, Steps, Commands, Cancels

\* In every program a check of the window's place and one of its focus stand between a
\* mutation and the mutation before it.
LEMMA MutationsAreChecked ==
    ASSUME NEW k \in InputKinds, NEW at \in 1..Len(Program[k]), Program[k][at] \in Commands \ Cancels
    PROVE  /\ \E j \in 1..(at - 1) : /\ Program[k][j] \in {"own", "same"}
                                     /\ \A i \in j..(at - 1) : Program[k][i] \notin Mutations
           /\ \E j \in 1..(at - 1) : /\ Program[k][j] \in {"focus", "hold"}
                                     /\ \A i \in j..(at - 1) : Program[k][i] \notin Mutations
<1>. DEFINE Checks(steps) ==
        \E j \in 1..(at - 1) : /\ Program[k][j] \in steps
                               /\ \A i \in j..(at - 1) : Program[k][i] \notin Mutations
<1>1. CASE k = "tap"
  <2>1. at \in {3, 6, 9}
        BY <1>1 DEF Program, Commands, Cancels
  <2>. QED
    BY <1>1, <2>1 DEF Program, Mutations, Commands
<1>2. CASE k = "down"
  <2>1. at \in {3, 6}
        BY <1>2 DEF Program, Commands, Cancels
  <2>. QED
    BY <1>2, <2>1 DEF Program, Mutations, Commands
<1>3. CASE k = "up"
  <2>1. at \in {3}
        BY <1>3 DEF Program, Commands, Cancels
  <2>. QED
    BY <1>3, <2>1 DEF Program, Mutations, Commands
<1>4. CASE k = "key"
  <2>1. at \in {3, 6}
        BY <1>4 DEF Program, Commands, Cancels
  <2>. QED
    BY <1>4, <2>1 DEF Program, Mutations, Commands
<1>5. CASE k = "scroll"
  <2>1. at \in {}
        BY <1>5 DEF Program, Commands, Cancels
  <2>. QED
    BY <2>1
<1>6. CASE k = "text"
  <2>1. at \in {}
        BY <1>6 DEF Program, Commands, Cancels
  <2>. QED
    BY <2>1
<1>. QED
  BY <1>1, <1>2, <1>3, <1>4, <1>5, <1>6 DEF InputKinds

-----------------------------------------------------------------------------
(* What the operators on the job and the chain do.                         *)

\* The step of a job at work is one of its program, its cancellation, or the end.
LEMMA StepOf ==
    ASSUME TypeInv, Busy
    PROVE  /\ Kind \in Jobs /\ Tail(chain) \in Seq(Jobs)
           /\ job.undo => Step \in Cancels
           /\ ~job.undo => \/ job.at = Len(Program[Kind]) + 1 /\ Step = "end"
                           \/ job.at \in 1..Len(Program[Kind]) /\ Step = Program[Kind][job.at]
                              /\ Step \in Steps
<1>1. Kind \in Jobs /\ Tail(chain) \in Seq(Jobs) /\ chain # <<>>
      BY DEF TypeInv, HostTypeOK, Busy, Kind
<1>2. Program[Kind] \in Seq(Steps) /\ Len(Program[Kind]) \in Nat \ {0}
      BY <1>1, ProgramSteps
<1>3. job.at \in Nat \ {0} /\ job.at <= Len(Program[Kind]) + 1 /\ job.undo \in BOOLEAN
      BY DEF TypeInv, HostTypeOK, JobInProgress
<1>4. CASE job.undo
      BY <1>1, <1>4 DEF Step, Cancels
<1>5. CASE ~job.undo
      BY <1>1, <1>2, <1>3, <1>5 DEF Step
<1>. QED
  BY <1>1, <1>3, <1>4, <1>5

JobTypeOK ==
    /\ chain \in Seq(Jobs) /\ known \in Pressed
    /\ job \in [at: Nat \ {0}, place: {0, 1}, sent: BOOLEAN, undo: BOOLEAN]

\* A new job, behind the one that is gone or behind the whole chain, has no checks yet.
LEMMA NewJobFresh ==
    ASSUME job' = NewJob, chain' \in Seq(Jobs), known' \in Pressed
    PROVE  JobTypeOK' /\ JobInProgress' /\ ChecksWitnessed'
<1>1. job'.at = 1 /\ job'.undo = FALSE /\ JobTypeOK'
      BY DEF NewJob, JobTypeOK
<1>2. chain' # <<>> => Kind' \in Jobs
      BY DEF Kind
<1>3. JobInProgress'
  <2>1. chain' # <<>> => Len(Program[Kind']) \in Nat \ {0}
        BY <1>2, ProgramSteps
  <2>. QED
    BY <1>1, <2>1 DEF JobInProgress, Busy
<1>4. ChecksWitnessed'
      BY <1>1 DEF ChecksWitnessed, Established
<1>. QED
  BY <1>1, <1>3, <1>4

\* Appending a job leaves the first one at work.
LEMMA ChainGrows ==
    ASSUME TypeInv, NEW k \in Jobs, chain' = Append(chain, k), job' = job, known' = known
    PROVE  /\ JobTypeOK' /\ JobInProgress'
           /\ ChecksWitnessed /\ (since.owned => since'.owned) /\ (since.focused => since'.focused)
              => ChecksWitnessed'
           /\ Busy => Busy' /\ Step' = Step
<1>1. chain' \in Seq(Jobs) /\ chain' # <<>> /\ JobTypeOK'
      BY DEF TypeInv, HostTypeOK, JobTypeOK
<1>2. CASE chain = <<>>
      BY <1>1, <1>2, NewJobFresh DEF TypeInv, HostTypeOK, JobInProgress, Busy
<1>3. CASE chain # <<>>
  <2>1. Head(chain') = Head(chain)
        BY <1>3 DEF TypeInv, HostTypeOK
  <2>2. Kind' = Kind /\ Busy' /\ Busy
        BY <2>1, <1>1, <1>3 DEF Kind, Busy
  <2>3. JobInProgress'
        BY <2>2 DEF JobInProgress, TypeInv
  <2>4. Step' = Step
        BY <2>2 DEF Step, Program
  <2>5. \A S : Established(S)' <=> Established(S)
        BY <2>2 DEF Established
  <2>. QED
    BY <1>1, <2>2, <2>3, <2>4, <2>5 DEF ChecksWitnessed
<1>. QED
  BY <1>2, <1>3

\* HostStops: the shutdown is appended once.
LEMMA StopsTyped ==
    ASSUME NEW jobs \in Seq(Jobs)
    PROVE  Stops(jobs) \in Seq(Jobs)
  BY DEF Stops, Jobs

\* After a step the job knows what it knew and what the step told it; a mutation leaves
\* it with nothing.
LEMMA AdvancesJob ==
    ASSUME TypeInv, Busy, ~job.undo, Step \in Steps, NEW place \in {0, 1}, Advances(place),
           known' \in Pressed
    PROVE  /\ JobTypeOK' /\ JobInProgress' /\ Busy' /\ ~job'.undo /\ ~job'.sent
           /\ Step \in Mutations => ChecksWitnessed'
           /\ \A S : Established(S)' => Established(S) \/ Step \in S
<1>1. /\ job'.at = job.at + 1 /\ job'.undo = FALSE /\ job'.sent = FALSE /\ job'.place = place
      /\ job' \in [at: Nat \ {0}, place: {0, 1}, sent: BOOLEAN, undo: BOOLEAN]
      /\ chain' = chain /\ job.at \in Nat \ {0} /\ chain \in Seq(Jobs)
  <2>1. job \in [at: Nat \ {0}, place: {0, 1}, sent: BOOLEAN, undo: BOOLEAN] /\ chain \in Seq(Jobs)
        BY DEF TypeInv, HostTypeOK
  <2>2. job.undo = FALSE /\ job.at + 1 \in Nat \ {0}
        BY <2>1
  <2>3. job' = [job EXCEPT !.at = @ + 1, !.place = place, !.sent = FALSE] /\ chain' = chain
        BY DEF Advances
  <2>. QED
    BY <2>1, <2>2, <2>3
<1>2. Kind' = Kind /\ Busy'
      BY <1>1 DEF Kind, Busy
<1>3. job.at \in 1..Len(Program[Kind]) /\ Step = Program[Kind][job.at] /\ Kind \in Jobs
  <2>1. Step # "end"
        BY DEF Steps, Commands
  <2>. QED
    BY <2>1, StepOf
<1>4. Len(Program[Kind]) \in Nat
      BY <1>3, ProgramSteps
<1>5. JobInProgress' /\ JobTypeOK'
      BY <1>1, <1>2, <1>3, <1>4 DEF JobInProgress, JobTypeOK
<1>6. ASSUME NEW S, Established(S)'
      PROVE  Established(S) \/ Step \in S
  <2>1. PICK j \in 1..job.at : /\ Program[Kind][j] \in S
                               /\ \A i \in j..job.at : Program[Kind][i] \notin Mutations
        BY <1>6, <1>1, <1>2 DEF Established
  <2>2. CASE j = job.at
        BY <2>1, <2>2, <1>3
  <2>3. CASE j # job.at
        BY <2>1, <2>3, <1>1 DEF Established
  <2>. QED
    BY <2>2, <2>3
<1>7. Step \in Mutations => \A S : ~Established(S)'
      BY <1>1, <1>2, <1>3 DEF Established
<1>. QED
  BY <1>1, <1>2, <1>5, <1>6, <1>7 DEF ChecksWitnessed

\* A step that throws ends the job, cancels what it pressed, or was a cancellation.
LEMMA ThrowsJob ==
    ASSUME TypeInv, Busy, Step # "end", Throws
    PROVE  JobTypeOK' /\ JobInProgress' /\ ChecksWitnessed' /\ known' \in Pressed
<1>1. Knows(known, Step) \in Pressed /\ known \in Pressed
      BY DEF Knows, Pressed, TypeInv, HostTypeOK
<1>2. Stops(Tail(chain)) \in Seq(Jobs)
      BY StepOf, StopsTyped
<1>3. CASE Step \in Cancels
  <2>1. CASE job.undo
        BY <1>1, <1>2, <1>3, <2>1, NewJobFresh DEF Throws, HostStops
  <2>2. CASE ~job.undo
    <3>1. Step \in Steps /\ Step \in Mutations /\ job.place \in {0, 1}
          BY <1>3 DEF Steps, Mutations, Cancels, Commands, TypeInv, HostTypeOK
    <3>2. known' \in Pressed /\ Advances(job.place)
          BY <1>1, <1>3, <2>2 DEF Throws
    <3>. QED
      BY <2>2, <3>1, <3>2, AdvancesJob
  <2>. QED
    BY <2>1, <2>2
<1>4. CASE Step \notin Cancels /\ ((Kind \in {"tap", "down"} /\ Step \in {"same", "hold"} /\ known.button) \/ (Kind = "key" /\ known.key))
  <2>1. /\ job' = [job EXCEPT !.undo = TRUE, !.sent = FALSE] /\ chain' = chain /\ known' = known
        BY <1>4 DEF Throws
  <2>2. Kind' = Kind /\ (Busy' <=> Busy) /\ JobTypeOK' /\ job'.at = job.at /\ job'.undo = TRUE
        BY <2>1 DEF Kind, Busy, JobTypeOK, TypeInv, HostTypeOK
  <2>3. ~job.undo
        BY <1>4, StepOf
  <2>4. Kind # "shutdown"
    <3>1. \A i \in 1..Len(Program["shutdown"]) : Program["shutdown"][i] \notin {"same", "hold"}
          BY DEF Program
    <3>2. Step \in {"same", "hold"} => Step \in Steps /\ Step # "end"
          BY DEF Steps
    <3>. QED
      BY <1>4, <2>3, <3>1, <3>2, StepOf
  <2>. QED
    BY <2>1, <2>2, <2>4, <1>1 DEF JobInProgress, ChecksWitnessed, TypeInv
<1>5. CASE Step \notin Cancels /\ ~((Kind \in {"tap", "down"} /\ Step \in {"same", "hold"} /\ known.button) \/ (Kind = "key" /\ known.key))
      BY <1>1, <1>2, <1>5, NewJobFresh DEF Throws, HostStops
<1>. QED
  BY <1>3, <1>4, <1>5

-----------------------------------------------------------------------------
(* The invariant, action by action.                                        *)

HostInv == TypeInv /\ HelperOwnsPresses /\ AuthorityInv

\* The host starts with an empty chain, no command at the helper and nothing pressed.
LEMMA HostInitInv == Init => HostInv
<1>. SUFFICES ASSUME Init PROVE HostInv
  OBVIOUS
<1>1. HostTypeOK
      BY DEF Init, HostTypeOK, Pressed, Nothing, NewJob, Whether
<1>2. JobInProgress /\ HelperOwnsPresses /\ AuthorityInv
      BY DEF Init, JobInProgress, Busy, HelperOwnsPresses, AuthorityInv, ChecksWitnessed, Nothing
<1>. QED
  BY <1>1, <1>2 DEF HostInv, TypeInv

\* No command is pending while the job is at a step that is no command.
LEMMA NothingPending ==
    ASSUME HostInv, Step \notin Commands \/ ~job.sent
    PROVE  pointer.pending = "none"
  BY DEF HostInv, TypeInv, HostTypeOK, AuthorityInv

\* What the checks look at: a job that goes on with what it was told.
LEMMA ChecksInv ==
    ASSUME HostInv, CheckOwned \/ CheckFocus
    PROVE  HostInv'
<1>. USE DEF HostInv
<1>1. /\ Busy /\ Step \in {"own", "same", "focus", "hold"}
      /\ UNCHANGED <<pressed, native, pointer>>
      BY DEF CheckOwned, CheckFocus
<1>2. ~job.undo /\ Step \in Steps \ Mutations /\ Step # "end"
      BY <1>1, StepOf DEF Steps, Mutations, Commands, Cancels
<1>3. pointer'.pending = "none"
      BY <1>1, NothingPending DEF Commands
<1>4. window.place \in {0, 1} /\ job.place \in {0, 1} /\ known \in Pressed
      BY DEF TypeInv, HostTypeOK
<1>5. CASE Throws /\ UNCHANGED <<window, since>>
      BY <1>1, <1>2, <1>3, <1>5, ThrowsJob
      DEF TypeInv, HostTypeOK, JobTypeOK, HelperOwnsPresses, AuthorityInv
<1>6. ASSUME CheckOwned, Advances(window.place), since' = [since EXCEPT !.owned = TRUE],
             UNCHANGED <<window, known>>
      PROVE  HostInv'
  <2>1. Step \in {"own", "same"}
        BY <1>6 DEF CheckOwned
  <2>2. /\ since' \in [owned: BOOLEAN, focused: BOOLEAN] /\ since'.owned /\ since'.focused = since.focused
        BY <1>6 DEF TypeInv, HostTypeOK
  <2>3. known' \in Pressed
        BY <1>4, <1>6
  <2>4. /\ JobTypeOK' /\ JobInProgress' /\ Busy' /\ ~job'.undo
        /\ \A S : Established(S)' => Established(S) \/ Step \in S
        BY <1>1, <1>2, <1>4, <1>6, <2>3, AdvancesJob
  <2>5. ChecksWitnessed'
        BY <1>1, <1>2, <2>1, <2>2, <2>4 DEF ChecksWitnessed, AuthorityInv
  <2>. QED
    BY <1>1, <1>3, <1>6, <2>2, <2>4, <2>5
    DEF TypeInv, HostTypeOK, JobTypeOK, HelperOwnsPresses, AuthorityInv
<1>7. ASSUME CheckFocus, Advances(job.place), UNCHANGED known,
             \/ window.focused /\ UNCHANGED <<window, since>>
             \/ window' = [window EXCEPT !.focused = TRUE] /\ since' = Witness(window')
      PROVE  HostInv'
  <2>1. Step \in {"focus", "hold"}
        BY <1>7 DEF CheckFocus
  <2>2. /\ since' \in [owned: BOOLEAN, focused: BOOLEAN] /\ since'.focused /\ (since.owned => since'.owned)
        /\ window' \in [owned: BOOLEAN, focused: BOOLEAN, place: {0, 1}]
    <3>1. CASE window.focused /\ UNCHANGED <<window, since>>
          BY <3>1 DEF TypeInv, HostTypeOK, AuthorityInv
    <3>2. CASE window' = [window EXCEPT !.focused = TRUE] /\ since' = Witness(window')
          BY <3>2 DEF TypeInv, HostTypeOK, Witness, Sees, Owned
    <3>. QED
      BY <1>7, <3>1, <3>2
  <2>3. known' \in Pressed
        BY <1>4, <1>7
  <2>4. /\ JobTypeOK' /\ JobInProgress' /\ Busy' /\ ~job'.undo
        /\ \A S : Established(S)' => Established(S) \/ Step \in S
        BY <1>1, <1>2, <1>4, <1>7, <2>3, AdvancesJob
  <2>5. ChecksWitnessed'
        BY <1>1, <1>2, <2>1, <2>2, <2>4 DEF ChecksWitnessed, AuthorityInv
  <2>. QED
    BY <1>1, <1>3, <1>7, <2>2, <2>4, <2>5
    DEF TypeInv, HostTypeOK, JobTypeOK, HelperOwnsPresses, AuthorityInv
<1>8. CASE CheckOwned
      BY <1>5, <1>6, <1>8 DEF CheckOwned
<1>9. CASE CheckFocus
      BY <1>5, <1>7, <1>9 DEF CheckFocus
<1>. QED
  BY <1>8, <1>9

\* A step that throws, with nothing pending any more.
LEMMA ThrowsInv ==
    ASSUME HostInv, Busy, Step # "end", Throws, pointer'.pending = "none",
           pointer' \in [pending: Commands \union {"none"}, closing: Whether],
           UNCHANGED <<window, pressed, native, since>>
    PROVE  HostInv'
  BY ThrowsJob
  DEF HostInv, TypeInv, HostTypeOK, JobTypeOK, HelperOwnsPresses, AuthorityInv

\* A step that changes what the host knows of the window only through the job.
LEMMA AdvancesInv ==
    ASSUME HostInv, Busy, ~job.undo, Step \in Steps, NEW place \in {0, 1}, Advances(place),
           UNCHANGED <<window, pressed, native, known>>, pointer'.pending = "none",
           pointer' \in [pending: Commands \union {"none"}, closing: Whether],
           \/ Step \notin {"own", "same", "focus", "hold"} /\ since' = since
           \/ Step \in Mutations /\ since' = Sees(window)
    PROVE  HostInv'
<1>. USE DEF HostInv
<1>1. known' \in Pressed
      BY DEF TypeInv, HostTypeOK
<1>2. /\ JobTypeOK' /\ JobInProgress' /\ Busy' /\ ~job'.undo
      /\ Step \in Mutations => ChecksWitnessed'
      /\ \A S : Established(S)' => Established(S) \/ Step \in S
      BY <1>1, AdvancesJob
<1>3. /\ since' \in [owned: BOOLEAN, focused: BOOLEAN]
      /\ window'.focused => since'.focused
      BY DEF TypeInv, HostTypeOK, AuthorityInv, Sees, Owned
<1>4. ChecksWitnessed'
  <2>1. CASE Step \in Mutations
        BY <1>2, <2>1
  <2>2. CASE Step \notin {"own", "same", "focus", "hold"} /\ since' = since
    <3>1. Established({"own", "same"})' => Established({"own", "same"})
          BY <1>2, <2>2
    <3>2. Established({"focus", "hold"})' => Established({"focus", "hold"})
          BY <1>2, <2>2
    <3>. QED
      BY <2>2, <3>1, <3>2 DEF ChecksWitnessed, AuthorityInv
  <2>. QED
    BY <2>1, <2>2
<1>5. HostTypeOK'
      BY <1>1, <1>2, <1>3 DEF TypeInv, HostTypeOK, JobTypeOK
<1>6. HelperOwnsPresses'
      BY DEF HelperOwnsPresses
<1>. QED
  BY <1>2, <1>3, <1>4, <1>5, <1>6 DEF TypeInv, AuthorityInv

\* The host's own steps at the head of its chain.
LEMMA WorkInv ==
    ASSUME HostInv,
           \/ Send \/ ReleaseElsewhere \/ NothingToCancel \/ CloseHelper \/ JobEnds
           \/ ScrollAxis \/ TypeText \/ Publish
    PROVE  HostInv'
<1>. USE DEF HostInv
<1>1. /\ Busy /\ UNCHANGED <<window, pressed>> /\ window.place \in {0, 1} /\ job.place \in {0, 1}
      /\ known \in Pressed /\ chain \in Seq(Jobs) /\ chain # <<>>
      /\ pointer \in [pending: Commands \union {"none"}, closing: Whether]
      BY DEF Send, ReleaseElsewhere, NothingToCancel, CloseHelper, JobEnds, Injects, ScrollAxis, TypeText,
             Publish, Busy, TypeInv, HostTypeOK
<1>2. CASE Send
  <2>1. Step \in Commands /\ Step # "end" /\ ~job.sent /\ UNCHANGED since /\ pointer.pending = "none"
        BY <1>2, NothingPending DEF Send, Commands
  <2>2. CASE Throws /\ UNCHANGED <<pointer, native>>
        BY <1>1, <2>1, <2>2, ThrowsInv
  <2>3. CASE /\ job' = [job EXCEPT !.sent = TRUE]
             /\ pointer' = [pointer EXCEPT !.pending = Step]
             /\ native' = [native EXCEPT !.command = Step]
             /\ UNCHANGED <<chain, known>>
    <3>1. /\ job'.at = job.at /\ job'.undo = job.undo /\ job'.sent
          /\ job' \in [at: Nat \ {0}, place: {0, 1}, sent: BOOLEAN, undo: BOOLEAN]
          BY <2>3 DEF TypeInv, HostTypeOK
    <3>2. Kind' = Kind /\ Step' = Step /\ Busy'
          BY <1>1, <2>3, <3>1 DEF Kind, Step, Busy, Program
    <3>3. /\ pointer'.pending = Step /\ pointer' \in [pending: Commands \union {"none"}, closing: Whether]
          /\ native'.state = native.state /\ native'.holds = native.holds
          /\ native'.unreleased = native.unreleased
          /\ native' \in [state: {"up", "leaving", "ended", "killed", "dead"},
                   command: Commands \union {"none"}, reply: {"none", "ok", "err"},
                   holds: Pressed, unreleased: Pressed]
          BY <2>1, <2>3 DEF TypeInv, HostTypeOK
    <3>4. TypeInv'
          BY <1>1, <2>1, <2>3, <3>1, <3>2, <3>3 DEF TypeInv, HostTypeOK, JobInProgress
    <3>5. \A S : Established(S)' => Established(S)
          BY <3>1, <3>2 DEF Established
    <3>6. HelperOwnsPresses' /\ AuthorityInv'
          BY <1>1, <2>1, <3>1, <3>2, <3>3, <3>5 DEF HelperOwnsPresses, AuthorityInv, ChecksWitnessed
    <3>. QED
      BY <3>4, <3>6
  <2>. QED
    BY <1>2, <2>2, <2>3 DEF Send
<1>3. CASE ReleaseElsewhere
      BY <1>1, <1>3, NothingPending, ThrowsInv DEF ReleaseElsewhere
<1>4. CASE NothingToCancel
  <2>1. Step \in Cancels /\ Kind = "shutdown" /\ pointer.pending = "none"
        BY <1>4, NothingPending DEF NothingToCancel
  <2>2. ~job.undo /\ Step \in Steps /\ Step \notin {"own", "same", "focus", "hold"}
        BY <1>1, <2>1 DEF TypeInv, JobInProgress, Steps, Cancels, Commands
  <2>. QED
    BY <1>1, <1>4, <2>1, <2>2, AdvancesInv DEF NothingToCancel
<1>5. CASE CloseHelper
  <2>1. Step = "close" /\ pointer.pending = "none" /\ UNCHANGED <<native, known, since>>
        BY <1>5, NothingPending DEF CloseHelper, Commands
  <2>2. ~job.undo /\ Step \in Steps /\ Step \notin {"own", "same", "focus", "hold"}
        BY <1>1, <2>1, StepOf DEF Steps, Cancels
  <2>3. CASE Advances(0) /\ UNCHANGED pointer
        BY <1>1, <2>1, <2>2, <2>3, AdvancesInv
  <2>4. CASE pointer' = [pointer EXCEPT !.closing = "stop"] /\ UNCHANGED <<job, chain>>
    <3>1. pointer'.pending = "none" /\ pointer' \in [pending: Commands \union {"none"}, closing: Whether]
          BY <1>1, <2>1, <2>4 DEF Whether
    <3>2. Kind' = Kind /\ (Busy' <=> Busy) /\ (\A S : Established(S)' <=> Established(S))
          BY <2>4 DEF Kind, Busy, Established
    <3>. QED
      BY <1>1, <2>1, <2>4, <3>1, <3>2
      DEF TypeInv, HostTypeOK, JobInProgress, HelperOwnsPresses, AuthorityInv, ChecksWitnessed
  <2>. QED
    BY <1>5, <2>3, <2>4 DEF CloseHelper
<1>6. CASE JobEnds
  <2>1. /\ Step = "end" /\ pointer.pending = "none" /\ UNCHANGED <<native, pointer, known, since>>
        /\ job' = NewJob /\ chain' = Tail(chain)
        BY <1>6, NothingPending DEF JobEnds, Leaves, Commands
  <2>2. JobTypeOK' /\ JobInProgress' /\ ChecksWitnessed'
        BY <1>1, <2>1, NewJobFresh
  <2>. QED
    BY <1>1, <2>1, <2>2 DEF TypeInv, HostTypeOK, JobTypeOK, HelperOwnsPresses, AuthorityInv
<1>7. ASSUME NEW step \in {"axis", "inject"}, Injects(step) PROVE HostInv'
  <2>1. Step = step /\ pointer.pending = "none" /\ UNCHANGED <<native, pointer>>
        BY <1>7, NothingPending DEF Injects, Commands
  <2>2. ~job.undo /\ Step \in Steps /\ Step \in Mutations /\ Step # "end"
        BY <1>1, <2>1, StepOf DEF Steps, Cancels, Mutations
  <2>3. CASE Throws /\ UNCHANGED since
        BY <1>1, <2>1, <2>2, <2>3, ThrowsInv
  <2>4. CASE Advances(job.place) /\ UNCHANGED known /\ since' = Sees(window)
        BY <1>1, <2>1, <2>2, <2>4, AdvancesInv
  <2>. QED
    BY <1>7, <2>3, <2>4 DEF Injects
<1>8. CASE Publish
  <2>1. Step = "publish" /\ pointer.pending = "none" /\ UNCHANGED <<native, pointer, known, since>>
        BY <1>8, NothingPending DEF Publish, Commands
  <2>2. ~job.undo /\ Step \in Steps /\ Step \notin {"own", "same", "focus", "hold"}
        BY <1>1, <2>1, StepOf DEF Steps, Cancels
  <2>3. CASE Advances(job.place)
        BY <1>1, <2>1, <2>2, <2>3, AdvancesInv
  <2>4. CASE job' = [job EXCEPT !.sent = TRUE] /\ UNCHANGED chain
    <3>1. /\ job'.at = job.at /\ job'.undo = job.undo
          /\ job' \in [at: Nat \ {0}, place: {0, 1}, sent: BOOLEAN, undo: BOOLEAN]
          BY <2>4 DEF TypeInv, HostTypeOK
    <3>2. Kind' = Kind /\ Busy' /\ (\A S : Established(S)' <=> Established(S))
          BY <1>1, <2>4, <3>1 DEF Kind, Busy, Established
    <3>. QED
      BY <1>1, <2>1, <2>4, <3>1, <3>2
      DEF TypeInv, HostTypeOK, JobInProgress, HelperOwnsPresses, AuthorityInv, ChecksWitnessed
  <2>. QED
    BY <1>8, <2>3, <2>4 DEF Publish
<1>. QED
  BY <1>2, <1>3, <1>4, <1>5, <1>6, <1>7, <1>8 DEF ScrollAxis, TypeText

\* The answer to a command, or none: the job goes on, or it throws.
LEMMA AnswerInv ==
    ASSUME HostInv, Consume \/ AckTimeout \/ HelperGone
    PROVE  HostInv'
<1>. USE DEF HostInv
<1>1. /\ UNCHANGED <<window, pressed>> /\ native'.state = native.state /\ native'.holds = native.holds
      /\ native'.unreleased = native.unreleased
      /\ native' \in [state: {"up", "leaving", "ended", "killed", "dead"},
                      command: Commands \union {"none"}, reply: {"none", "ok", "err"},
                      holds: Pressed, unreleased: Pressed]
      /\ native'.command = native.command
      BY DEF Consume, AckTimeout, HelperGone, TypeInv, HostTypeOK
<1>2. /\ pointer' \in [pending: Commands \union {"none"}, closing: Whether]
      /\ pointer'.pending = "none"
  <2>1. pointer \in [pending: Commands \union {"none"}, closing: Whether]
        BY DEF TypeInv, HostTypeOK
  <2>2. Closes("failure") \in Whether /\ pointer.closing \in Whether
        BY <2>1 DEF Closes, Whether
  <2>3. \A c \in Whether : [pending |-> "none", closing |-> c]
            \in [pending: Commands \union {"none"}, closing: Whether]
        OBVIOUS
  <2>4. CASE \E c \in Whether : pointer' = [pending |-> "none", closing |-> c]
        BY <2>3, <2>4
  <2>5. CASE pointer.pending = "none" /\ pointer' = [pointer EXCEPT !.closing = Closes("failure")]
        BY <2>1, <2>2, <2>5
  <2>6. CASE pointer' = [pointer EXCEPT !.pending = "none"]
        BY <2>1, <2>6
  <2>. QED
    BY <2>2, <2>4, <2>5, <2>6 DEF Consume, AckTimeout, HelperGone
<1>3. HelperOwnsPresses'
      BY <1>1 DEF HelperOwnsPresses
<1>4. ASSUME JobTypeOK', JobInProgress', ChecksWitnessed',
             since' = since \/ since' = Sees(window)
      PROVE  HostInv'
  <2>1. /\ since' \in [owned: BOOLEAN, focused: BOOLEAN]
        /\ window'.focused => since'.focused
    <3>1. CASE since' = since
          BY <1>1, <3>1 DEF TypeInv, HostTypeOK, AuthorityInv
    <3>2. CASE since' = Sees(window)
          BY <1>1, <3>2 DEF TypeInv, HostTypeOK, Sees, Owned
    <3>. QED
      BY <1>4, <3>1, <3>2
  <2>. QED
    BY <1>1, <1>2, <1>3, <1>4, <2>1 DEF TypeInv, HostTypeOK, JobTypeOK, AuthorityInv
<1>5. CASE pointer.pending = "none"
  <2>1. UNCHANGED <<chain, job, known, since>>
        BY <1>5 DEF Consume, AckTimeout, HelperGone
  <2>2. Kind' = Kind /\ (Busy' <=> Busy) /\ (\A S : Established(S)' <=> Established(S))
        BY <2>1 DEF Kind, Busy, Established
  <2>. QED
    BY <1>4, <2>1, <2>2 DEF TypeInv, HostTypeOK, JobTypeOK, JobInProgress, ChecksWitnessed, AuthorityInv
<1>6. CASE pointer.pending # "none"
  <2>1. Busy /\ pointer.pending = Step /\ Step \in Commands
        BY <1>6 DEF TypeInv, HostTypeOK, AuthorityInv
  <2>2. Step # "end" /\ Step \in Mutations /\ Step \in Steps
        BY <2>1 DEF Commands, Mutations, Steps
  <2>3. CASE Throws /\ UNCHANGED since
        BY <1>4, <2>1, <2>2, <2>3, ThrowsJob
  <2>4. ASSUME Consume, native.reply # "err"
        PROVE  HostInv'
    <3>1. /\ known' = Knows(known, pointer.pending) /\ since' = Sees(window)
          /\ IF job.undo THEN job' = NewJob /\ HostStops(Tail(chain)) ELSE Advances(job.place)
          BY <1>6, <2>4 DEF Consume
    <3>2. known' \in Pressed
          BY <3>1 DEF Knows, Pressed, TypeInv, HostTypeOK
    <3>3. CASE job.undo
      <4>1. chain' \in Seq(Jobs)
            BY <2>1, <3>1, <3>3, StepOf, StopsTyped DEF HostStops
      <4>. QED
        BY <1>4, <3>1, <3>2, <3>3, <4>1, NewJobFresh
    <3>4. CASE ~job.undo
      <4>1. job.place \in {0, 1}
            BY DEF TypeInv, HostTypeOK
      <4>. QED
        BY <1>4, <2>1, <2>2, <3>1, <3>2, <3>4, <4>1, AdvancesJob
    <3>. QED
      BY <3>3, <3>4
  <2>. QED
    BY <1>6, <2>3, <2>4 DEF Consume, AckTimeout, HelperGone
<1>. QED
  BY <1>5, <1>6

\* Nothing changes for the job.
LEMMA JobKept ==
    ASSUME HostInv, UNCHANGED <<chain, job, known, pointer>>,
           window' \in [owned: BOOLEAN, focused: BOOLEAN, place: {0, 1}],
           since' \in [owned: BOOLEAN, focused: BOOLEAN],
           window'.focused => since'.focused, since.owned => since'.owned,
           since.focused => since'.focused
    PROVE  JobTypeOK' /\ JobInProgress' /\ AuthorityInv'
<1>1. Kind' = Kind /\ (Busy' <=> Busy) /\ Step' = Step /\ (\A S : Established(S)' <=> Established(S))
      BY DEF Kind, Busy, Established, Step, Program
<1>. QED
  BY <1>1 DEF HostInv, TypeInv, HostTypeOK, JobTypeOK, JobInProgress, AuthorityInv, ChecksWitnessed

\* A function on the two keys is a record of them.
LEMMA TwoKeys == [{"button", "key"} -> BOOLEAN] = [button: BOOLEAN, key: BOOLEAN]
<1>1. ASSUME NEW f \in [{"button", "key"} -> BOOLEAN] PROVE f \in [button: BOOLEAN, key: BOOLEAN]
      OBVIOUS
<1>2. ASSUME NEW f \in [button: BOOLEAN, key: BOOLEAN] PROVE f \in [{"button", "key"} -> BOOLEAN]
      OBVIOUS
<1>. QED
  BY <1>1, <1>2

\* A command that fails presses nothing the helper neither owns nor failed to release.
LEMMA UnconfirmedFacts ==
    ASSUME pressed \in Pressed, native.unreleased \in Pressed, NEW command \in Commands,
           NEW done \in BOOLEAN, NEW released \in BOOLEAN
    PROVE  LET after == Unconfirmed(command, done, released) IN
           /\ after.pressed \in Pressed /\ after.unreleased \in Pressed
           /\ after.pressed.button =>
                 after.unreleased.button \/ (pressed.button /\ command # "cancel")
           /\ after.pressed.key =>
                 after.unreleased.key \/ (pressed.key /\ command # "cancelkey")
           /\ native.unreleased.button => after.unreleased.button
           /\ native.unreleased.key => after.unreleased.key
<1> DEFINE after == Unconfirmed(command, done, released)
           cleans == command \in Cancels \/ (done /\ command \in Presses)
<1>1. Knows(pressed, command) \in Pressed
      BY DEF Knows, Pressed
<1>2. CASE ~released /\ cleans
  <2>1. /\ after.pressed = IF command \in Presses THEN Knows(pressed, command) ELSE pressed
        /\ after.unreleased = [native.unreleased EXCEPT ![KeyOf(command)] = TRUE]
        BY <1>2 DEF Unconfirmed
  <2>2. after.pressed \in Pressed
        BY <1>1, <2>1
  <2> HIDE DEF after
  <2>3. CASE KeyOf(command) = "button"
    <3>1. /\ after.unreleased \in Pressed /\ after.unreleased.button
          /\ after.unreleased.key = native.unreleased.key
          BY <2>1, <2>3 DEF Pressed
    <3>2. after.pressed.key = pressed.key /\ command # "cancelkey"
          BY <1>2, <2>1, <2>3 DEF KeyOf, Knows, Presses, Cancels, Pressed
    <3>. QED
      BY <2>2, <3>1, <3>2 DEF after
  <2>4. CASE KeyOf(command) # "button"
    <3>1. KeyOf(command) = "key" /\ command \in {"keydown", "cancelkey"}
          BY <1>2, <2>4 DEF KeyOf, Presses, Cancels
    <3>2. /\ after.unreleased \in Pressed /\ after.unreleased.key
          /\ after.unreleased.button = native.unreleased.button
          BY <2>1, <3>1 DEF Pressed
    <3>3. after.pressed.button = pressed.button /\ command # "cancel"
          BY <2>1, <3>1 DEF Knows, Presses, Pressed
    <3>. QED
      BY <2>2, <3>2, <3>3 DEF after
  <2>. QED
    BY <2>3, <2>4
<1>3. CASE ~(~released /\ cleans)
  <2>1. /\ after.pressed = IF command \in Cancels \/ (done /\ command \notin Presses)
                          THEN Knows(pressed, command) ELSE pressed
        /\ after.unreleased = native.unreleased
        BY <1>3 DEF Unconfirmed
  <2>2. after.pressed \in Pressed
        BY <1>1, <2>1
  <2> HIDE DEF after
  <2>3. command \notin Presses => /\ Knows(pressed, command).button => pressed.button /\ command # "cancel"
                                  /\ Knows(pressed, command).key => pressed.key /\ command # "cancelkey"
        BY DEF Knows, Presses, Pressed
  <2>4. /\ after.pressed.button => pressed.button /\ command # "cancel"
        /\ after.pressed.key => pressed.key /\ command # "cancelkey"
        BY <2>1, <2>3 DEF Presses, Cancels
  <2>. QED
    BY <2>1, <2>2, <2>4 DEF after
<1>. QED
  BY <1>2, <1>3

\* The helper: what it owns grows and shrinks with what it presses and releases.
LEMMA HelperInv ==
    ASSUME HostInv, Execute \/ Leave \/ HelperDies
    PROVE  HostInv'
<1>. USE DEF HostInv
<1>1. /\ UNCHANGED <<window, pointer, chain, job, known, since>>
      /\ pressed \in Pressed /\ native.holds \in Pressed
      /\ native.command \in Commands \union {"none"}
      /\ native \in [state: {"up", "leaving", "ended", "killed", "dead"},
                      command: Commands \union {"none"}, reply: {"none", "ok", "err"},
                      holds: Pressed, unreleased: Pressed]
      BY DEF Execute, Leave, HelperDies, TypeInv, HostTypeOK
<1>2. JobTypeOK' /\ JobInProgress' /\ AuthorityInv'
      BY <1>1, JobKept DEF TypeInv, HostTypeOK, AuthorityInv
<1>3. /\ native' \in [state: {"up", "leaving", "ended", "killed", "dead"},
                      command: Commands \union {"none"}, reply: {"none", "ok", "err"},
                      holds: Pressed, unreleased: Pressed]
      /\ pressed' \in Pressed /\ HelperOwnsPresses'
  <2>1. \A c : \A p \in Pressed : Knows(p, c) \in Pressed
        BY DEF Knows, Pressed
  <2>2. CASE Execute
    <3>1. native.state = "up" /\ native.command \in Commands
          BY <1>1, <2>2 DEF Execute
    <3>2. CASE /\ pressed' = Knows(pressed, native.command)
               /\ native' = [native EXCEPT !.command = "none", !.reply = "ok",
                                           !.holds = Knows(@, native.command)]
      <4>1. /\ native'.state = "up" /\ native'.holds = Knows(native.holds, native.command)
            /\ pressed' \in Pressed
            /\ native' \in [state: {"up", "leaving", "ended", "killed", "dead"},
                      command: Commands \union {"none"}, reply: {"none", "ok", "err"},
                      holds: Pressed, unreleased: Pressed]
            BY <1>1, <2>1, <3>1, <3>2
      <4>. QED
        BY <1>1, <3>1, <3>2, <4>1 DEF HelperOwnsPresses, Knows, Pressed, Commands
    <3>3. ASSUME NEW done \in BOOLEAN, NEW released \in BOOLEAN,
                 pressed' = Unconfirmed(native.command, done, released).pressed,
                 native' = [native EXCEPT
                    !.command = "none", !.reply = "err", !.state = "leaving",
                    !.unreleased = Unconfirmed(native.command, done, released).unreleased,
                    !.holds = IF native.command \in Cancels THEN Knows(@, native.command) ELSE @]
          PROVE  /\ native' \in [state: {"up", "leaving", "ended", "killed", "dead"},
                      command: Commands \union {"none"}, reply: {"none", "ok", "err"},
                      holds: Pressed, unreleased: Pressed]
                 /\ pressed' \in Pressed /\ HelperOwnsPresses'
      <4> DEFINE after == Unconfirmed(native.command, done, released)
      <4>1. /\ after.pressed \in Pressed /\ after.unreleased \in Pressed
            /\ after.pressed.button =>
                  after.unreleased.button \/ (pressed.button /\ native.command # "cancel")
            /\ after.pressed.key =>
                  after.unreleased.key \/ (pressed.key /\ native.command # "cancelkey")
            /\ native.unreleased.button => after.unreleased.button
            /\ native.unreleased.key => after.unreleased.key
            BY <1>1, <3>1, UnconfirmedFacts
      <4>2. pressed' = after.pressed
            BY <3>3
      <4> HIDE DEF after
      <4>3. /\ native'.state = "leaving" /\ native'.unreleased = after.unreleased
            /\ native'.holds = IF native.command \in Cancels THEN Knows(native.holds, native.command)
                                ELSE native.holds
            /\ native' \in [state: {"up", "leaving", "ended", "killed", "dead"},
                      command: Commands \union {"none"}, reply: {"none", "ok", "err"},
                      holds: Pressed, unreleased: Pressed]
            BY <1>1, <2>1, <3>1, <3>3, <4>1 DEF after
      <4>4. /\ native.holds.button /\ native.command # "cancel" => native'.holds.button
            /\ native.holds.key /\ native.command # "cancelkey" => native'.holds.key
            BY <1>1, <4>3 DEF Knows, Cancels, Pressed
      <4>5. HelperOwnsPresses'
            BY <3>1, <4>1, <4>2, <4>3, <4>4 DEF HelperOwnsPresses
      <4>. QED
        BY <4>1, <4>2, <4>3, <4>5
    <3>. QED
      BY <2>2, <3>2, <3>3 DEF Execute
  <2>3. CASE Leave
    <3>1. PICK stays \in SUBSET {k \in DOMAIN Nothing : native.holds[k]} :
             /\ pressed' = [k \in DOMAIN Nothing |-> pressed[k] /\ (native.holds[k] => k \in stays)]
             /\ native' = [native EXCEPT
                   !.state = "ended", !.holds = Nothing,
                   !.unreleased = [k \in DOMAIN Nothing |-> @[k] \/ k \in stays]]
          BY <2>3 DEF Leave
    <3> DEFINE lost == [k \in DOMAIN Nothing |-> native.unreleased[k] \/ k \in stays]
    <3>2. DOMAIN Nothing = {"button", "key"} /\ Nothing \in Pressed
          BY DEF Nothing, Pressed
    <3>3. lost \in Pressed /\ pressed' \in Pressed
          BY <3>1, <3>2, TwoKeys DEF Pressed
    <3>4. /\ pressed'.button => (pressed.button /\ (native.holds.button => "button" \in stays))
          /\ pressed'.key => (pressed.key /\ (native.holds.key => "key" \in stays))
          /\ "button" \in stays \/ native.unreleased.button => lost.button
          /\ "key" \in stays \/ native.unreleased.key => lost.key
          BY <3>1, <3>2
    <3>5. native.state \in {"up", "leaving"}
          BY <2>3 DEF Leave
    <3> HIDE DEF lost
    <3>6. /\ native'.state = "ended" /\ native'.unreleased = lost
          /\ native' \in [state: {"up", "leaving", "ended", "killed", "dead"},
                      command: Commands \union {"none"}, reply: {"none", "ok", "err"},
                      holds: Pressed, unreleased: Pressed]
          BY <1>1, <3>1, <3>2, <3>3 DEF lost
    <3>. QED
      BY <3>3, <3>4, <3>5, <3>6 DEF HelperOwnsPresses
  <2>4. CASE HelperDies
    <3>1. PICK how \in {"dead", "killed"} :
             native' = [native EXCEPT !.state = how, !.command = "none", !.holds = Nothing]
          BY <2>4 DEF HelperDies
    <3>2. pressed' = pressed /\ Nothing \in Pressed
          BY <2>4 DEF HelperDies, Nothing, Pressed
    <3>3. /\ native'.state \in {"dead", "killed"}
          /\ native' \in [state: {"up", "leaving", "ended", "killed", "dead"},
                      command: Commands \union {"none"}, reply: {"none", "ok", "err"},
                      holds: Pressed, unreleased: Pressed]
          BY <1>1, <3>1, <3>2
    <3>. QED
      BY <1>1, <3>2, <3>3 DEF HelperOwnsPresses
  <2>. QED
    BY <2>2, <2>3, <2>4
<1>. QED
  BY <1>1, <1>2, <1>3 DEF TypeInv, HostTypeOK, JobTypeOK

\* The parent, the capture, the AT-SPI helper and the window do not touch the first job.
LEMMA SurroundingsInv ==
    ASSUME HostInv,
           \/ Admit \/ StopAsked \/ EncoderEnds \/ RequestIDR \/ RestartBegins \/ RestartEnds
           \/ CaptureStops \/ Poll \/ SnapshotAnswered \/ SnapshotFails \/ EditableCloses
           \/ WindowChanges \/ UNCHANGED vars
    PROVE  HostInv'
<1>. USE DEF HostInv
<1>1. UNCHANGED <<pressed, native, pointer, job, known>>
      BY DEF Admit, StopAsked, EncoderEnds, RequestIDR, RestartBegins, RestartEnds, CaptureStops,
             Poll, SnapshotAnswered, SnapshotFails, EditableCloses, WindowChanges, vars
<1>2. HelperOwnsPresses'
      BY <1>1 DEF HelperOwnsPresses
<1>3. ASSUME JobTypeOK', JobInProgress', AuthorityInv',
             window' \in [owned: BOOLEAN, focused: BOOLEAN, place: {0, 1}],
             since' \in [owned: BOOLEAN, focused: BOOLEAN]
      PROVE  HostInv'
      BY <1>1, <1>2, <1>3 DEF TypeInv, HostTypeOK, JobTypeOK
<1>4. /\ window \in [owned: BOOLEAN, focused: BOOLEAN, place: {0, 1}]
      /\ since \in [owned: BOOLEAN, focused: BOOLEAN]
      /\ window.focused => since.focused
      BY DEF TypeInv, HostTypeOK, AuthorityInv
<1>5. CASE WindowChanges
  <2>1. UNCHANGED chain /\ since' = Witness(window')
        BY <1>5 DEF WindowChanges
  <2>2. window' \in [owned: BOOLEAN, focused: BOOLEAN, place: {0, 1}]
    <3>1. /\ window.focused \in BOOLEAN /\ window.owned \in BOOLEAN
          /\ 1 - window.place \in {0, 1}
          BY <1>4
    <3>2. CASE window' = [window EXCEPT !.focused = ~@]
          BY <1>4, <3>1, <3>2
    <3>3. CASE window' = [window EXCEPT !.owned = ~@]
          BY <1>4, <3>1, <3>3
    <3>4. CASE window' = [window EXCEPT !.place = 1 - @]
          BY <1>4, <3>1, <3>4
    <3>. QED
      BY <1>5, <3>2, <3>3, <3>4 DEF WindowChanges
  <2>3. /\ since' \in [owned: BOOLEAN, focused: BOOLEAN]
        /\ window'.focused => since'.focused
        /\ since.owned => since'.owned
        /\ since.focused => since'.focused
        BY <1>4, <2>1, <2>2 DEF Witness, Sees, Owned
  <2>. QED
    BY <1>1, <1>3, <2>1, <2>2, <2>3, JobKept
<1>6. ASSUME UNCHANGED <<window, since>>, NEW k \in Jobs, chain' = Append(chain, k)
      PROVE  HostInv'
  <2>1. /\ JobTypeOK' /\ JobInProgress' /\ (ChecksWitnessed => ChecksWitnessed')
        /\ Busy => Busy' /\ Step' = Step
        BY <1>1, <1>6, ChainGrows
  <2>2. AuthorityInv'
        BY <1>1, <1>6, <2>1 DEF AuthorityInv
  <2>. QED
    BY <1>3, <1>4, <1>6, <2>1, <2>2
<1>7. CASE UNCHANGED <<window, since, chain>>
      BY <1>1, <1>3, <1>4, <1>7, JobKept
<1>8. CASE Admit
      BY <1>6, <1>8, HostAssumption DEF Admit, Jobs
<1>9. CASE StopAsked \/ EncoderEnds
  <2>1. UNCHANGED <<window, since>> /\ (UNCHANGED chain \/ HostStops(chain))
        BY <1>9 DEF StopAsked, EncoderEnds
  <2>2. UNCHANGED chain \/ chain' = Append(chain, "shutdown")
        BY <2>1 DEF HostStops, Stops
  <2>. QED
    BY <1>6, <1>7, <2>1, <2>2 DEF Jobs
<1>10. CASE ~(WindowChanges \/ Admit \/ StopAsked \/ EncoderEnds)
  <2>1. UNCHANGED <<window, since, chain>>
        BY <1>10 DEF RequestIDR, RestartBegins, RestartEnds, CaptureStops, Poll, SnapshotAnswered,
                     SnapshotFails, EditableCloses, vars
  <2>. QED
    BY <1>7, <2>1
<1>. QED
  BY <1>5, <1>8, <1>9, <1>10

\* The invariant of the host holds: the helper owns what is pressed, but for a press whose
\* release failed, and whoever is past a check of the window (validate-exact-window, expectedFocus) has been witnessed.
THEOREM HostInvariant == Spec => []HostInv
<1>1. HostInv /\ [Next]_vars => HostInv'
      BY ChecksInv, WorkInv, AnswerInv, HelperInv, SurroundingsInv
      DEF Next, Host, Helper, Environment
<1>. QED
  BY HostInitInv, <1>1, PTL DEF Spec

-----------------------------------------------------------------------------
(* What an orderly shutdown knows: of everything that is pressed.          *)

\* While nothing failed, the host knows of every press, or awaits its answer.
HostKnowsPresses ==
    native.state = "up" /\ pointer.closing = "no" =>
        /\ pressed.button => known.button \/ pointer.pending = "down"
        /\ pressed.key => known.key \/ pointer.pending = "keydown"

\* The helper works at, and answers, the command that its client waits for.
AnswersAwaited ==
    pointer.closing # "failure" =>
        /\ native.state = "up" /\ native.command # "none" =>
              pointer.pending = native.command /\ native.reply = "none"
        /\ native.reply # "none" => pointer.pending # "none"
        /\ native.state = "leaving" => native.reply = "err"
        /\ native.state = "up" /\ native.reply = "ok" =>
              /\ pointer.pending \in {"up", "cancel"} => ~pressed.button
              /\ pointer.pending \in {"keyup", "cancelkey"} => ~pressed.key

\* A helper that the shutdown closed has nothing to do and nothing to release.
ClosedEmpty ==
    /\ pointer.closing = "stop" =>
          /\ pointer.pending = "none"
          /\ native.state \in {"up", "killed"} => ~pressed.button /\ ~pressed.key
    /\ native.state = "killed" => pointer.closing # "no"

\* The shutdown cancels what is known, the key first, and closes after that.
ShutdownInOrder ==
    Busy /\ Kind = "shutdown" =>
        /\ job.at >= 2 => ~known.key
        /\ job.at >= 3 => ~known.button

OrderlyInv == HostKnowsPresses /\ AnswersAwaited /\ ClosedEmpty /\ ShutdownInOrder

\* The shutdown that goes on has cancelled what its step was to cancel.
LEMMA ShutdownAdvances ==
    ASSUME HostInv, ShutdownInOrder, Busy, ~job.undo, Step # "end", NEW place, Advances(place),
           known' = known \/ known' = Knows(known, Step),
           Step = "cancelkey" => ~known'.key, Step = "cancel" => ~known'.button
    PROVE  ShutdownInOrder'
<1>1. known \in Pressed /\ job.at \in Nat \ {0} /\ chain' = chain /\ job'.at = job.at + 1
      BY DEF Advances, HostInv, TypeInv, HostTypeOK
<1>2. Kind' = Kind /\ Busy'
      BY <1>1 DEF Kind, Busy
<1>3. /\ job.at \in 1..Len(Program[Kind]) /\ Step = Program[Kind][job.at]
      BY StepOf DEF HostInv
<1>4. ASSUME Kind = "shutdown"
      PROVE  (~known.key => ~known'.key) /\ (~known.button => ~known'.button)
  <2>1. Step \in {"cancelkey", "cancel", "close"}
        BY <1>3, <1>4 DEF Program
  <2>2. CASE known' = known
        BY <2>2
  <2>3. CASE known' = Knows(known, Step) /\ Step \notin {"down", "keydown"}
        BY <1>1, <2>3 DEF Knows, Pressed
  <2>. QED
    BY <2>1, <2>2, <2>3
<1>5. CASE Kind = "shutdown"
  <2>1. job.at \in {1, 2, 3} /\ (job.at = 1 => Step = "cancelkey") /\ (job.at = 2 => Step = "cancel")
        BY <1>3, <1>5 DEF Program
  <2>. QED
    BY <1>1, <1>2, <1>4, <1>5, <2>1 DEF ShutdownInOrder
<1>6. CASE Kind # "shutdown"
      BY <1>2, <1>6 DEF ShutdownInOrder
<1>. QED
  BY <1>5, <1>6

\* So has the shutdown of which a cancellation fails; no other step that throws makes the
\* host forget a press.
LEMMA ShutdownThrows ==
    ASSUME HostInv, ShutdownInOrder, Busy, Step # "end", Throws
    PROVE  /\ ShutdownInOrder'
           /\ Step \notin Cancels => known' = known
<1>1. known \in Pressed
      BY DEF HostInv, TypeInv, HostTypeOK
<1>2. CASE job' = NewJob
  <2>1. ShutdownInOrder'
        BY <1>2 DEF ShutdownInOrder, NewJob
  <2>. QED
    BY <2>1 DEF Throws
<1>3. CASE Step \in Cancels /\ ~job.undo
  <2>1. known' = Knows(known, Step) /\ Advances(job.place)
        BY <1>3 DEF Throws
  <2>2. (Step = "cancelkey" => ~known'.key) /\ (Step = "cancel" => ~known'.button)
        BY <1>1, <2>1 DEF Knows, Pressed
  <2>. QED
    BY <1>3, <2>1, <2>2, ShutdownAdvances
<1>4. CASE job' = [job EXCEPT !.undo = TRUE, !.sent = FALSE] /\ UNCHANGED <<chain, known>>
  <2>1. job'.at = job.at
        BY <1>4 DEF HostInv, TypeInv, HostTypeOK
  <2>2. Kind' = Kind /\ (Busy' <=> Busy)
        BY <1>4 DEF Kind, Busy
  <2>. QED
    BY <1>4, <2>1, <2>2 DEF ShutdownInOrder
<1>5. Step \notin Cancels => known' = known
      BY DEF Throws
<1>. QED
  BY <1>2, <1>3, <1>4, <1>5 DEF Throws

\* A step that leaves the position of the first job, and what is known, as it is.
LEMMA ShutdownKept ==
    ASSUME HostInv, ShutdownInOrder, known' = known, job'.at = job.at,
           chain' = chain \/ \E k \in Jobs : chain' = Append(chain, k)
    PROVE  ShutdownInOrder'
<1>1. CASE chain = <<>>
  <2>1. job.at = 1
        BY <1>1 DEF HostInv, TypeInv, JobInProgress, Busy, NewJob
  <2>. QED
    BY <2>1 DEF ShutdownInOrder
<1>2. CASE chain # <<>>
  <2>1. ASSUME NEW k \in Jobs, chain' = Append(chain, k)
        PROVE  Head(chain') = Head(chain)
        BY <1>2, <2>1 DEF HostInv, TypeInv, HostTypeOK
  <2>2. Head(chain') = Head(chain)
        BY <2>1
  <2>. QED
    BY <1>2, <2>2 DEF ShutdownInOrder, Kind, Busy
<1>. QED
  BY <1>1, <1>2

\* A step in which neither the X server, the helper, its client nor what is known changes.
LEMMA WireKept ==
    ASSUME HostInv, OrderlyInv, UNCHANGED <<pressed, native, pointer, known>>, ShutdownInOrder'
    PROVE  OrderlyInv'
  BY DEF OrderlyInv, HostKnowsPresses, AnswersAwaited, ClosedEmpty

\* The checks, the injections and the ends of the first job.
LEMMA OrderlyWork ==
    ASSUME HostInv, OrderlyInv,
           \/ CheckOwned \/ CheckFocus \/ ReleaseElsewhere \/ NothingToCancel \/ JobEnds
           \/ ScrollAxis \/ TypeText \/ Publish
    PROVE  OrderlyInv'
<1>1. /\ Busy /\ UNCHANGED <<pressed, native, pointer>> /\ ShutdownInOrder
      BY DEF CheckOwned, CheckFocus, ReleaseElsewhere, NothingToCancel, JobEnds, Injects,
             ScrollAxis, TypeText, Publish, OrderlyInv
<1>2. CASE JobEnds
  <2>1. job' = NewJob /\ known' = known
        BY <1>2 DEF JobEnds, Leaves
  <2>2. ShutdownInOrder'
        BY <2>1 DEF ShutdownInOrder, NewJob
  <2>. QED
    BY <1>1, <2>1, <2>2, WireKept
<1>3. CASE NothingToCancel
  <2>1. /\ Advances(0) /\ known' = known /\ Step # "end" /\ ~job.undo
        /\ Step = "cancelkey" => ~known.key
        /\ Step = "cancel" => ~known.button
        BY <1>1, <1>3 DEF NothingToCancel, Cancels, HostInv, TypeInv, JobInProgress
  <2>2. ShutdownInOrder'
        BY <1>1, <2>1, ShutdownAdvances
  <2>. QED
    BY <1>1, <2>1, <2>2, WireKept
<1>4. CASE ~JobEnds /\ ~NothingToCancel
  <2>1. /\ Step \in {"own", "same", "focus", "hold", "up", "axis", "inject", "publish"}
        /\ \/ \E place : Advances(place) /\ known' = known
           \/ Throws
           \/ job' = [job EXCEPT !.sent = TRUE] /\ UNCHANGED <<chain, known>>
        BY <1>4 DEF CheckOwned, CheckFocus, ReleaseElsewhere, Injects, ScrollAxis, TypeText, Publish
  <2>2. Step # "end" /\ Step \notin Cancels
        BY <2>1 DEF Cancels
  <2>3. ~job.undo
        BY <1>1, <2>2, StepOf DEF HostInv
  <2>4. CASE \E place : Advances(place) /\ known' = known
    <3>1. ShutdownInOrder'
          BY <1>1, <2>2, <2>3, <2>4, ShutdownAdvances DEF Cancels
    <3>. QED
      BY <1>1, <2>4, <3>1, WireKept
  <2>5. CASE Throws
    <3>1. ShutdownInOrder' /\ known' = known
          BY <1>1, <2>2, <2>5, ShutdownThrows
    <3>. QED
      BY <1>1, <3>1, WireKept
  <2>6. CASE job' = [job EXCEPT !.sent = TRUE] /\ UNCHANGED <<chain, known>>
    <3>1. job'.at = job.at
          BY <2>6 DEF HostInv, TypeInv, HostTypeOK
    <3>2. ShutdownInOrder'
          BY <1>1, <2>6, <3>1, ShutdownKept
    <3>. QED
      BY <1>1, <2>6, <3>2, WireKept
  <2>. QED
    BY <2>1, <2>4, <2>5, <2>6
<1>. QED
  BY <1>2, <1>3, <1>4

\* A command goes to a helper that nobody closed.
LEMMA OrderlySend == ASSUME HostInv, OrderlyInv, Send PROVE OrderlyInv'
<1>1. /\ Busy /\ Step \in Commands /\ ~job.sent /\ UNCHANGED pressed
      /\ pointer.pending = "none" /\ known \in Pressed
      BY NothingPending DEF Send, HostInv, TypeInv, HostTypeOK
<1>2. CASE /\ Throws /\ UNCHANGED <<pointer, native>>
           /\ native.state # "up" \/ pointer.closing # "no" \/ Step = "move"
  <2>1. ShutdownInOrder' /\ (Step \notin Cancels => known' = known)
        BY <1>1, <1>2, ShutdownThrows DEF OrderlyInv, Commands
  <2>2. HostKnowsPresses'
        BY <1>1, <1>2, <2>1 DEF OrderlyInv, HostKnowsPresses, Cancels
  <2>. QED
    BY <1>1, <1>2, <2>1, <2>2 DEF OrderlyInv, AnswersAwaited, ClosedEmpty
<1>3. CASE /\ native.state = "up" /\ pointer.closing = "no"
           /\ job' = [job EXCEPT !.sent = TRUE]
           /\ pointer' = [pointer EXCEPT !.pending = Step]
           /\ native' = [native EXCEPT !.command = Step]
           /\ UNCHANGED <<chain, known>>
  <2>1. /\ pointer'.pending = Step /\ pointer'.closing = pointer.closing /\ job'.at = job.at
        /\ native'.command = Step /\ native'.state = native.state /\ native'.reply = native.reply
        BY <1>3 DEF HostInv, TypeInv, HostTypeOK
  <2>2. ShutdownInOrder'
        BY <1>3, <2>1, ShutdownKept DEF OrderlyInv
  <2>3. native.reply = "none"
        BY <1>1, <1>3 DEF OrderlyInv, AnswersAwaited
  <2>4. HostKnowsPresses' /\ AnswersAwaited' /\ ClosedEmpty'
        BY <1>1, <1>3, <2>1, <2>3 DEF OrderlyInv, HostKnowsPresses, AnswersAwaited, ClosedEmpty, Commands
  <2>. QED
    BY <2>2, <2>4 DEF OrderlyInv
<1>. QED
  BY <1>2, <1>3 DEF Send

\* The shutdown closes the helper: what is pressed is known by then, and nothing is known.
LEMMA OrderlyClose == ASSUME HostInv, OrderlyInv, CloseHelper PROVE OrderlyInv'
<1>1. /\ Busy /\ Step = "close" /\ pointer.pending = "none" /\ UNCHANGED <<pressed, native, known>>
      BY NothingPending DEF CloseHelper, Commands
<1>2. ~job.undo /\ job.at \in 1..Len(Program[Kind]) /\ Program[Kind][job.at] = "close" /\ Kind \in Jobs
      BY <1>1, StepOf DEF HostInv, Cancels
<1>3. Kind = "shutdown" /\ job.at = 3
  <2>1. ASSUME NEW k \in InputKinds, NEW i \in 1..Len(Program[k])
        PROVE  Program[k][i] # "close"
    <3>1. CASE k = "tap"
          BY <3>1 DEF Program
    <3>2. CASE k = "down"
          BY <3>2 DEF Program
    <3>3. CASE k = "up"
          BY <3>3 DEF Program
    <3>4. CASE k = "key"
          BY <3>4 DEF Program
    <3>5. CASE k = "scroll"
          BY <3>5 DEF Program
    <3>6. CASE k = "text"
          BY <3>6 DEF Program
    <3>. QED
      BY <3>1, <3>2, <3>3, <3>4, <3>5, <3>6 DEF InputKinds
  <2>2. \A i \in 1..Len(Program["shutdown"]) : Program["shutdown"][i] = "close" => i = 3
        BY DEF Program
  <2>. QED
    BY <1>2, <2>1, <2>2 DEF Jobs
<1>4. CASE Advances(0) /\ UNCHANGED pointer
  <2>1. ShutdownInOrder'
        BY <1>1, <1>2, <1>4, ShutdownAdvances DEF OrderlyInv
  <2>. QED
    BY <1>1, <1>4, <2>1, WireKept
<1>5. CASE /\ pointer.closing = "no" /\ pointer' = [pointer EXCEPT !.closing = "stop"]
           /\ UNCHANGED <<job, chain>>
  <2>1. pointer'.pending = "none" /\ pointer'.closing = "stop"
        BY <1>1, <1>5 DEF HostInv, TypeInv, HostTypeOK
  <2>2. ~known.key /\ ~known.button
        BY <1>1, <1>3 DEF OrderlyInv, ShutdownInOrder
  <2>3. native.state # "killed" /\ (native.state = "up" => ~pressed.button /\ ~pressed.key)
        BY <1>1, <1>5, <2>2 DEF OrderlyInv, HostKnowsPresses, ClosedEmpty
  <2>4. ShutdownInOrder'
        BY <1>1, <1>5, ShutdownKept DEF OrderlyInv
  <2>5. HostKnowsPresses' /\ AnswersAwaited' /\ ClosedEmpty'
        BY <1>1, <1>5, <2>1, <2>3 DEF OrderlyInv, HostKnowsPresses, AnswersAwaited, ClosedEmpty
  <2>. QED
    BY <2>4, <2>5 DEF OrderlyInv
<1>. QED
  BY <1>4, <1>5 DEF CloseHelper

\* An answer tells the host what the X server did; after a failure it relies on nothing.
LEMMA OrderlyAnswer ==
    ASSUME HostInv, OrderlyInv, Consume \/ AckTimeout \/ HelperGone PROVE OrderlyInv'
<1>1. /\ UNCHANGED pressed /\ native'.state = native.state /\ native'.command = native.command
      /\ native'.reply \in {"none", native.reply} /\ known \in Pressed
      BY DEF Consume, AckTimeout, HelperGone, HostInv, TypeInv, HostTypeOK
<1>2. pointer \in [pending: Commands \union {"none"}, closing: Whether]
      BY DEF HostInv, TypeInv, HostTypeOK
<1>3. pointer.pending # "none" => Busy /\ pointer.pending = Step /\ Step \in Commands /\ Step # "end"
      BY <1>2 DEF HostInv, AuthorityInv, Commands
<1>4. \/ Closes("failure") = "failure"
      \/ pointer.pending = "none" /\ native.reply = "none"
  <2>1. CASE pointer.closing = "stop"
        BY <2>1 DEF OrderlyInv, AnswersAwaited, ClosedEmpty
  <2>2. CASE pointer.closing # "stop"
    <3>1. pointer.closing \in {"no", "failure"}
          BY <1>2, <2>2 DEF Whether
    <3>. QED
      BY <3>1 DEF Closes
  <2>. QED
    BY <2>1, <2>2
<1>5. ASSUME pointer'.closing = "failure", ShutdownInOrder'
      PROVE  OrderlyInv'
      BY <1>5 DEF OrderlyInv, HostKnowsPresses, AnswersAwaited, ClosedEmpty
<1>6. CASE Consume /\ native.reply # "err" /\ pointer.pending # "none"
  <2>1. /\ pointer' = [pending |-> "none", closing |-> pointer.closing]
        /\ native'.reply = "none" /\ native.reply = "ok"
        /\ known' = Knows(known, Step)
        /\ job' = NewJob \/ (~job.undo /\ Advances(job.place))
        BY <1>3, <1>6 DEF Consume, HostInv, TypeInv, HostTypeOK
  <2>2. /\ Step \in {"cancelkey", "keyup"} => ~known'.key
        /\ Step \in {"cancel", "up"} => ~known'.button
        /\ Step = "down" => known'.button
        /\ Step = "keydown" => known'.key
        /\ Step \notin {"cancel", "up"} /\ known.button => known'.button
        /\ Step \notin {"cancelkey", "keyup"} /\ known.key => known'.key
        BY <1>1, <2>1 DEF Knows, Pressed
  <2>3. ShutdownInOrder'
    <3>1. CASE job' = NewJob
          BY <3>1 DEF ShutdownInOrder, NewJob
    <3>2. CASE ~job.undo /\ Advances(job.place)
          BY <1>3, <1>6, <2>1, <2>2, <3>2, ShutdownAdvances DEF OrderlyInv
    <3>. QED
      BY <2>1, <3>1, <3>2
  <2>4. CASE pointer.closing = "failure"
        BY <1>5, <2>1, <2>3, <2>4
  <2>5. CASE pointer.closing # "failure"
    <3>1. pointer'.pending = "none" /\ pointer'.closing = "no" /\ pointer.closing = "no"
          BY <1>2, <1>6, <2>1, <2>5 DEF OrderlyInv, ClosedEmpty, Whether
    <3>2. /\ native.state # "leaving" /\ native.state # "killed"
          /\ native.state = "up" => native.command = "none"
          /\ native.state = "up" =>
                /\ Step \in {"up", "cancel"} => ~pressed.button
                /\ Step \in {"keyup", "cancelkey"} => ~pressed.key
          BY <1>3, <1>6, <2>1, <3>1 DEF OrderlyInv, AnswersAwaited, ClosedEmpty
    <3>3. HostKnowsPresses'
      <4>1. SUFFICES ASSUME native.state = "up"
                     PROVE  (pressed.button => known'.button) /\ (pressed.key => known'.key)
            BY <1>1 DEF HostKnowsPresses
      <4>2. /\ pressed.button => known.button \/ Step = "down"
            /\ pressed.key => known.key \/ Step = "keydown"
            BY <1>3, <1>6, <3>1, <4>1 DEF OrderlyInv, HostKnowsPresses
      <4>. QED
        BY <2>2, <3>2, <4>1, <4>2
    <3>4. AnswersAwaited' /\ ClosedEmpty'
          BY <1>1, <2>1, <3>1, <3>2 DEF AnswersAwaited, ClosedEmpty
    <3>. QED
      BY <2>3, <3>3, <3>4 DEF OrderlyInv
  <2>. QED
    BY <2>4, <2>5
<1>7. CASE Consume /\ pointer.pending = "none"
  <2>1. /\ pointer' = [pointer EXCEPT !.closing = Closes("failure")] /\ UNCHANGED <<chain, job, known>>
        /\ native.reply # "none"
        BY <1>7 DEF Consume
  <2>2. ShutdownInOrder'
        BY <2>1, ShutdownKept DEF OrderlyInv
  <2>. QED
    BY <1>2, <1>4, <1>5, <2>1, <2>2
<1>8. CASE (Consume /\ native.reply = "err" /\ pointer.pending # "none") \/ AckTimeout
  <2>1. Throws /\ pointer' = [pending |-> "none", closing |-> Closes("failure")]
        /\ pointer.pending # "none"
        BY <1>8 DEF Consume, AckTimeout
  <2>2. ShutdownInOrder'
        BY <1>3, <2>1, ShutdownThrows DEF OrderlyInv
  <2>. QED
    BY <1>4, <1>5, <2>1, <2>2
<1>9. CASE HelperGone
  <2>1. /\ Throws /\ pointer' = [pointer EXCEPT !.pending = "none"] /\ pointer.pending # "none"
        /\ native.reply = "none" /\ native.state \in Gone /\ UNCHANGED native
        BY <1>9 DEF HelperGone
  <2>2. ShutdownInOrder'
        BY <1>3, <2>1, ShutdownThrows DEF OrderlyInv
  <2>3. pointer'.pending = "none" /\ pointer'.closing = pointer.closing
        BY <1>2, <2>1
  <2>4. HostKnowsPresses' /\ AnswersAwaited' /\ ClosedEmpty'
        BY <1>1, <2>1, <2>3 DEF OrderlyInv, HostKnowsPresses, AnswersAwaited, ClosedEmpty, Gone
  <2>. QED
    BY <2>2, <2>4 DEF OrderlyInv
<1>. QED
  BY <1>6, <1>7, <1>8, <1>9

\* The helper executes the command its client waits for, and nothing after an orderly close.
LEMMA OrderlyHelper ==
    ASSUME HostInv, OrderlyInv, Execute \/ Leave \/ HelperDies PROVE OrderlyInv'
<1>1. /\ UNCHANGED <<pointer, chain, job, known>> /\ pressed \in Pressed
      /\ native \in [state: {"up", "leaving", "ended", "killed", "dead"},
                      command: Commands \union {"none"}, reply: {"none", "ok", "err"},
                      holds: Pressed, unreleased: Pressed]
      BY DEF Execute, Leave, HelperDies, HostInv, TypeInv, HostTypeOK
<1>2. ShutdownInOrder'
      BY <1>1, ShutdownKept DEF OrderlyInv
<1>3. CASE Execute
  <2>1. /\ native.state = "up" /\ native.command # "none" /\ native'.command = "none"
        /\ native'.state \in {"up", "leaving"}
        /\ native'.state = "leaving" => native'.reply = "err"
        /\ native'.state = "up" => native'.reply = "ok" /\ pressed' = Knows(pressed, native.command)
        BY <1>1, <1>3 DEF Execute
  <2>2. CASE pointer.closing = "failure"
        BY <1>1, <1>2, <2>1, <2>2 DEF OrderlyInv, HostKnowsPresses, AnswersAwaited, ClosedEmpty
  <2>3. CASE pointer.closing # "failure"
    <3>1. pointer.pending = native.command /\ pointer.closing # "stop"
          BY <2>1, <2>3 DEF OrderlyInv, AnswersAwaited, ClosedEmpty
    <3>2. ASSUME native'.state = "up"
          PROVE  /\ pressed'.button => pressed.button \/ native.command = "down"
                 /\ pressed'.key => pressed.key \/ native.command = "keydown"
                 /\ native.command \in {"up", "cancel"} => ~pressed'.button
                 /\ native.command \in {"keyup", "cancelkey"} => ~pressed'.key
          BY <1>1, <2>1, <3>2 DEF Knows, Pressed
    <3>3. HostKnowsPresses'
          BY <1>1, <2>1, <3>1, <3>2 DEF OrderlyInv, HostKnowsPresses
    <3>4. AnswersAwaited' /\ ClosedEmpty'
          BY <1>1, <2>1, <3>1, <3>2 DEF AnswersAwaited, ClosedEmpty
    <3>. QED
      BY <1>2, <3>3, <3>4 DEF OrderlyInv
  <2>. QED
    BY <2>2, <2>3
<1>4. CASE Leave
  <2>1. native'.state = "ended" /\ native'.reply = native.reply
        BY <1>1, <1>4 DEF Leave
  <2>. QED
    BY <1>1, <1>2, <2>1 DEF OrderlyInv, HostKnowsPresses, AnswersAwaited, ClosedEmpty
<1>5. CASE HelperDies
  <2>1. /\ native.state \in {"up", "leaving"} /\ native'.state \in {"dead", "killed"}
        /\ native'.state = "killed" => pointer.closing # "no"
        /\ native'.reply = native.reply /\ pressed' = pressed
        BY <1>1, <1>5 DEF HelperDies
  <2>2. pointer.closing = "stop" => native.state # "leaving"
        BY DEF OrderlyInv, AnswersAwaited, ClosedEmpty
  <2>. QED
    BY <1>1, <1>2, <2>1, <2>2 DEF OrderlyInv, HostKnowsPresses, AnswersAwaited, ClosedEmpty
<1>. QED
  BY <1>3, <1>4, <1>5

\* An orderly shutdown knows what is pressed: nothing is left to a helper that it closed.
THEOREM OrderlyShutdown == Spec => []OrderlyInv
<1>1. Init => OrderlyInv
      BY DEF Init, OrderlyInv, HostKnowsPresses, AnswersAwaited, ClosedEmpty, ShutdownInOrder,
             Busy, Nothing
<1>2. HostInv /\ OrderlyInv /\ [Next]_vars => OrderlyInv'
  <2>1. SUFFICES ASSUME HostInv, OrderlyInv, [Next]_vars PROVE OrderlyInv'
        OBVIOUS
  <2>2. CASE \/ Admit \/ StopAsked \/ EncoderEnds \/ RequestIDR \/ RestartBegins \/ RestartEnds
             \/ CaptureStops \/ Poll \/ SnapshotAnswered \/ SnapshotFails \/ EditableCloses
             \/ WindowChanges \/ UNCHANGED vars
    <3>1. UNCHANGED <<pressed, native, pointer, job, known>>
          BY <2>2
          DEF Admit, StopAsked, EncoderEnds, RequestIDR, RestartBegins, RestartEnds, CaptureStops,
              Poll, SnapshotAnswered, SnapshotFails, EditableCloses, WindowChanges, vars
    <3>2. chain' = chain \/ \E k \in Jobs : chain' = Append(chain, k)
          BY <2>2, HostAssumption
          DEF Admit, StopAsked, EncoderEnds, RequestIDR, RestartBegins, RestartEnds, CaptureStops,
              Poll, SnapshotAnswered, SnapshotFails, EditableCloses, WindowChanges, vars,
              HostStops, Stops, Jobs
    <3>3. ShutdownInOrder'
          BY <2>1, <3>1, <3>2, ShutdownKept DEF OrderlyInv
    <3>. QED
      BY <2>1, <3>1, <3>3, WireKept
  <2>. QED
    BY <2>1, <2>2, OrderlyWork, OrderlySend, OrderlyClose, OrderlyAnswer, OrderlyHelper
    DEF Next, Host, Helper, Environment
<1>. QED
  BY <1>1, <1>2, HostInvariant, PTL DEF Spec

\* NothingStaysPressed: whatever input was interrupted, failed or abandoned, a press outlives
\* the native helper only if its release was tried and failed, or the helper did not end by
\* itself; one that an orderly shutdown had to kill left nothing.
THEOREM HelperReleasesItsPresses == Spec => []NothingStaysPressed
<1>1. HostInv /\ OrderlyInv => NothingStaysPressed
  <2>1. SUFFICES ASSUME HostInv, OrderlyInv, NEW k \in DOMAIN Nothing, pressed[k]
                 PROVE  /\ native.state = "ended" => native.unreleased[k]
                        /\ native.state = "killed" => pointer.closing = "failure"
        BY DEF NothingStaysPressed
  <2>2. k \in {"button", "key"}
        BY DEF Nothing
  <2>3. native.state = "ended" => native.unreleased[k]
        BY <2>1, <2>2 DEF HostInv, HelperOwnsPresses
  <2>4. native.state = "killed" => pointer.closing = "failure"
    <3>1. pointer.closing \in Whether
          BY <2>1 DEF HostInv, TypeInv, HostTypeOK
    <3>. QED
      BY <2>1, <2>2, <3>1 DEF OrderlyInv, ClosedEmpty, Whether
  <2>. QED
    BY <2>3, <2>4
<1>. QED
  BY HostInvariant, OrderlyShutdown, <1>1, PTL

\* MutationsFollowAuthority: a command that moves, presses or types is at the helper only when
\* the window was seen owned and focused since the job before it touched the window.
THEOREM MutationsAreAuthorised == Spec => []MutationsFollowAuthority
<1>1. HostInv => MutationsFollowAuthority
  <2>1. SUFFICES ASSUME HostInv, pointer.pending \notin Cancels \union {"none"}
                 PROVE  since.owned /\ since.focused
        BY DEF MutationsFollowAuthority
  <2>2. /\ TypeInv /\ Busy /\ Step \in Commands \ Cancels
        BY <2>1 DEF HostInv, TypeInv, HostTypeOK, AuthorityInv
  <2>3. /\ ~job.undo /\ Kind \in Jobs /\ job.at \in 1..Len(Program[Kind])
        /\ Program[Kind][job.at] \in Commands \ Cancels
        BY <2>2, StepOf DEF Commands, Cancels
  <2>4. Kind \in InputKinds
        BY <2>3, ProgramSteps DEF Jobs
  <2>5. Established({"own", "same"}) /\ Established({"focus", "hold"})
        BY <2>3, <2>4, MutationsAreChecked DEF Established
  <2>. QED
    BY <2>1, <2>2, <2>3, <2>5 DEF HostInv, AuthorityInv, ChecksWitnessed
<1>. QED
  BY HostInvariant, <1>1, PTL


-----------------------------------------------------------------------------
(* The surface: helpers, uses and the queries between them, in a World.    *)

\* Neither property depends on the order of the inputs: a chain may be anything here.
Windows == Targets \union {AnyTarget}
HelperRecord(inputs) ==
    [target: Windows, host: {"none", "up", "dying", "down"}, authority: {"none", "up", "closed"},
     failed: BOOLEAN, stopping: BOOLEAN, framed: BOOLEAN, chain: {inputs},
     poison: Outcomes \union {"no"}, pending: 0..MaxCalls, commands: Seq(Calls),
     asking: Seq(Calls), asked: BOOLEAN, pipe: Seq({"none", "ok", "lost"}), late: BOOLEAN]
IsHelper(r) == r \in HelperRecord(r.chain)
CallRecord ==
    [kind: UseKinds \union {"none"}, target: Windows, pc: Waits \union Outcomes \union {"idle"},
     helper: 0..MaxHelpers, again: BOOLEAN, fresh: BOOLEAN, held: BOOLEAN]
IsWorld(w) ==
    /\ DOMAIN w = {"hs", "cs", "lost"} /\ w.lost \in BOOLEAN
    /\ DOMAIN w.hs = Helpers /\ \A h \in Helpers : IsHelper(w.hs[h])
    /\ w.cs \in [Calls -> CallRecord]

\* The use x among the helpers hs: where it is, its helper is there, for the same window,
\* and it was allowed to get that far.
AtHelper == {"queued", "asking", "waiting", "acking"}
CallFine(x, hs) ==
    /\ x.pc \in Waits => x.kind \in (IF Linux THEN {"capture", "input"} ELSE UseKinds)
    /\ x.pc \in AtHelper => /\ x.helper \in Helpers /\ hs[x.helper].host # "none"
                            /\ hs[x.helper].target = x.target
    /\ Linux /\ x.pc = "asking" /\ x.target \in valid => x.held
    /\ Linux /\ x.pc \in {"acking", "waiting"} /\ ~hs[x.helper].late => x.held

\* The uses cs that the helper r (number h) refers to know of it.
HelperFine(r, h, cs) ==
    /\ \A i \in 1..Len(r.asking) : cs[r.asking[i]].pc = "asking" /\ cs[r.asking[i]].helper = h
    /\ \A i, j \in 1..Len(r.asking) : r.asking[i] = r.asking[j] => i = j
    /\ r.pending # 0 => cs[r.pending].pc = "acking" /\ cs[r.pending].helper = h
    /\ r.asked => r.asking # <<>>

\* The query of the helper r: one answer is under way, for the first use in the queue,
\* unless an earlier query timed out.
QueryFine(r, cs) ==
    ~r.late => IF r.asked
               THEN /\ Len(r.pipe) = 1
                    /\ Linux /\ r.pipe[1] = "ok" => cs[r.asking[1]].held
               ELSE r.pipe = <<>>

Fine(w, H) ==
    /\ IsWorld(w)
    /\ \A c \in Calls : CallFine(w.cs[c], w.hs)
    /\ \A h \in Helpers : HelperFine(w.hs[h], h, w.cs)
    /\ \A h \in H : QueryFine(w.hs[h], w.cs)

\* What becomes of a helper r, and of a world, while none is started: a process comes up
\* by no other way, and uses that are at no helper stay what they are.
Kin(r, s) ==
    /\ r.host = "none" <=> s.host = "none"
    /\ r.host # "none" => s.target = r.target
    /\ r.late => s.late
    /\ s.host = "up" /\ ~s.stopping => r.host = "up" /\ ~r.stopping
Akin(w, v) == \A h \in Helpers : Kin(w.hs[h], v.hs[h])
Grows(w, v) ==
    /\ Akin(w, v)
    /\ \A c \in Calls : w.cs[c].pc \notin AtHelper => v.cs[c] = w.cs[c]

OnlyActive == \A h \in Helpers : helper[h].host = "up" /\ ~helper[h].stopping => active = h
TransitionFine ==
    /\ transition \in [phase: {"none", "stopping", "starting", "firstframe"}, target: Windows,
                       owner: 0..MaxCalls, of: 0..MaxHelpers]
    /\ transition.phase # "none" => transition.owner \in Calls /\ call[transition.owner].pc = "owning"
    /\ transition.phase \in {"stopping", "starting"} => active = 0
    /\ transition.phase = "firstframe" => transition.of \in Helpers
ClosingFine ==
    /\ closing \in [phase: {"no", "waiting", "taking", "stopping", "closed"}, of: 0..MaxHelpers]
    /\ closing.phase = "stopping" => closing.of \in Helpers
ActiveFine == active \in 0..MaxHelpers /\ (active # 0 => helper[active].host # "none")

SurfaceInv ==
    /\ bounds \in SurfaceBounds /\ faults \in Nat /\ changes \in Nat
    /\ Fine(World, Helpers) /\ OnlyActive /\ TransitionFine /\ ClosingFine /\ ActiveFine
-----------------------------------------------------------------------------

\* The world v is w with r for the helper h and the uses cs.
Edited(w, v, h, r, cs) ==
    /\ DOMAIN v = {"hs", "cs", "lost"} /\ v.lost = w.lost /\ v.cs = cs
    /\ DOMAIN v.hs = Helpers /\ v.hs[h] = r /\ \A g \in Helpers : g # h => v.hs[g] = w.hs[g]

\* The fields of a helper.
LEMMA HelperFields ==
    ASSUME NEW r, IsHelper(r)
    PROVE  /\ \A i \in 1..Len(r.asking) : r.asking[i] \in Calls
           /\ r.pending # 0 => r.pending \in Calls
           /\ r.asking \in Seq(Calls) /\ Len(r.asking) \in Nat /\ r.pending \in 0..MaxCalls
           /\ r.pipe \in Seq({"none", "ok", "lost"}) /\ Len(r.pipe) \in Nat
           /\ r.failed \in BOOLEAN /\ r.stopping \in BOOLEAN /\ r.asked \in BOOLEAN /\ r.late \in BOOLEAN
           /\ r.poison \in Outcomes \union {"no"}
<1>1. /\ r.asking \in Seq(Calls) /\ r.pending \in 0..MaxCalls
      /\ r.failed \in BOOLEAN /\ r.stopping \in BOOLEAN /\ r.asked \in BOOLEAN /\ r.late \in BOOLEAN
      /\ r.poison \in Outcomes \union {"no"} /\ r.pipe \in Seq({"none", "ok", "lost"})
      BY DEF IsHelper, HelperRecord
<1>2. \A i \in 1..Len(r.asking) : r.asking[i] \in Calls
      BY <1>1
<1>3. Len(r.asking) \in Nat /\ Len(r.pipe) \in Nat
      BY <1>1
<1>4. r.pending # 0 => r.pending \in Calls
      BY <1>1, SurfaceAssumption DEF Calls
<1>. QED
  BY <1>1, <1>2, <1>3, <1>4

\* What an operation leaves of a world that was fine.
LEMMA Moves ==
    ASSUME NEW w, NEW v, NEW H, NEW G \in SUBSET Helpers, Fine(w, H), IsWorld(v), Akin(w, v),
           \A c \in Calls : v.cs[c] = w.cs[c] \/ CallFine(v.cs[c], v.hs),
           \A h \in Helpers : HelperFine(v.hs[h], h, v.cs),
           \A h \in G : QueryFine(v.hs[h], v.cs)
    PROVE  Fine(v, G)
<1>1. ASSUME NEW c \in Calls, v.cs[c] = w.cs[c] PROVE CallFine(v.cs[c], v.hs)
  <2>1. CallFine(w.cs[c], w.hs)
        BY DEF Fine
  <2>2. w.cs[c].helper \in Helpers => Kin(w.hs[w.cs[c].helper], v.hs[w.cs[c].helper])
        BY DEF Akin
  <2>. QED
    BY <1>1, <2>1, <2>2 DEF CallFine, Kin, AtHelper
<1>. QED
  BY <1>1 DEF Fine

\* Helpers that keep their queue and what they wait for, and whose uses keep their place.
LEMMA HelperKept ==
    ASSUME NEW h, NEW r, NEW s, NEW cs, NEW ds, HelperFine(r, h, cs), IsHelper(r), IsHelper(s),
           s.asking = r.asking, s.pending = r.pending, s.asked = r.asked,
           \A c \in Calls : cs[c].pc \in {"asking", "acking"} /\ cs[c].helper = h =>
               ds[c].pc = cs[c].pc /\ ds[c].helper = cs[c].helper
    PROVE  HelperFine(s, h, ds)
<1>1. \A i \in 1..Len(r.asking) : r.asking[i] \in Calls
      BY HelperFields
<1>2. r.pending # 0 => r.pending \in Calls
      BY HelperFields
<1>. QED
  BY <1>1, <1>2 DEF HelperFine

\* Queries that stay what they are, while what their uses have seen is not forgotten.
LEMMA QueryKept ==
    ASSUME NEW r, NEW s, NEW cs, NEW ds, QueryFine(r, cs), IsHelper(r), r.asked => r.asking # <<>>,
           s.asking = r.asking, s.asked = r.asked, s.pipe = r.pipe, r.late => s.late, s.late \in BOOLEAN,
           \A i \in 1..Len(r.asking) : cs[r.asking[i]].held => ds[r.asking[i]].held
    PROVE  QueryFine(s, ds)
<1>1. r.asked => 1 \in 1..Len(r.asking)
      BY HelperFields
<1>. QED
  BY <1>1 DEF QueryFine, IsHelper, HelperRecord

\* What is left of a use that ended.
Left(x) ==
    /\ x \in CallRecord /\ x.pc \in Outcomes \union {"resting"}
    /\ x.pc = "resting" => Linux /\ x.kind = "capture"

\* A use that ended has no claim on a helper.
LEMMA LeftFine == ASSUME NEW x, Left(x), NEW hs PROVE CallFine(x, hs)
  BY DEF Left, CallFine, Outcomes, Waits, AtHelper

\* A use that has not begun, or that gets a position.
LEMMA NoCallFacts ==
    /\ NoCall \in CallRecord /\ NoCall.pc = "idle" /\ NoCall.helper = 0
    /\ \A p \in Waits \union Outcomes :
          [NoCall EXCEPT !.pc = p] \in CallRecord /\ [NoCall EXCEPT !.pc = p].pc = p
<1>1. 0 \in 0..MaxHelpers
      BY SurfaceAssumption
<1>. QED
  BY <1>1 DEF NoCall, CallRecord, Windows

\* A use that ends, for good or for another attempt, is one that ended.
LEMMA EndedFacts ==
    ASSUME NEW w, IsWorld(w), NEW c \in Calls, NEW how \in Outcomes
    PROVE  /\ \E x : /\ EndedFinally(w.cs, c, how) = [w.cs EXCEPT ![c] = x]
                     /\ Left(x) /\ x.pc = how
           /\ \E x : Ended(w.cs, c, how) = [w.cs EXCEPT ![c] = x] /\ Left(x)
<1> DEFINE x == [NoCall EXCEPT !.pc = how]
           y == [NoCall EXCEPT !.kind = "capture", !.target = w.cs[c].target,
                               !.again = FALSE, !.pc = "resting"]
<1>1. Left(x) /\ x.pc = how
      BY NoCallFacts DEF Left, Outcomes
<1>2. Linux => Left(y)
  <2>1. w.cs[c].target \in Windows
        BY DEF IsWorld, CallRecord
  <2>2. "resting" \in Waits /\ "capture" \in UseKinds /\ NoCall \in CallRecord
        BY NoCallFacts DEF Waits, UseKinds
  <2>3. y \in CallRecord /\ y.pc = "resting" /\ y.kind = "capture"
    <3> DEFINE t == w.cs[c].target
    <3> HIDE DEF t
    <3>1. [NoCall EXCEPT !.kind = "capture", !.target = t, !.again = FALSE, !.pc = "resting"] \in CallRecord
          BY <2>1, <2>2 DEF CallRecord, t
    <3>. QED
      BY <2>2, <3>1 DEF t, CallRecord
  <2>. QED
    BY <2>3 DEF Left
<1>3. EndedFinally(w.cs, c, how) = [w.cs EXCEPT ![c] = x]
      BY DEF EndedFinally
<1>4. CASE Retries(w.cs, c, how)
  <2>1. Ended(w.cs, c, how) = [w.cs EXCEPT ![c] = y] /\ Linux
        BY <1>4 DEF Ended, Retries
  <2>. QED
    BY <1>1, <1>2, <1>3, <2>1
<1>5. CASE ~Retries(w.cs, c, how)
  <2>1. Ended(w.cs, c, how) = [w.cs EXCEPT ![c] = x]
        BY <1>3, <1>5 DEF Ended
  <2>. QED
    BY <1>1, <1>3, <2>1
<1>. QED
  BY <1>4, <1>5
-----------------------------------------------------------------------------
(* The operators on worlds.                                                *)

\* A use that no queue and no other helper than h has a claim to.
Untied(w, h, c) ==
    /\ \A g \in Helpers : \A i \in 1..Len(w.hs[g].asking) : w.hs[g].asking[i] # c
    /\ \A g \in Helpers : g # h => w.hs[g].pending # c

Loose(w, h, c) == w.cs[c].pc \in AtHelper /\ Untied(w, h, c)
OnlyQueued(w, h, c) == w.hs[h].pending # c

\* What the queries of a helper need is the same.
SameQuery(r, s) == s.asking = r.asking /\ s.asked = r.asked /\ s.pipe = r.pipe /\ s.late = r.late
SameProcess(r, s) == s.host = r.host /\ s.stopping = r.stopping /\ s.target = r.target

\* The helper h becomes r and the use c becomes x, which no queue has.
LEMMA UseMoves ==
    ASSUME NEW w, NEW H \in SUBSET Helpers, Fine(w, H), NEW h \in Helpers, NEW c \in Calls,
           Untied(w, h, c), NEW x \in CallRecord, NEW r, IsHelper(r),
           SameQuery(w.hs[h], r), Kin(w.hs[h], r),
           \/ r.pending = 0 \/ (r.pending = w.hs[h].pending /\ r.pending # c)
           \/ r.pending = c /\ x.pc = "acking" /\ x.helper = h,
           NEW v, Edited(w, v, h, r, [w.cs EXCEPT ![c] = x]), CallFine(x, v.hs)
    PROVE  Fine(v, H) /\ Akin(w, v) /\ (w.cs[c].pc \in AtHelper => Grows(w, v))
<1> DEFINE cs == [w.cs EXCEPT ![c] = x]
<1>1. /\ cs \in [Calls -> CallRecord] /\ cs[c] = x
      /\ \A d \in Calls : d # c => cs[d] = w.cs[d]
      BY DEF Fine, IsWorld
<1> HIDE DEF cs
<1>2. /\ IsWorld(v) /\ v.hs[h] = r /\ v.cs = cs
      /\ \A g \in Helpers : g # h => v.hs[g] = w.hs[g]
      BY <1>1 DEF Fine, IsWorld, Edited, cs
<1>3. Akin(w, v)
      BY <1>2 DEF Akin, Kin
<1>4. \A d \in Calls : v.cs[d] = w.cs[d] \/ CallFine(v.cs[d], v.hs)
      BY <1>1, <1>2
<1>5. ASSUME NEW g \in Helpers PROVE HelperFine(v.hs[g], g, v.cs)
  <2>1. /\ HelperFine(w.hs[g], g, w.cs) /\ IsHelper(w.hs[g]) /\ IsHelper(v.hs[g])
        /\ \A i \in 1..Len(w.hs[g].asking) : w.hs[g].asking[i] # c /\ w.hs[g].asking[i] \in Calls
        BY <1>2, HelperFields DEF Fine, IsWorld, Untied
  <2>2. v.hs[g].asking = w.hs[g].asking /\ v.hs[g].asked = w.hs[g].asked
        BY <1>2 DEF SameQuery
  <2>3. \/ v.hs[g].pending = 0
        \/ v.hs[g].pending = c /\ x.pc = "acking" /\ x.helper = g
        \/ /\ v.hs[g].pending = w.hs[g].pending /\ w.hs[g].pending # c
           /\ w.hs[g].pending # 0 => w.hs[g].pending \in Calls
        BY <1>2, <2>1, HelperFields DEF Untied
  <2>4. /\ \A i \in 1..Len(w.hs[g].asking) :
              v.cs[w.hs[g].asking[i]].pc = "asking" /\ v.cs[w.hs[g].asking[i]].helper = g
        /\ \A i, j \in 1..Len(w.hs[g].asking) : w.hs[g].asking[i] = w.hs[g].asking[j] => i = j
        /\ w.hs[g].asked => w.hs[g].asking # <<>>
        BY <1>1, <1>2, <2>1 DEF HelperFine
  <2>5. v.hs[g].pending # 0 => /\ v.cs[v.hs[g].pending].pc = "acking"
                               /\ v.cs[v.hs[g].pending].helper = g
        BY <1>1, <1>2, <2>1, <2>3 DEF HelperFine
  <2>. QED
    BY <2>2, <2>4, <2>5 DEF HelperFine
<1>6. ASSUME NEW g \in H PROVE QueryFine(v.hs[g], v.cs)
  <2>1. /\ QueryFine(w.hs[g], w.cs) /\ IsHelper(w.hs[g]) /\ SameQuery(w.hs[g], v.hs[g])
        /\ \A i \in 1..Len(w.hs[g].asking) : w.hs[g].asking[i] # c /\ w.hs[g].asking[i] \in Calls
        BY <1>2, HelperFields DEF Fine, IsWorld, Untied, SameQuery
  <2>2. w.hs[g].asked => w.hs[g].asking # <<>>
        BY DEF Fine, HelperFine
  <2>3. /\ \A i \in 1..Len(w.hs[g].asking) : w.cs[w.hs[g].asking[i]].held => v.cs[w.hs[g].asking[i]].held
        /\ v.hs[g].late \in BOOLEAN
        BY <1>1, <1>2, <2>1, HelperFields DEF IsWorld
  <2>. QED
    BY <2>1, <2>2, <2>3, QueryKept DEF SameQuery
<1>7. Fine(v, H)
      BY <1>2, <1>3, <1>4, <1>5, <1>6, Moves
<1>8. ASSUME w.cs[c].pc \in AtHelper PROVE Grows(w, v)
      BY <1>1, <1>2, <1>3, <1>8 DEF Grows
<1>. QED
  BY <1>3, <1>7, <1>8

\* The use c ends at the helper h.
LEMMA UseLeaves ==
    ASSUME NEW w, NEW H \in SUBSET Helpers, Fine(w, H), NEW h \in Helpers, NEW c \in Calls,
           Loose(w, h, c), NEW x, Left(x), NEW r, IsHelper(r),
           SameQuery(w.hs[h], r), Kin(w.hs[h], r),
           r.pending = 0 \/ (r.pending = w.hs[h].pending /\ r.pending # c),
           NEW v, Edited(w, v, h, r, [w.cs EXCEPT ![c] = x])
    PROVE  Fine(v, H) /\ Grows(w, v)
<1>1. CallFine(x, v.hs) /\ x \in CallRecord
      BY LeftFine DEF Left
<1>. QED
  BY <1>1, UseMoves DEF Loose

\* settleInput(): the chain moves on, and the input that is over is the one that waited.
LEMMA InputEndsFine ==
    ASSUME NEW w, NEW H \in SUBSET Helpers, Fine(w, H), NEW h \in Helpers, NEW c \in Calls,
           Loose(w, h, c), NEW how \in Outcomes
    PROVE  LET v == InputEnds(w, h, c, how) IN
           /\ Fine(v, H) /\ Grows(w, v) /\ SameQuery(w.hs[h], v.hs[h])
           /\ SameProcess(w.hs[h], v.hs[h]) /\ v.hs[h].authority = w.hs[h].authority
           /\ v.hs[h].failed = w.hs[h].failed /\ v.lost = w.lost
           /\ \A g \in Helpers : g # h => v.hs[g] = w.hs[g]
<1> DEFINE r == [w.hs[h] EXCEPT !.chain = Tail(@), !.pending = 0,
                                !.poison = IF Linux /\ how # "done" THEN how ELSE @]
<1>1. IsHelper(w.hs[h]) /\ IsWorld(w)
      BY DEF Fine, IsWorld
<1>2. /\ IsHelper(r) /\ SameQuery(w.hs[h], r) /\ SameProcess(w.hs[h], r) /\ r.pending = 0
      /\ r.authority = w.hs[h].authority /\ r.failed = w.hs[h].failed
  <2>1. w.hs[h] \in HelperRecord(w.hs[h].chain) /\ 0 \in 0..MaxCalls
        BY <1>1, SurfaceAssumption DEF IsHelper
  <2>2. r.pending = 0 /\ r.authority = w.hs[h].authority /\ r.failed = w.hs[h].failed
        BY <2>1 DEF HelperRecord
  <2>3. SameQuery(w.hs[h], r) /\ SameProcess(w.hs[h], r)
        BY <2>1 DEF HelperRecord, SameQuery, SameProcess
  <2>4. r \in HelperRecord(Tail(w.hs[h].chain)) /\ r.chain = Tail(w.hs[h].chain)
        BY <2>1 DEF HelperRecord
  <2>. QED
    BY <2>2, <2>3, <2>4 DEF IsHelper
<1>3. PICK x : EndedFinally(w.cs, c, how) = [w.cs EXCEPT ![c] = x] /\ Left(x)
      BY <1>1, EndedFacts
<1>4. Edited(w, InputEnds(w, h, c, how), h, r, [w.cs EXCEPT ![c] = x])
      BY <1>1, <1>3 DEF InputEnds, IsWorld, Edited
<1>5. Kin(w.hs[h], r)
      BY <1>2 DEF Kin, SameQuery, SameProcess
<1> HIDE DEF r
<1>6. Fine(InputEnds(w, h, c, how), H) /\ Grows(w, InputEnds(w, h, c, how))
      BY <1>2, <1>3, <1>4, <1>5, UseLeaves
<1>. QED
  BY <1>2, <1>4, <1>6 DEF Edited

NextQuery(r) == [r EXCEPT !.asking = Tail(@), !.asked = FALSE]

\* The helper when the query under way is over.
LEMMA NextQueryFacts ==
    ASSUME NEW r, IsHelper(r), r.asking # <<>>
    PROVE  LET s == NextQuery(r) IN
           /\ IsHelper(s) /\ s.asking = Tail(r.asking) /\ s.asked = FALSE /\ s.pipe = r.pipe
           /\ s.late = r.late /\ s.pending = r.pending /\ s.failed = r.failed
           /\ s.authority = r.authority /\ SameProcess(r, s)
<1>1. r \in HelperRecord(r.chain) /\ Tail(r.asking) \in Seq(Calls)
      BY HelperFields DEF IsHelper
<1>2. NextQuery(r).chain = r.chain
      BY <1>1 DEF HelperRecord, NextQuery
<1>. QED
  BY <1>1, <1>2 DEF IsHelper, HelperRecord, NextQuery, SameProcess

\* A query that ends leaves the queue, and with it the use that asked.
LEMMA Dequeued ==
    ASSUME NEW w, NEW H \in SUBSET Helpers, Fine(w, H), NEW h \in Helpers \ H,
           w.hs[h].asking # <<>>, NEW v,
           Edited(w, v, h, NextQuery(w.hs[h]), w.cs)
    PROVE  LET c == Head(w.hs[h].asking) IN
           /\ Fine(v, H) /\ Grows(w, v) /\ c \in Calls /\ Loose(v, h, c) /\ OnlyQueued(v, h, c)
           /\ w.cs[c].pc = "asking" /\ w.cs[c].helper = h
<1> DEFINE c == Head(w.hs[h].asking)
           q == w.hs[h].asking
           r == NextQuery(w.hs[h])
<1>1. /\ w.hs[h] \in HelperRecord(w.hs[h].chain) /\ IsWorld(w)
      /\ \A g \in Helpers : IsHelper(w.hs[g]) /\ HelperFine(w.hs[g], g, w.cs)
      BY DEF Fine, IsWorld, IsHelper
<1>2. /\ q \in Seq(Calls) /\ q # <<>> /\ Len(q) \in Nat /\ Len(q) > 0 /\ Tail(q) \in Seq(Calls)
      /\ c = q[1] /\ c \in Calls /\ Len(Tail(q)) = Len(q) - 1
      /\ \A i \in 1..Len(Tail(q)) : Tail(q)[i] = q[i + 1] /\ i + 1 \in 1..Len(q) /\ i + 1 # 1
      BY <1>1, HelperFields
<1>3. /\ IsHelper(r) /\ r.asking = Tail(q) /\ r.asked = FALSE /\ r.late = w.hs[h].late
      /\ r.pending = w.hs[h].pending /\ SameProcess(w.hs[h], r)
      BY <1>1, NextQueryFacts
<1>4. /\ v.hs[h] = r /\ v.cs = w.cs /\ v.lost = w.lost /\ \A g \in Helpers : g # h => v.hs[g] = w.hs[g]
      BY DEF Edited
<1>5. IsWorld(v)
      BY <1>1, <1>3, <1>4 DEF IsWorld, Edited
<1> HIDE DEF r
<1>6. Grows(w, v)
      BY <1>3, <1>4 DEF Grows, Akin, Kin, SameProcess
<1>7. /\ \A i \in 1..Len(q) : w.cs[q[i]].pc = "asking" /\ w.cs[q[i]].helper = h
      /\ \A i, j \in 1..Len(q) : q[i] = q[j] => i = j
      /\ r.pending # 0 => w.cs[r.pending].pc = "acking" /\ w.cs[r.pending].helper = h
      BY <1>1, <1>3 DEF HelperFine
<1>8. \A i \in 1..Len(Tail(q)) : /\ Tail(q)[i] # c /\ w.cs[Tail(q)[i]].pc = "asking"
                                 /\ w.cs[Tail(q)[i]].helper = h
  <2>1. ASSUME NEW i \in 1..Len(Tail(q))
        PROVE  Tail(q)[i] # c /\ w.cs[Tail(q)[i]].pc = "asking" /\ w.cs[Tail(q)[i]].helper = h
    <3>1. /\ Tail(q)[i] = q[i + 1] /\ i + 1 \in 1..Len(q) /\ 1 \in 1..Len(q) /\ i + 1 # 1
          /\ c = q[1]
          BY <1>2, <2>1
    <3>. QED
      BY <1>7, <3>1
  <2>. QED
    BY <2>1
<1>9. \A i, j \in 1..Len(Tail(q)) : Tail(q)[i] = Tail(q)[j] => i = j
  <2>1. ASSUME NEW i \in 1..Len(Tail(q)), NEW j \in 1..Len(Tail(q)), Tail(q)[i] = Tail(q)[j]
        PROVE  i = j
    <3>1. q[i + 1] = q[j + 1] /\ i + 1 \in 1..Len(q) /\ j + 1 \in 1..Len(q)
          BY <1>2, <2>1
    <3>2. i + 1 = j + 1
          BY <1>7, <3>1
    <3>. QED
      BY <3>2
  <2>. QED
    BY <2>1
<1>10. ASSUME NEW g \in Helpers PROVE HelperFine(v.hs[g], g, v.cs)
  <2>1. CASE g = h
    <3>1. HelperFine(r, h, w.cs)
      <4>1. r.asking = Tail(q) /\ ~r.asked
            BY <1>3
      <4>. QED
        BY <1>7, <1>8, <1>9, <4>1 DEF HelperFine
    <3>. QED
      BY <1>4, <2>1, <3>1
  <2>2. CASE g # h
        BY <1>1, <1>4, <2>2
  <2>. QED
    BY <2>1, <2>2
<1>11. \A g \in H : QueryFine(v.hs[g], v.cs)
      BY <1>4 DEF Fine
<1>12. Fine(v, H)
      BY <1>4, <1>5, <1>6, <1>10, <1>11, Moves DEF Grows
<1>13. w.cs[c].pc = "asking" /\ w.cs[c].helper = h
      BY <1>2, <1>7
<1>14. \A g \in Helpers : w.hs[g].pending # c
  <2>1. \A g \in Helpers : w.hs[g].pending # 0 => w.cs[w.hs[g].pending].pc = "acking"
        BY <1>1 DEF HelperFine
  <2>2. c # 0
        BY <1>2, SurfaceAssumption DEF Calls
  <2>. QED
    BY <1>13, <2>1, <2>2
<1>15. ASSUME NEW g \in Helpers, NEW i \in 1..Len(v.hs[g].asking) PROVE v.hs[g].asking[i] # c
  <2>1. CASE g = h
        BY <1>3, <1>4, <1>8, <1>15, <2>1
  <2>2. CASE g # h
    <3>1. w.cs[v.hs[g].asking[i]].helper = g
          BY <1>1, <1>4, <1>15, <2>2 DEF HelperFine
    <3>. QED
      BY <1>13, <2>2, <3>1
  <2>. QED
    BY <2>1, <2>2
<1>16. Loose(v, h, c) /\ OnlyQueued(v, h, c)
      BY <1>3, <1>4, <1>13, <1>14, <1>15 DEF Loose, Untied, OnlyQueued, AtHelper
<1>. QED
  BY <1>2, <1>6, <1>12, <1>13, <1>16

\* Two operations after each other.
LEMMA GrowsOn ==
    ASSUME NEW w, NEW v, NEW u, Grows(w, v), Grows(v, u)
    PROVE  Grows(w, u)
  BY DEF Grows, Akin, Kin

\* LinuxWindowAuthorityHelper rejects the query at the head of its queue.
LEMMA QueryFailsFine ==
    ASSUME NEW w, NEW H \in SUBSET Helpers, Fine(w, H), NEW h \in Helpers \ H,
           w.hs[h].asking # <<>>, NEW how \in Outcomes
    PROVE  LET v == QueryFails(w, h, how) IN
           /\ Fine(v, H) /\ Grows(w, v) /\ v.lost = w.lost
           /\ v.hs[h].asked = FALSE /\ v.hs[h].pipe = w.hs[h].pipe /\ v.hs[h].late = w.hs[h].late
           /\ SameProcess(w.hs[h], v.hs[h])
<1> DEFINE c == Head(w.hs[h].asking)
           u == [w EXCEPT !.hs[h].asking = Tail(@), !.hs[h].asked = FALSE]
           v == QueryFails(w, h, how)
<1>1. Edited(w, u, h, NextQuery(w.hs[h]), w.cs)
      BY DEF Edited, Fine, IsWorld, NextQuery
<1>2. v = IF w.cs[c].kind = "input" THEN InputEnds(u, h, c, how)
          ELSE [u EXCEPT !.cs = EndedFinally(@, c, how)]
      BY DEF QueryFails
<1> HIDE DEF u, v
<1>3. /\ Fine(u, H) /\ Grows(w, u) /\ c \in Calls /\ Loose(u, h, c) /\ u.hs[h].pending # c
      /\ u.hs[h].asked = FALSE /\ u.hs[h].pipe = w.hs[h].pipe /\ u.hs[h].late = w.hs[h].late
      /\ SameProcess(w.hs[h], u.hs[h]) /\ u.lost = w.lost
  <2>1. u.lost = w.lost
        BY <1>1 DEF Edited
  <2>2. IsHelper(w.hs[h]) /\ u.hs[h] = NextQuery(w.hs[h])
        BY <1>1 DEF Edited, Fine, IsWorld
  <2>3. /\ u.hs[h].asked = FALSE /\ u.hs[h].pipe = w.hs[h].pipe /\ u.hs[h].late = w.hs[h].late
        /\ SameProcess(w.hs[h], u.hs[h])
        BY <2>2, NextQueryFacts
  <2>4. Fine(u, H) /\ Grows(w, u) /\ c \in Calls /\ Loose(u, h, c) /\ OnlyQueued(u, h, c)
        BY <1>1, Dequeued
  <2>. QED
    BY <2>1, <2>3, <2>4 DEF OnlyQueued
<1>4. CASE w.cs[c].kind = "input"
  <2>1. /\ Fine(v, H) /\ Grows(u, v) /\ SameQuery(u.hs[h], v.hs[h])
        /\ SameProcess(u.hs[h], v.hs[h]) /\ v.lost = u.lost
        BY <1>2, <1>3, <1>4, InputEndsFine
  <2>. QED
    BY <1>3, <2>1, GrowsOn DEF SameQuery, SameProcess, v
<1>5. CASE w.cs[c].kind # "input"
  <2>1. v = [u EXCEPT !.cs = EndedFinally(u.cs, c, how)]
        BY <1>2, <1>5
  <2>2. PICK x : EndedFinally(u.cs, c, how) = [u.cs EXCEPT ![c] = x] /\ Left(x)
    <3>1. IsWorld(u)
          BY <1>3 DEF Fine
    <3>. QED
      BY <1>3, <3>1, EndedFacts
  <2>3. \A g \in Helpers : u.hs[g].pending # c
        BY <1>3 DEF Loose, Untied, OnlyQueued
  <2>4. Edited(u, v, h, u.hs[h], [u.cs EXCEPT ![c] = x])
        BY <1>3, <2>1, <2>2 DEF Edited, Fine, IsWorld
  <2>5. IsHelper(u.hs[h]) /\ SameQuery(u.hs[h], u.hs[h]) /\ Kin(u.hs[h], u.hs[h])
        BY <1>3 DEF Fine, IsWorld, SameQuery, Kin
  <2>6. Fine(v, H) /\ Grows(u, v)
        BY <1>3, <2>2, <2>3, <2>4, <2>5, UseLeaves
  <2>. QED
    BY <1>3, <2>4, <2>6, GrowsOn DEF Edited, v
<1>. QED
  BY <1>4, <1>5

\* The helper h becomes r, with the same queue and the same input that waits.
LEMMA HelperChanges ==
    ASSUME NEW w, NEW H \in SUBSET Helpers, Fine(w, H), NEW h \in Helpers, NEW r, IsHelper(r),
           r.asking = w.hs[h].asking, r.asked => r.asking # <<>>, r.pending = w.hs[h].pending,
           Kin(w.hs[h], r), NEW G \in SUBSET Helpers, \A g \in G : g # h => g \in H,
           h \in G => QueryFine(r, w.cs), NEW v, Edited(w, v, h, r, w.cs)
    PROVE  Fine(v, G) /\ Grows(w, v)
<1>1. /\ IsWorld(v) /\ v.hs[h] = r /\ v.cs = w.cs
      /\ \A g \in Helpers : g # h => v.hs[g] = w.hs[g]
      BY DEF Fine, IsWorld, Edited
<1>2. Akin(w, v)
      BY <1>1 DEF Akin, Kin
<1>3. ASSUME NEW g \in Helpers PROVE HelperFine(v.hs[g], g, v.cs)
  <2>1. HelperFine(w.hs[g], g, w.cs)
        BY DEF Fine
  <2>2. CASE g # h
        BY <1>1, <2>1, <2>2
  <2>3. CASE g = h
    <3>1. HelperFine(r, h, w.cs)
          BY <2>1, <2>3 DEF HelperFine
    <3>. QED
      BY <1>1, <2>3, <3>1
  <2>. QED
    BY <2>2, <2>3
<1>4. \A g \in G : QueryFine(v.hs[g], v.cs)
      BY <1>1 DEF Fine
<1>. QED
  BY <1>1, <1>2, <1>3, <1>4, Moves DEF Grows

\* The helpers stay, and uses move that none of them refers to, or in what they do not read.
LEMMA CallsMove ==
    ASSUME NEW w, NEW H \in SUBSET Helpers, Fine(w, H), NEW v, DOMAIN v = {"hs", "cs", "lost"},
           v.hs = w.hs, v.lost \in BOOLEAN, v.cs \in [Calls -> CallRecord],
           \A c \in Calls :
              \/ v.cs[c] = w.cs[c]
              \/ /\ CallFine(v.cs[c], w.hs)
                 /\ \/ w.cs[c].pc \notin {"asking", "acking"}
                    \/ /\ v.cs[c].pc = w.cs[c].pc /\ v.cs[c].helper = w.cs[c].helper
                       /\ v.cs[c].held = w.cs[c].held
    PROVE  Fine(v, H) /\ Akin(w, v)
<1>1. IsWorld(v) /\ Akin(w, v)
      BY DEF Fine, IsWorld, Akin, Kin
<1>2. ASSUME NEW h \in Helpers PROVE HelperFine(v.hs[h], h, v.cs)
  <2>1. HelperFine(w.hs[h], h, w.cs) /\ IsHelper(w.hs[h])
        BY DEF Fine, IsWorld
  <2>2. \A c \in Calls : w.cs[c].pc \in {"asking", "acking"} /\ w.cs[c].helper = h =>
            v.cs[c].pc = w.cs[c].pc /\ v.cs[c].helper = w.cs[c].helper
        OBVIOUS
  <2>. QED
    BY <2>1, <2>2, HelperKept
<1>3. ASSUME NEW h \in H PROVE QueryFine(v.hs[h], v.cs)
  <2>1. /\ QueryFine(w.hs[h], w.cs) /\ IsHelper(w.hs[h]) /\ HelperFine(w.hs[h], h, w.cs)
        /\ \A i \in 1..Len(w.hs[h].asking) : w.hs[h].asking[i] \in Calls
        BY HelperFields DEF Fine, IsWorld
  <2>2. \A i \in 1..Len(w.hs[h].asking) : w.cs[w.hs[h].asking[i]].pc = "asking"
        BY <2>1 DEF HelperFine
  <2>3. \A i \in 1..Len(w.hs[h].asking) :
            w.cs[w.hs[h].asking[i]].held => v.cs[w.hs[h].asking[i]].held
        BY <2>1, <2>2
  <2>4. (w.hs[h].asked => w.hs[h].asking # <<>>) /\ w.hs[h].late \in BOOLEAN
        BY <2>1, HelperFields DEF HelperFine
  <2>. QED
    BY <2>1, <2>3, <2>4, QueryKept
<1>4. \A c \in Calls : v.cs[c] = w.cs[c] \/ CallFine(v.cs[c], v.hs)
      OBVIOUS
<1>. QED
  BY <1>1, <1>2, <1>3, <1>4, Moves

\* The input that waits for its answer is at this helper only.
LEMMA PendingLoose ==
    ASSUME NEW w, NEW H \in SUBSET Helpers, Fine(w, H), NEW h \in Helpers, w.hs[h].pending # 0
    PROVE  w.hs[h].pending \in Calls /\ Loose(w, h, w.hs[h].pending)
<1> DEFINE c == w.hs[h].pending
<1>1. \A g \in Helpers : IsHelper(w.hs[g]) /\ HelperFine(w.hs[g], g, w.cs)
      BY DEF Fine, IsWorld
<1>2. c \in Calls
      BY <1>1, HelperFields
<1>3. c # 0 /\ w.cs[c].pc = "acking" /\ w.cs[c].helper = h
      BY <1>1 DEF HelperFine
<1>4. \A g \in Helpers : \A i \in 1..Len(w.hs[g].asking) : w.hs[g].asking[i] # c
      BY <1>1, <1>3 DEF HelperFine
<1>5. \A g \in Helpers : g # h => w.hs[g].pending # c
      BY <1>1, <1>3 DEF HelperFine
<1>. QED
  BY <1>2, <1>3, <1>4, <1>5 DEF Loose, Untied, AtHelper

\* failActive(), the ack timer and the end of a surface reject the input that waits.
LEMMA PendingRejectedFine ==
    ASSUME NEW w, NEW H \in SUBSET Helpers, Fine(w, H), NEW h \in Helpers
    PROVE  LET v == PendingRejected(w, h) IN
           /\ Fine(v, H) /\ Grows(w, v) /\ v.lost = w.lost /\ SameQuery(w.hs[h], v.hs[h])
           /\ SameProcess(w.hs[h], v.hs[h]) /\ v.hs[h].authority = w.hs[h].authority
           /\ v.hs[h].failed = w.hs[h].failed
<1>1. CASE w.hs[h].pending = 0
      BY <1>1 DEF PendingRejected, Grows, Akin, Kin, SameQuery, SameProcess
<1>2. CASE w.hs[h].pending # 0
  <2>1. w.hs[h].pending \in Calls /\ Loose(w, h, w.hs[h].pending) /\ "plain" \in Outcomes
        BY <1>2, PendingLoose DEF Outcomes
  <2>2. PendingRejected(w, h) = InputEnds(w, h, w.hs[h].pending, "plain")
        BY <1>2 DEF PendingRejected
  <2>. QED
    BY <2>1, <2>2, InputEndsFine
<1>. QED
  BY <1>1, <1>2

\* The captures that wait for a frame of the helper are rejected.
LEMMA WaitersRejectedFine ==
    ASSUME NEW w, NEW H \in SUBSET Helpers, Fine(w, H), NEW h \in Helpers
    PROVE  LET v == WaitersRejected(w, h) IN
           Fine(v, H) /\ Grows(w, v) /\ v.hs = w.hs /\ v.lost = w.lost
<1> DEFINE v == WaitersRejected(w, h)
           how == IF w.lost /\ ~Linux THEN "authority" ELSE "plain"
           Rejected(c) == w.cs[c].helper = h /\ w.cs[c].pc = "waiting"
<1>1. IsWorld(w) /\ w.lost \in BOOLEAN /\ how \in Outcomes
      BY DEF Fine, IsWorld, Outcomes
<1>2. /\ DOMAIN v = {"hs", "cs", "lost"} /\ v.hs = w.hs /\ v.lost = w.lost
      /\ v.cs = [c \in Calls |-> IF Rejected(c) THEN Ended(w.cs, c, how)[c] ELSE w.cs[c]]
      BY <1>1 DEF WaitersRejected, IsWorld
<1> HIDE DEF how
<1>3. \A c \in Calls : Left(Ended(w.cs, c, how)[c])
  <2>1. ASSUME NEW c \in Calls PROVE Left(Ended(w.cs, c, how)[c])
    <3>1. \E x : Ended(w.cs, c, how) = [w.cs EXCEPT ![c] = x] /\ Left(x)
          BY ONLY <1>1, <2>1, EndedFacts
    <3>. QED
      BY <1>1, <3>1 DEF IsWorld
  <2>. QED
    BY <2>1
<1> HIDE DEF v
<1>4. /\ v.cs \in [Calls -> CallRecord]
      /\ \A c \in Calls : IF Rejected(c) THEN Left(v.cs[c]) ELSE v.cs[c] = w.cs[c]
      BY <1>1, <1>2, <1>3 DEF IsWorld, Left
<1>5. Fine(v, H) /\ Akin(w, v)
      BY <1>1, <1>2, <1>4, LeftFine, CallsMove
<1>6. Grows(w, v)
      BY <1>4, <1>5 DEF Grows, AtHelper
<1>. QED
  BY <1>2, <1>5, <1>6 DEF v

\* failActive(): the helper has failed, and its process is ended.
Failing(r) == [r EXCEPT !.failed = TRUE, !.host = "down", !.commands = <<>>]

\* failActive(): the input under way and the captures that wait end, then the process does.
LEMMA FailActiveFine ==
    ASSUME NEW w, NEW H \in SUBSET Helpers, Fine(w, H), NEW h \in Helpers,
           w.hs[h].host # "none"
    PROVE  LET v == FailActive(w, h) IN
           Fine(v, H) /\ Grows(w, v) /\ v.lost = w.lost /\ SameQuery(w.hs[h], v.hs[h])
<1>1. CASE w.hs[h].failed
      BY <1>1 DEF FailActive, Grows, Akin, Kin, SameQuery
<1>2. CASE ~w.hs[h].failed
  <2> DEFINE u == WaitersRejected(PendingRejected(w, h), h)
             v == FailActive(w, h)
  <2>1. /\ Fine(u, H) /\ Grows(w, u) /\ u.lost = w.lost /\ SameQuery(w.hs[h], u.hs[h])
        /\ SameProcess(w.hs[h], u.hs[h])
        BY PendingRejectedFine, WaitersRejectedFine, GrowsOn DEF SameQuery, SameProcess
  <2>2. v = [u EXCEPT !.hs[h].failed = TRUE, !.hs[h].host = "down", !.hs[h].commands = <<>>]
        BY <1>2 DEF FailActive
  <2> HIDE DEF u, v
  <2>3. Edited(u, v, h, Failing(u.hs[h]), u.cs)
        BY <2>1, <2>2 DEF Edited, Fine, IsWorld, Failing
  <2>4. /\ IsHelper(u.hs[h]) /\ (h \in H => QueryFine(u.hs[h], u.cs)) /\ u.hs[h].host # "none"
        /\ u.hs[h].asked => u.hs[h].asking # <<>>
        BY <2>1 DEF Fine, IsWorld, SameProcess, HelperFine
  <2>5. /\ IsHelper(Failing(u.hs[h])) /\ Kin(u.hs[h], Failing(u.hs[h]))
        /\ SameQuery(u.hs[h], Failing(u.hs[h]))
        /\ Failing(u.hs[h]).pending = u.hs[h].pending
    <3>1. u.hs[h] \in HelperRecord(u.hs[h].chain) /\ <<>> \in Seq(Calls)
          BY <2>4 DEF IsHelper
    <3>2. /\ Failing(u.hs[h]) \in HelperRecord(u.hs[h].chain)
          /\ Failing(u.hs[h]).chain = u.hs[h].chain
          BY <3>1 DEF HelperRecord, Failing
    <3>3. /\ SameQuery(u.hs[h], Failing(u.hs[h])) /\ Failing(u.hs[h]).host = "down"
          /\ Failing(u.hs[h]).target = u.hs[h].target
          /\ Failing(u.hs[h]).pending = u.hs[h].pending
          BY <3>1 DEF HelperRecord, Failing, SameQuery
    <3>. QED
      BY <2>4, <3>2, <3>3 DEF IsHelper, Kin, SameQuery
  <2>6. h \in H => QueryFine(Failing(u.hs[h]), u.cs)
    <3>1. HelperFine(u.hs[h], h, u.cs) /\ u.hs[h].late \in BOOLEAN
          BY <2>1, <2>4, HelperFields DEF Fine
    <3>. QED
      BY <2>4, <2>5, <3>1, QueryKept DEF SameQuery, HelperFine
  <2>7. Fine(v, H) /\ Grows(u, v)
        BY <2>1, <2>3, <2>4, <2>5, <2>6, HelperChanges DEF SameQuery
  <2>8. SameQuery(w.hs[h], v.hs[h]) /\ v.lost = w.lost
        BY <2>1, <2>3, <2>5 DEF Edited, SameQuery
  <2>. QED
    BY <2>1, <2>7, <2>8, GrowsOn DEF v
<1>. QED
  BY <1>1, <1>2

\* LinuxWindowAuthorityHelper.close()
Closing(r) == [r EXCEPT !.authority = "closed", !.pipe = <<>>]

\* close() of the authority helper: the query under way fails, and its answers are dropped.
LEMMA AuthorityClosesFine ==
    ASSUME NEW w, Fine(w, Helpers), NEW h \in Helpers
    PROVE  LET v == AuthorityCloses(w, h) IN
           Fine(v, Helpers) /\ Grows(w, v) /\ v.lost = w.lost /\ SameProcess(w.hs[h], v.hs[h])
<1> DEFINE v == AuthorityCloses(w, h)
           u == IF w.hs[h].asked THEN QueryFails(w, h, "plain") ELSE w
           H == Helpers \ {h}
<1>1. CASE w.hs[h].authority # "up"
      BY <1>1 DEF AuthorityCloses, Grows, Akin, Kin, SameProcess
<1>2. CASE w.hs[h].authority = "up"
  <2>1. v = [u EXCEPT !.hs[h].authority = "closed", !.hs[h].pipe = <<>>]
        BY <1>2 DEF AuthorityCloses
  <2>2. Fine(w, H) /\ H \in SUBSET Helpers /\ h \in Helpers \ H /\ "plain" \in Outcomes
        BY DEF Fine, Outcomes
  <2>3. /\ Fine(u, H) /\ Grows(w, u) /\ u.lost = w.lost /\ u.hs[h].asked = FALSE
        /\ SameProcess(w.hs[h], u.hs[h])
    <3>1. CASE w.hs[h].asked
      <4>1. w.hs[h].asking # <<>>
            BY <3>1 DEF Fine, HelperFine
      <4>. QED
        BY <2>2, <3>1, <4>1, QueryFailsFine
    <3>2. CASE ~w.hs[h].asked
      <4>1. w.hs[h].asked = FALSE
            BY <3>2, HelperFields DEF Fine, IsWorld
      <4>. QED
        BY <2>2, <3>2, <4>1 DEF Grows, Akin, Kin, SameProcess
    <3>. QED
      BY <3>1, <3>2
  <2> HIDE DEF u, v, H
  <2>4. Edited(u, v, h, Closing(u.hs[h]), u.cs)
        BY <2>1, <2>3 DEF Edited, Fine, IsWorld, Closing
  <2>5. /\ IsHelper(Closing(u.hs[h])) /\ Kin(u.hs[h], Closing(u.hs[h]))
        /\ SameProcess(u.hs[h], Closing(u.hs[h]))
        /\ Closing(u.hs[h]).pending = u.hs[h].pending /\ Closing(u.hs[h]).asking = u.hs[h].asking
        /\ Closing(u.hs[h]).asked = FALSE /\ Closing(u.hs[h]).pipe = <<>>
    <3>1. u.hs[h] \in HelperRecord(u.hs[h].chain) /\ <<>> \in Seq({"none", "ok", "lost"})
          BY <2>3 DEF Fine, IsWorld, IsHelper
    <3>2. /\ Closing(u.hs[h]) \in HelperRecord(u.hs[h].chain)
          /\ Closing(u.hs[h]).chain = u.hs[h].chain
          BY <3>1 DEF HelperRecord, Closing
    <3>3. /\ SameProcess(u.hs[h], Closing(u.hs[h])) /\ Closing(u.hs[h]).late = u.hs[h].late
          /\ Closing(u.hs[h]).pending = u.hs[h].pending /\ Closing(u.hs[h]).asking = u.hs[h].asking
          /\ Closing(u.hs[h]).asked = FALSE /\ Closing(u.hs[h]).pipe = <<>>
          BY <2>3, <3>1 DEF HelperRecord, Closing, SameProcess
    <3>. QED
      BY <3>2, <3>3 DEF IsHelper, Kin, SameProcess
  <2>6. QueryFine(Closing(u.hs[h]), u.cs)
        BY <2>5 DEF QueryFine
  <2>7. Fine(v, Helpers) /\ Grows(u, v)
    <3>1. \A g \in Helpers : g # h => g \in H
          BY DEF H
    <3>. QED
      BY <2>2, <2>3, <2>4, <2>5, <2>6, <3>1, HelperChanges
  <2>. QED
    BY <2>3, <2>4, <2>5, <2>7, GrowsOn DEF Edited, SameProcess, v
<1>. QED
  BY <1>1, <1>2

\* stopActive(), its beginning and its end.
ToldToStop(r) == [r EXCEPT !.stopping = TRUE]
Dying(r) == [r EXCEPT !.host = IF @ = "up" THEN "dying" ELSE @]

\* A helper that is told to stop, or that is ending.
LEMMA ProcessFacts ==
    ASSUME NEW r, IsHelper(r)
    PROVE  /\ IsHelper(ToldToStop(r)) /\ SameQuery(r, ToldToStop(r)) /\ Kin(r, ToldToStop(r))
           /\ ToldToStop(r).pending = r.pending /\ ToldToStop(r).stopping = TRUE
           /\ IsHelper(Dying(r)) /\ SameQuery(r, Dying(r)) /\ Kin(r, Dying(r))
           /\ Dying(r).pending = r.pending
<1>1. r \in HelperRecord(r.chain)
      BY DEF IsHelper
<1>2. /\ ToldToStop(r) \in HelperRecord(r.chain) /\ ToldToStop(r).chain = r.chain
      /\ ToldToStop(r).stopping = TRUE /\ ToldToStop(r).pending = r.pending
      /\ SameQuery(r, ToldToStop(r)) /\ Kin(r, ToldToStop(r))
      BY <1>1 DEF HelperRecord, ToldToStop, SameQuery, Kin
<1>3. /\ Dying(r) \in HelperRecord(r.chain) /\ Dying(r).chain = r.chain
      /\ Dying(r).pending = r.pending /\ SameQuery(r, Dying(r)) /\ Kin(r, Dying(r))
      BY <1>1 DEF HelperRecord, Dying, SameQuery, Kin
<1>. QED
  BY <1>2, <1>3 DEF IsHelper

\* A helper of which only the process changes.
LEMMA ProcessChanges ==
    ASSUME NEW w, Fine(w, Helpers), NEW h \in Helpers, NEW r, IsHelper(r), Kin(w.hs[h], r),
           SameQuery(w.hs[h], r), r.pending = w.hs[h].pending, NEW v, Edited(w, v, h, r, w.cs)
    PROVE  Fine(v, Helpers) /\ Grows(w, v)
<1>1. /\ IsHelper(w.hs[h]) /\ QueryFine(w.hs[h], w.cs)
      /\ w.hs[h].asked => w.hs[h].asking # <<>>
      BY DEF Fine, IsWorld, HelperFine
<1>2. r.late \in BOOLEAN
      BY HelperFields
<1>3. QueryFine(r, w.cs)
      BY <1>1, <1>2, QueryKept DEF SameQuery
<1>. QED
  BY <1>1, <1>3, HelperChanges DEF SameQuery

\* stopActive() begins.
LEMMA StopBeginsFine ==
    ASSUME NEW w, Fine(w, Helpers), NEW h \in Helpers
    PROVE  LET v == StopBegins(w, h) IN
           Fine(v, Helpers) /\ Grows(w, v) /\ v.lost = w.lost /\ v.hs[h].stopping = TRUE
<1> DEFINE u == IF Linux THEN w ELSE PendingRejected(w, h)
           v == StopBegins(w, h)
<1>1. Fine(u, Helpers) /\ Grows(w, u) /\ u.lost = w.lost
      BY PendingRejectedFine DEF Grows, Akin, Kin
<1>2. v = [u EXCEPT !.hs[h].stopping = TRUE]
      BY DEF StopBegins
<1> HIDE DEF u, v
<1>3. Edited(u, v, h, ToldToStop(u.hs[h]), u.cs)
      BY <1>1, <1>2 DEF Edited, Fine, IsWorld, ToldToStop
<1>4. IsHelper(u.hs[h])
      BY <1>1 DEF Fine, IsWorld
<1>5. Fine(v, Helpers) /\ Grows(u, v)
      BY <1>1, <1>3, <1>4, ProcessFacts, ProcessChanges
<1>6. v.lost = w.lost /\ v.hs[h].stopping = TRUE
      BY <1>1, <1>3, <1>4, ProcessFacts DEF Edited
<1>. QED
  BY <1>1, <1>5, <1>6, GrowsOn DEF v

\* stopActive() is over: the authority helper is closed and the process was killed.
LEMMA StopEndsFine ==
    ASSUME NEW w, Fine(w, Helpers), NEW h \in Helpers
    PROVE  LET v == StopEnds(w, h) IN Fine(v, Helpers) /\ Grows(w, v) /\ v.lost = w.lost
<1> DEFINE u == AuthorityCloses(w, h)
           v == StopEnds(w, h)
<1>1. Fine(u, Helpers) /\ Grows(w, u) /\ u.lost = w.lost
      BY AuthorityClosesFine
<1>2. v = [u EXCEPT !.hs[h].host = IF @ = "up" THEN "dying" ELSE @]
      BY DEF StopEnds
<1> HIDE DEF u, v
<1>3. Edited(u, v, h, Dying(u.hs[h]), u.cs)
      BY <1>1, <1>2 DEF Edited, Fine, IsWorld, Dying
<1>4. IsHelper(u.hs[h])
      BY <1>1 DEF Fine, IsWorld
<1>5. Fine(v, Helpers) /\ Grows(u, v)
      BY <1>1, <1>3, <1>4, ProcessFacts, ProcessChanges
<1>. QED
  BY <1>1, <1>3, <1>5, GrowsOn DEF v, Edited

\* The time of an acknowledgement is over.
LEMMA AckExpiresFine ==
    ASSUME NEW w, Fine(w, Helpers), NEW h \in Helpers, w.hs[h].host # "none"
    PROVE  LET v == AckExpires(w, h) IN Fine(v, Helpers) /\ Grows(w, v) /\ v.lost = w.lost
<1> DEFINE u == PendingRejected(w, h)
<1>1. Fine(u, Helpers) /\ Grows(w, u) /\ u.lost = w.lost /\ u.hs[h].host # "none"
      BY PendingRejectedFine DEF SameProcess
<1> HIDE DEF u
<1>2. LET v == FailActive(u, h) IN Fine(v, Helpers) /\ Grows(u, v) /\ v.lost = u.lost
      BY <1>1, FailActiveFine
<1>3. LET v == FailActive(u, h) IN Fine(v, Helpers) /\ Grows(w, v) /\ v.lost = w.lost
      BY <1>1, <1>2, GrowsOn
<1>. QED
  BY <1>1, <1>3 DEF AckExpires, u

\* #authorityBoundary becomes "lost": neither helpers nor uses change by it.
LEMMA LossFine ==
    ASSUME NEW w, Fine(w, Helpers), NEW b \in BOOLEAN
    PROVE  LET v == [w EXCEPT !.lost = b] IN
           Fine(v, Helpers) /\ Grows(w, v) /\ v.hs = w.hs /\ v.cs = w.cs /\ v.lost = b
<1> DEFINE v == [w EXCEPT !.lost = b]
<1>1. DOMAIN v = {"hs", "cs", "lost"} /\ v.hs = w.hs /\ v.cs = w.cs /\ v.lost = b
      BY DEF Fine, IsWorld
<1>2. w.cs \in [Calls -> CallRecord] /\ v.lost \in BOOLEAN
      BY <1>1 DEF Fine, IsWorld
<1> HIDE DEF v
<1>3. Fine(v, Helpers) /\ Akin(w, v)
      BY <1>1, <1>2, CallsMove
<1>. QED
  BY <1>1, <1>3 DEF Grows, v
-----------------------------------------------------------------------------
(* Uses that go on.                                                        *)

\* A use that neither waits for an answer of the authority helper nor for an
\* acknowledgement is in no queue of queries and in no helper's pending input.
LEMMA Elsewhere ==
    ASSUME NEW w, NEW H \in SUBSET Helpers, Fine(w, H), NEW c \in Calls,
           w.cs[c].pc \notin {"asking", "acking"}
    PROVE  \A h \in Helpers : Untied(w, h, c) /\ OnlyQueued(w, h, c)
<1>1. \A g \in Helpers : HelperFine(w.hs[g], g, w.cs)
      BY DEF Fine
<1>2. c # 0
      BY SurfaceAssumption DEF Calls
<1>3. \A g \in Helpers : \A i \in 1..Len(w.hs[g].asking) : w.hs[g].asking[i] # c
      BY <1>1 DEF HelperFine
<1>4. \A g \in Helpers : w.hs[g].pending # c
      BY <1>1, <1>2 DEF HelperFine
<1>. QED
  BY <1>3, <1>4 DEF Untied, OnlyQueued

\* query(): a use joins the query chain of its authority helper.
Queued(r, c) == [r EXCEPT !.asking = Append(@, c)]

\* A helper with one more query in its queue.
LEMMA AsksFacts ==
    ASSUME NEW r, IsHelper(r), NEW c \in Calls
    PROVE  LET s == Queued(r, c) IN
           /\ IsHelper(s) /\ s.asking = Append(r.asking, c) /\ s.asked = r.asked /\ s.pipe = r.pipe
           /\ s.late = r.late /\ s.pending = r.pending /\ SameProcess(r, s)
<1>1. r \in HelperRecord(r.chain) /\ Append(r.asking, c) \in Seq(Calls)
      BY HelperFields DEF IsHelper
<1>2. Queued(r, c).chain = r.chain
      BY <1>1 DEF HelperRecord, Queued
<1>. QED
  BY <1>1, <1>2 DEF IsHelper, HelperRecord, Queued, SameProcess

\* A use that asks is the last in the queue of its helper.
LEMMA Enqueued ==
    ASSUME NEW w, Fine(w, Helpers), NEW h \in Helpers, NEW c \in Calls,
           w.cs[c].pc \notin {"asking", "acking"}, NEW x \in CallRecord, x.pc = "asking", x.helper = h,
           NEW v, Edited(w, v, h, Queued(w.hs[h], c), [w.cs EXCEPT ![c] = x]), CallFine(x, v.hs)
    PROVE  Fine(v, Helpers) /\ Akin(w, v) /\ (w.cs[c].pc \in AtHelper => Grows(w, v))
<1> DEFINE q == w.hs[h].asking
           r == Queued(w.hs[h], c)
<1>1. /\ IsWorld(w)
      /\ \A g \in Helpers : /\ IsHelper(w.hs[g]) /\ HelperFine(w.hs[g], g, w.cs)
                            /\ QueryFine(w.hs[g], w.cs)
      BY DEF Fine, IsWorld
<1>2. /\ IsHelper(r) /\ r.asking = Append(q, c) /\ r.asked = w.hs[h].asked
      /\ r.pipe = w.hs[h].pipe /\ r.late = w.hs[h].late
      /\ r.pending = w.hs[h].pending /\ SameProcess(w.hs[h], r)
      BY <1>1, AsksFacts
<1> HIDE DEF r
<1>3. /\ q \in Seq(Calls) /\ Len(q) \in Nat /\ Len(r.asking) = Len(q) + 1
      /\ \A i \in 1..Len(q) : r.asking[i] = q[i]
      /\ r.asking[Len(q) + 1] = c
      BY <1>1, <1>2, HelperFields
<1>4. /\ v.hs[h] = r /\ v.cs \in [Calls -> CallRecord] /\ v.cs[c] = x
      /\ \A g \in Helpers : g # h => v.hs[g] = w.hs[g]
      /\ \A d \in Calls : d # c => v.cs[d] = w.cs[d]
      BY <1>1 DEF Edited, IsWorld, r
<1>5. IsWorld(v)
      BY <1>1, <1>2, <1>4 DEF IsWorld, Edited
<1>6. Akin(w, v)
      BY <1>2, <1>4 DEF Akin, Kin, SameProcess
<1>7. /\ \A g \in Helpers : \A i \in 1..Len(w.hs[g].asking) :
              w.hs[g].asking[i] # c /\ w.hs[g].asking[i] \in Calls
      /\ \A g \in Helpers : w.hs[g].pending # c /\ (w.hs[g].pending # 0 => w.hs[g].pending \in Calls)
  <2>1. \A g \in Helpers : Untied(w, g, c) /\ OnlyQueued(w, g, c)
        BY Elsewhere
  <2>. QED
    BY <1>1, <2>1, HelperFields DEF Untied, OnlyQueued
<1>8. HelperFine(r, h, v.cs)
  <2>1. /\ \A i \in 1..Len(q) : w.cs[q[i]].pc = "asking" /\ w.cs[q[i]].helper = h
        /\ \A i, j \in 1..Len(q) : q[i] = q[j] => i = j
        /\ r.pending # 0 => w.cs[r.pending].pc = "acking" /\ w.cs[r.pending].helper = h
        BY <1>1, <1>2 DEF HelperFine
  <2>2. ASSUME NEW i \in 1..Len(r.asking)
        PROVE  v.cs[r.asking[i]].pc = "asking" /\ v.cs[r.asking[i]].helper = h
    <3>1. i \in 1..Len(q) \/ i = Len(q) + 1
      <4>1. Len(q) \in Nat /\ Len(r.asking) = Len(q) + 1
            BY <1>3
      <4>. QED
        BY <2>2, <4>1
    <3>2. CASE i \in 1..Len(q)
      <4>1. r.asking[i] = q[i] /\ q[i] # c /\ q[i] \in Calls
            BY <1>3, <1>7, <3>2
      <4>. QED
        BY <1>4, <2>1, <3>2, <4>1
    <3>3. CASE i = Len(q) + 1
          BY <1>3, <1>4, <3>3
    <3>. QED
      BY <3>1, <3>2, <3>3
  <2>3. ASSUME NEW i \in 1..Len(r.asking), NEW j \in 1..Len(r.asking), r.asking[i] = r.asking[j]
        PROVE  i = j
    <3>1. CASE i \in 1..Len(q) /\ j \in 1..Len(q)
          BY <1>3, <2>1, <2>3, <3>1
    <3>2. CASE i \in 1..Len(q) /\ j = Len(q) + 1
          BY <1>3, <1>7, <2>3, <3>2
    <3>3. CASE i = Len(q) + 1 /\ j \in 1..Len(q)
          BY <1>3, <1>7, <2>3, <3>3
    <3>. QED
      BY <1>3, <3>1, <3>2, <3>3
  <2>4. r.pending # 0 => v.cs[r.pending].pc = "acking" /\ v.cs[r.pending].helper = h
        BY <1>2, <1>4, <1>7, <2>1
  <2>5. r.asking # <<>>
        BY <1>3
  <2>. QED
    BY <2>2, <2>3, <2>4, <2>5 DEF HelperFine
<1>9. ASSUME NEW g \in Helpers PROVE HelperFine(v.hs[g], g, v.cs)
  <2>1. CASE g = h
        BY <1>4, <1>8, <2>1
  <2>2. CASE g # h
    <3>1. \A d \in Calls : w.cs[d].pc \in {"asking", "acking"} => v.cs[d] = w.cs[d]
          BY <1>4
    <3>. QED
      BY <1>1, <1>4, <2>2, <3>1, HelperKept
  <2>. QED
    BY <2>1, <2>2
<1>10. ASSUME NEW g \in Helpers PROVE QueryFine(v.hs[g], v.cs)
  <2>1. w.hs[g].asked => w.hs[g].asking # <<>> /\ Len(w.hs[g].asking) \in Nat
        BY <1>1, HelperFields DEF HelperFine
  <2>2. CASE g = h
    <3>1. r.asked => 1 \in 1..Len(q)
          BY <1>2, <1>3, <2>1, <2>2
    <3>2. r.asked => r.asking[1] = q[1] /\ v.cs[q[1]] = w.cs[q[1]]
          BY <1>3, <1>4, <1>7, <3>1
    <3>3. QueryFine(w.hs[h], w.cs)
          BY <1>1
    <3>4. QueryFine(r, v.cs)
          BY <1>2, <3>2, <3>3 DEF QueryFine
    <3>. QED
      BY <1>4, <2>2, <3>4
  <2>3. CASE g # h
    <3>1. /\ \A i \in 1..Len(w.hs[g].asking) : v.cs[w.hs[g].asking[i]] = w.cs[w.hs[g].asking[i]]
          /\ w.hs[g].late \in BOOLEAN
          BY <1>1, <1>4, <1>7, HelperFields
    <3>. QED
      BY <1>1, <1>4, <2>1, <2>3, <3>1, QueryKept
  <2>. QED
    BY <2>2, <2>3
<1>11. \A d \in Calls : v.cs[d] = w.cs[d] \/ CallFine(v.cs[d], v.hs)
      BY <1>4
<1>12. Fine(v, Helpers)
      BY <1>5, <1>6, <1>9, <1>10, <1>11, Moves
<1>13. w.cs[c].pc \in AtHelper => Grows(w, v)
      BY <1>4, <1>6 DEF Grows
<1>. QED
  BY <1>6, <1>12, <1>13

\* A use that gets a record of its own, and no helper changes.
LEMMA UseChanges ==
    ASSUME NEW w, Fine(w, Helpers), NEW c \in Calls, w.cs[c].pc \notin {"asking", "acking"},
           NEW x \in CallRecord, CallFine(x, w.hs),
           NEW v, v = [w EXCEPT !.cs = [w.cs EXCEPT ![c] = x]]
    PROVE  /\ Fine(v, Helpers) /\ Akin(w, v) /\ v.hs = w.hs /\ v.lost = w.lost
           /\ \A d \in Calls : d # c => v.cs[d] = w.cs[d]
           /\ v.cs[c] = x /\ (w.cs[c].pc \in AtHelper => Grows(w, v))
<1>1. IsWorld(w)
      BY DEF Fine
<1>2. /\ DOMAIN v = {"hs", "cs", "lost"} /\ v.hs = w.hs /\ v.lost = w.lost
      /\ v.cs \in [Calls -> CallRecord] /\ v.cs[c] = x /\ v.lost \in BOOLEAN
      /\ \A d \in Calls : d # c => v.cs[d] = w.cs[d]
      BY <1>1 DEF IsWorld
<1>3. Fine(v, Helpers) /\ Akin(w, v)
      BY <1>2, CallsMove
<1>. QED
  BY <1>2, <1>3 DEF Grows

\* A use that is about to go on, at the helper h or where it is.
AtIt(x, h, p) == [x EXCEPT !.helper = h, !.fresh = FALSE, !.pc = p]
AskingAt(x, h, b) == [x EXCEPT !.helper = h, !.fresh = FALSE, !.pc = "asking", !.held = b]
Asking(x, b) == [x EXCEPT !.pc = "asking", !.held = b]
Now(x, p) == [x EXCEPT !.pc = p]
SameUse(x, y) == y.kind = x.kind /\ y.target = x.target

\* The fields of a use that arrives at a helper.
LEMMA AtItFields ==
    ASSUME NEW x \in CallRecord, NEW h \in Helpers, NEW p \in Waits
    PROVE  /\ AtIt(x, h, p) \in CallRecord /\ AtIt(x, h, p).pc = p /\ AtIt(x, h, p).helper = h
           /\ SameUse(x, AtIt(x, h, p))
<1>1. h \in 0..MaxHelpers
      BY SurfaceAssumption DEF Helpers
<1>. QED
  BY <1>1 DEF CallRecord, AtIt, SameUse

\* The fields of a use that asks.
LEMMA AskingFields ==
    ASSUME NEW x \in CallRecord, NEW h \in Helpers, NEW b \in BOOLEAN
    PROVE  /\ AskingAt(x, h, b) \in CallRecord /\ AskingAt(x, h, b).pc = "asking"
           /\ AskingAt(x, h, b).helper = h /\ AskingAt(x, h, b).held = b
           /\ SameUse(x, AskingAt(x, h, b))
           /\ Asking(x, b) \in CallRecord /\ Asking(x, b).pc = "asking"
           /\ Asking(x, b).helper = x.helper /\ Asking(x, b).held = b
           /\ SameUse(x, Asking(x, b))
<1>1. h \in 0..MaxHelpers
      BY SurfaceAssumption DEF Helpers
<1>. QED
  BY <1>1 DEF CallRecord, AskingAt, Asking, SameUse, Waits

\* The fields of a use that moves on.
LEMMA NowFields ==
    ASSUME NEW x \in CallRecord, NEW p \in Waits
    PROVE  /\ Now(x, p) \in CallRecord /\ Now(x, p).pc = p /\ Now(x, p).helper = x.helper
           /\ Now(x, p).held = x.held /\ SameUse(x, Now(x, p))
  BY DEF CallRecord, Now, SameUse

\* A helper whose chain of inputs changes.
LEMMA ChainFacts ==
    ASSUME NEW r, IsHelper(r), NEW q
    PROVE  LET s == [r EXCEPT !.chain = q] IN
           IsHelper(s) /\ SameQuery(r, s) /\ SameProcess(r, s) /\ s.pending = r.pending
<1>1. r \in HelperRecord(r.chain)
      BY DEF IsHelper
<1>2. [r EXCEPT !.chain = q] \in HelperRecord(q) /\ [r EXCEPT !.chain = q].chain = q
      BY <1>1 DEF HelperRecord
<1>. QED
  BY <1>1, <1>2 DEF IsHelper, HelperRecord, SameQuery, SameProcess

\* captureExactWindow(), captureLatestExactWindow() and #input() go on at the helper h.
LEMMA ProceedFine ==
    ASSUME NEW w, Fine(w, Helpers), NEW c \in Calls, w.cs[c].pc \in {"ensure", "owning"},
           NEW h \in Helpers, w.hs[h].host # "none", w.hs[h].target = w.cs[c].target,
           NEW replaced \in BOOLEAN
    PROVE  LET v == Proceed(w, c, h, replaced) IN
           /\ Fine(v, Helpers) /\ Akin(w, v) /\ v.lost = w.lost
           /\ \A d \in Calls : d # c => v.cs[d] = w.cs[d]
<1> DEFINE x(p) == AtIt(w.cs[c], h, p)
           b == w.cs[c].target \in valid
           y == AskingAt(w.cs[c], h, b)
           v == Proceed(w, c, h, replaced)
           k == w.cs[c].kind
<1>1. /\ IsWorld(w) /\ w.cs[c] \in CallRecord /\ IsHelper(w.hs[h])
      /\ w.cs[c].pc \notin {"asking", "acking"} /\ w.cs[c].pc \notin AtHelper
      /\ k \in (IF Linux THEN {"capture", "input"} ELSE UseKinds)
      BY DEF Fine, IsWorld, CallFine, Waits, AtHelper
<1>2. CASE k = "input"
  <2>1. /\ x("queued") \in CallRecord /\ x("queued").pc = "queued" /\ x("queued").helper = h
        /\ SameUse(w.cs[c], x("queued"))
    <3>1. "queued" \in Waits
          BY DEF Waits
    <3>. QED
      BY <1>1, <3>1, AtItFields
  <2> DEFINE r == [w.hs[h] EXCEPT !.chain = Append(@, c)]
  <2>2. /\ IsHelper(r) /\ SameQuery(w.hs[h], r) /\ SameProcess(w.hs[h], r)
        /\ r.pending = w.hs[h].pending
        BY <1>1, ChainFacts
  <2>3. Edited(w, v, h, r, [w.cs EXCEPT ![c] = x("queued")])
        BY <1>1, <1>2 DEF Proceed, Edited, IsWorld, AtIt
  <2> HIDE DEF r, v, x
  <2>4. CallFine(x("queued"), v.hs)
    <3>1. v.hs[h] = r
          BY <2>3 DEF Edited
    <3>. QED
      BY <1>1, <2>1, <2>2, <3>1 DEF CallFine, SameProcess, SameUse, AtHelper
  <2>5. Untied(w, h, c) /\ r.pending # c /\ Kin(w.hs[h], r)
        BY <1>1, <2>2, Elsewhere DEF OnlyQueued, SameProcess, SameQuery, Kin
  <2>6. Fine(v, Helpers) /\ Akin(w, v)
        BY <2>1, <2>2, <2>3, <2>4, <2>5, UseMoves
  <2>. QED
    BY <1>1, <2>3, <2>6 DEF Edited, IsWorld, v
<1>3. CASE k = "capture" /\ Linux
  <2>1. /\ y \in CallRecord /\ y.pc = "asking" /\ y.helper = h
        /\ SameUse(w.cs[c], y) /\ y.held = b
    <3>1. b \in BOOLEAN
          OBVIOUS
    <3> HIDE DEF b
    <3>. QED
      BY <1>1, <3>1, AskingFields
  <2>2. Edited(w, v, h, Queued(w.hs[h], c), [w.cs EXCEPT ![c] = y])
        BY <1>1, <1>3 DEF Proceed, Edited, IsWorld, Queued, AskingAt
  <2> HIDE DEF v, y
  <2>3. CallFine(y, v.hs)
    <3>1. v.hs[h] = Queued(w.hs[h], c) /\ SameProcess(w.hs[h], Queued(w.hs[h], c))
          BY <1>1, <2>2, AsksFacts DEF Edited
    <3>. QED
      BY <1>1, <2>1, <3>1 DEF CallFine, SameProcess, SameUse, AtHelper
  <2>4. Fine(v, Helpers) /\ Akin(w, v)
        BY <1>1, <2>1, <2>2, <2>3, Enqueued
  <2>. QED
    BY <1>1, <2>2, <2>4 DEF Edited, IsWorld, v
<1>4. CASE k # "input" /\ ~(k = "capture" /\ Linux)
  <2>1. ~Linux
        BY <1>1, <1>4
  <2>2. CASE w.hs[h].framed /\ (k = "latest" \/ replaced)
    <3>1. PICK z : Left(z) /\ EndedFinally(w.cs, c, "done") = [w.cs EXCEPT ![c] = z]
      <4>1. "done" \in Outcomes
            BY DEF Outcomes
      <4>. QED
        BY <1>1, <4>1, EndedFacts
    <3>2. v = [w EXCEPT !.cs = [w.cs EXCEPT ![c] = z]]
          BY <1>1, <1>4, <2>2, <3>1 DEF Proceed, IsWorld, EndedFinally
    <3> HIDE DEF v
    <3>3. z \in CallRecord /\ CallFine(z, w.hs)
          BY <3>1, LeftFine DEF Left
    <3>. QED
      BY <1>1, <3>2, <3>3, UseChanges DEF v
  <2>3. CASE ~(w.hs[h].framed /\ (k = "latest" \/ replaced))
    <3>1. v = [w EXCEPT !.cs = [w.cs EXCEPT ![c] = x("waiting")]]
          BY <1>1, <1>4, <2>3 DEF Proceed, IsWorld, AtIt
    <3>2. /\ x("waiting") \in CallRecord /\ x("waiting").pc = "waiting" /\ x("waiting").helper = h
          /\ SameUse(w.cs[c], x("waiting"))
      <4>1. "waiting" \in Waits
            BY DEF Waits
      <4>. QED
        BY <1>1, <4>1, AtItFields
    <3> HIDE DEF v, x
    <3>3. CallFine(x("waiting"), w.hs)
          BY <1>1, <2>1, <3>2 DEF CallFine, SameUse, AtHelper
    <3>. QED
      BY <1>1, <3>1, <3>2, <3>3, UseChanges DEF v
  <2>. QED
    BY <2>2, <2>3
<1>. QED
  BY <1>2, <1>3, <1>4
-----------------------------------------------------------------------------
(* The queries to the authority helper and their answers.                  *)

\* An input is written to its helper: it may be, where it has to be allowed.
WrittenTo(r, c) ==
    [r EXCEPT !.pending = c, !.commands = IF r.host = "down" THEN @ ELSE Append(@, c)]

\* A helper to which an input was written.
LEMMA WrittenToFacts ==
    ASSUME NEW r, IsHelper(r), NEW c \in Calls
    PROVE  LET s == WrittenTo(r, c) IN
           IsHelper(s) /\ SameQuery(r, s) /\ SameProcess(r, s) /\ s.pending = c
<1>1. r \in HelperRecord(r.chain) /\ c \in 0..MaxCalls
      BY SurfaceAssumption DEF IsHelper, Calls
<1>2. Append(r.commands, c) \in Seq(Calls)
      BY <1>1 DEF HelperRecord
<1>3. WrittenTo(r, c) \in HelperRecord(r.chain) /\ WrittenTo(r, c).chain = r.chain
      BY <1>1, <1>2 DEF HelperRecord, WrittenTo
<1>. QED
  BY <1>1, <1>3 DEF IsHelper, HelperRecord, WrittenTo, SameQuery, SameProcess

\* An input is written to its helper and waits for the answer.
LEMMA WrittenFine ==
    ASSUME NEW w, NEW H \in SUBSET Helpers, Fine(w, H), NEW h \in Helpers, NEW c \in Calls,
           w.cs[c].pc \in AtHelper, w.cs[c].helper = h, Untied(w, h, c),
           Linux /\ ~w.hs[h].late => w.cs[c].held
    PROVE  LET v == Written(w, h, c) IN
           Fine(v, H) /\ Grows(w, v) /\ v.lost = w.lost /\ SameQuery(w.hs[h], v.hs[h])
<1> DEFINE r == WrittenTo(w.hs[h], c)
           x == Now(w.cs[c], "acking")
           v == Written(w, h, c)
<1>1. /\ IsWorld(w) /\ IsHelper(w.hs[h]) /\ w.cs[c] \in CallRecord /\ w.cs[c].pc \in Waits
      /\ CallFine(w.cs[c], w.hs) /\ "acking" \in Waits
      BY DEF Fine, IsWorld, AtHelper, Waits
<1>2. Edited(w, v, h, r, [w.cs EXCEPT ![c] = x])
      BY <1>1 DEF Written, WrittenTo, Now, Edited, IsWorld
<1>3. IsHelper(r) /\ SameQuery(w.hs[h], r) /\ SameProcess(w.hs[h], r) /\ r.pending = c
      BY <1>1, WrittenToFacts
<1>4. /\ x \in CallRecord /\ x.pc = "acking" /\ x.helper = h /\ x.held = w.cs[c].held
      /\ SameUse(w.cs[c], x)
      BY <1>1, NowFields
<1> HIDE DEF r, x, v
<1>5. CallFine(x, v.hs)
  <2>1. v.hs[h] = r
        BY <1>2 DEF Edited
  <2>. QED
    BY <1>1, <1>3, <1>4, <2>1 DEF CallFine, SameProcess, SameQuery, SameUse, AtHelper
<1>6. Kin(w.hs[h], r)
      BY <1>3 DEF Kin, SameProcess, SameQuery
<1>7. Fine(v, H) /\ Grows(w, v)
      BY <1>2, <1>3, <1>4, <1>5, <1>6, UseMoves
<1>. QED
  BY <1>2, <1>3, <1>7 DEF Edited, v

\* A use leaves its helper, which stays as it is.
LEMMA UseEnds ==
    ASSUME NEW w, NEW H \in SUBSET Helpers, Fine(w, H), NEW h \in Helpers, NEW c \in Calls,
           Loose(w, h, c), OnlyQueued(w, h, c), NEW x, Left(x),
           NEW v, v = [w EXCEPT !.cs = [w.cs EXCEPT ![c] = x]]
    PROVE  Fine(v, H) /\ Grows(w, v) /\ v.hs = w.hs /\ v.lost = w.lost
<1>1. IsWorld(w) /\ IsHelper(w.hs[h])
      BY DEF Fine, IsWorld
<1>2. Edited(w, v, h, w.hs[h], [w.cs EXCEPT ![c] = x]) /\ v.hs = w.hs /\ v.lost = w.lost
      BY <1>1 DEF Edited, IsWorld
<1>3. SameQuery(w.hs[h], w.hs[h]) /\ Kin(w.hs[h], w.hs[h])
      BY DEF SameQuery, Kin
<1>. QED
  BY <1>1, <1>2, <1>3, UseLeaves DEF OnlyQueued

\* The use whose query was answered goes on.
LEMMA AllowedFine ==
    ASSUME NEW w, NEW h \in Helpers, Fine(w, Helpers \ {h}), w.hs[h].asking # <<>>,
           Linux /\ ~w.hs[h].late => w.cs[Head(w.hs[h].asking)].held
    PROVE  LET v == Allowed(w, h) IN
           /\ Fine(v, Helpers \ {h}) /\ Grows(w, v) /\ v.lost = w.lost
           /\ v.hs[h].asked = FALSE /\ v.hs[h].pipe = w.hs[h].pipe /\ v.hs[h].late = w.hs[h].late
<1> DEFINE H == Helpers \ {h}
           c == Head(w.hs[h].asking)
           u == [w EXCEPT !.hs[h].asking = Tail(@), !.hs[h].asked = FALSE]
           v == Allowed(w, h)
<1>1. Edited(w, u, h, NextQuery(w.hs[h]), w.cs)
      BY DEF Edited, Fine, IsWorld, NextQuery
<1>2. v = IF w.cs[c].kind = "input"
          THEN Written(u, h, c)
          ELSE IF w.hs[h].failed \/ active # h
          THEN LET n == [u EXCEPT !.cs = Ended(@, c, "plain")]
               IN  IF Retries(w.cs, c, "plain") THEN FailActive(n, h) ELSE n
          ELSE IF u.cs[c].fresh THEN [u EXCEPT !.cs = EndedFinally(@, c, "done")]
          ELSE [u EXCEPT !.cs[c].pc = "waiting"]
      BY DEF Allowed
<1> HIDE DEF u, v
<1>3. /\ Fine(u, H) /\ Grows(w, u) /\ c \in Calls /\ Loose(u, h, c) /\ OnlyQueued(u, h, c)
      /\ w.cs[c].pc = "asking" /\ w.cs[c].helper = h /\ h \in Helpers \ H
      BY <1>1, Dequeued
<1> HIDE DEF H
<1>4. /\ u.hs[h].asked = FALSE /\ u.hs[h].pipe = w.hs[h].pipe /\ u.hs[h].late = w.hs[h].late
      /\ SameProcess(w.hs[h], u.hs[h]) /\ u.lost = w.lost /\ u.cs = w.cs
      /\ Linux /\ ~w.hs[h].late => w.cs[c].held
  <2>1. u.lost = w.lost /\ u.cs = w.cs
        BY <1>1 DEF Edited
  <2>2. IsHelper(w.hs[h]) /\ u.hs[h] = NextQuery(w.hs[h])
        BY <1>1 DEF Edited, Fine, IsWorld
  <2> DEFINE n == NextQuery(w.hs[h])
  <2>3. /\ n.asked = FALSE /\ n.pipe = w.hs[h].pipe /\ n.late = w.hs[h].late
        /\ SameProcess(w.hs[h], n)
        BY <2>2, NextQueryFacts
  <2>. QED
    BY <2>1, <2>2, <2>3
<1> HIDE DEF c
<1>5. /\ IsWorld(u) /\ u.cs[c] \in CallRecord /\ u.cs[c].helper = h /\ u.cs[c].pc = "asking"
      /\ CallFine(u.cs[c], u.hs) /\ u.hs[h].host # "none" /\ H \in SUBSET Helpers
  <2>1. IsWorld(u) /\ u.cs[c] \in CallRecord /\ CallFine(u.cs[c], u.hs) /\ H \in SUBSET Helpers
        BY <1>3 DEF Fine, IsWorld, H
  <2>. QED
    BY <1>3, <1>4, <2>1 DEF CallFine, AtHelper
<1> DEFINE Goal(n) == /\ Fine(n, H) /\ Grows(u, n) /\ n.lost = u.lost
                      /\ SameQuery(u.hs[h], n.hs[h])
<1>6. ASSUME Goal(v)
      PROVE  /\ Fine(v, H) /\ Grows(w, v) /\ v.lost = w.lost
             /\ v.hs[h].asked = FALSE /\ v.hs[h].pipe = w.hs[h].pipe /\ v.hs[h].late = w.hs[h].late
      BY <1>3, <1>4, <1>6, GrowsOn DEF SameQuery
<1>7. CASE w.cs[c].kind = "input"
  <2>1. /\ u.cs[c].pc \in AtHelper /\ u.cs[c].helper = h /\ Untied(u, h, c)
        /\ Linux /\ ~u.hs[h].late => u.cs[c].held
        BY <1>3, <1>4 DEF Loose
  <2>2. v = Written(u, h, c)
        BY <1>2, <1>7
  <2>3. Goal(v)
        BY <1>3, <1>5, <2>1, <2>2, WrittenFine
  <2>. QED
    BY <1>6, <2>3 DEF v, H
<1>8. CASE w.cs[c].kind # "input" /\ (w.hs[h].failed \/ active # h)
  <2> DEFINE n == [u EXCEPT !.cs = Ended(u.cs, c, "plain")]
  <2>1. PICK x : Ended(u.cs, c, "plain") = [u.cs EXCEPT ![c] = x] /\ Left(x)
    <3>1. "plain" \in Outcomes
          BY DEF Outcomes
    <3>. QED
      BY <1>3, <1>5, <3>1, EndedFacts
  <2>2. v = IF Retries(w.cs, c, "plain") THEN FailActive(n, h) ELSE n
        BY <1>2, <1>8
  <2>3. n = [u EXCEPT !.cs = [u.cs EXCEPT ![c] = x]]
        BY <2>1
  <2> HIDE DEF n
  <2>4. Fine(n, H) /\ Grows(u, n) /\ n.hs = u.hs /\ n.lost = u.lost
        BY <1>3, <1>5, <2>1, <2>3, UseEnds
  <2>5. /\ Fine(FailActive(n, h), H) /\ Grows(n, FailActive(n, h)) /\ FailActive(n, h).lost = n.lost
        /\ SameQuery(n.hs[h], FailActive(n, h).hs[h])
        BY <1>5, <2>4, FailActiveFine
  <2>6. Goal(FailActive(n, h))
        BY <2>4, <2>5, GrowsOn
  <2>7. Goal(n)
        BY <2>4 DEF SameQuery
  <2>8. Goal(v)
        BY <2>2, <2>6, <2>7
  <2>. QED
    BY <1>6, <2>8 DEF v, H
<1>9. CASE w.cs[c].kind # "input" /\ ~(w.hs[h].failed \/ active # h) /\ u.cs[c].fresh
  <2>1. PICK x : EndedFinally(u.cs, c, "done") = [u.cs EXCEPT ![c] = x] /\ Left(x)
    <3>1. "done" \in Outcomes
          BY DEF Outcomes
    <3>. QED
      BY <1>3, <1>5, <3>1, EndedFacts
  <2>2. v = [u EXCEPT !.cs = [u.cs EXCEPT ![c] = x]]
        BY <1>2, <1>9, <2>1
  <2>3. Goal(v)
        BY <1>3, <1>5, <2>1, <2>2, UseEnds DEF SameQuery
  <2>. QED
    BY <1>6, <2>3 DEF v, H
<1>10. CASE w.cs[c].kind # "input" /\ ~(w.hs[h].failed \/ active # h) /\ ~u.cs[c].fresh
  <2> DEFINE x == Now(u.cs[c], "waiting")
  <2>1. v = [u EXCEPT !.cs[c].pc = "waiting"]
        BY <1>2, <1>10
  <2>2. Edited(u, v, h, u.hs[h], [u.cs EXCEPT ![c] = x])
        BY <1>5, <2>1 DEF Edited, IsWorld, Now
  <2>3. /\ x \in CallRecord /\ x.pc = "waiting" /\ x.helper = h /\ x.held = u.cs[c].held
        /\ SameUse(u.cs[c], x)
    <3>1. "waiting" \in Waits
          BY DEF Waits
    <3>. QED
      BY <1>5, <3>1, NowFields
  <2> HIDE DEF x
  <2>4. v.hs[h] = u.hs[h]
        BY <2>2 DEF Edited
  <2>5. CallFine(x, v.hs)
        BY <1>3, <1>4, <1>5, <2>3, <2>4 DEF CallFine, SameUse, AtHelper, Waits
  <2>6. IsHelper(u.hs[h]) /\ SameQuery(u.hs[h], u.hs[h]) /\ Kin(u.hs[h], u.hs[h])
        BY <1>5 DEF IsWorld, SameQuery, Kin
  <2>7. Untied(u, h, c) /\ u.hs[h].pending # c /\ u.cs[c].pc \in AtHelper
        BY <1>3 DEF Loose, OnlyQueued
  <2>8. Fine(v, H) /\ Grows(u, v)
        BY <1>3, <1>5, <2>2, <2>3, <2>5, <2>6, <2>7, UseMoves
  <2>9. Goal(v)
        BY <2>2, <2>4, <2>6, <2>8 DEF Edited
  <2>. QED
    BY <1>6, <2>9 DEF v, H
<1>. QED
  BY <1>7, <1>8, <1>9, <1>10

\* A world is fine when it is but for the queries of one helper, and those are too.
LEMMA WithQuery ==
    ASSUME NEW w, NEW h \in Helpers, Fine(w, Helpers \ {h}), QueryFine(w.hs[h], w.cs)
    PROVE  Fine(w, Helpers)
  BY DEF Fine

\* What an operation on the pipe and the timer of queries does to a helper.
Piped(r, asked, pipe, late) == [r EXCEPT !.asked = asked, !.pipe = pipe, !.late = late]

\* The fields of a helper whose queries change.
LEMMA PipedFacts ==
    ASSUME NEW r, IsHelper(r), NEW asked \in BOOLEAN, NEW pipe \in Seq({"none", "ok", "lost"}),
           NEW late \in BOOLEAN
    PROVE  LET s == Piped(r, asked, pipe, late) IN
           /\ IsHelper(s) /\ s.asking = r.asking /\ s.pending = r.pending /\ SameProcess(r, s)
           /\ s.asked = asked /\ s.pipe = pipe /\ s.late = late
<1>1. r \in HelperRecord(r.chain)
      BY DEF IsHelper
<1>2. Piped(r, asked, pipe, late).chain = r.chain
      BY <1>1 DEF HelperRecord, Piped
<1>. QED
  BY <1>1, <1>2 DEF IsHelper, HelperRecord, Piped, SameProcess

\* A helper whose query changes and nothing else.
LEMMA PipeChanges ==
    ASSUME NEW w, NEW h \in Helpers, Fine(w, Helpers \ {h}), NEW asked \in BOOLEAN,
           NEW pipe \in Seq({"none", "ok", "lost"}), NEW late \in BOOLEAN, w.hs[h].late => late,
           asked => w.hs[h].asking # <<>>, NEW G \in SUBSET Helpers,
           h \in G => QueryFine(Piped(w.hs[h], asked, pipe, late), w.cs),
           NEW v, Edited(w, v, h, Piped(w.hs[h], asked, pipe, late), w.cs)
    PROVE  Fine(v, G) /\ Grows(w, v)
<1> DEFINE r == Piped(w.hs[h], asked, pipe, late)
           H == Helpers \ {h}
<1>1. IsHelper(w.hs[h]) /\ H \in SUBSET Helpers /\ \A g \in G : g # h => g \in H
      BY DEF Fine, IsWorld
<1>2. /\ IsHelper(r) /\ r.asking = w.hs[h].asking /\ r.pending = w.hs[h].pending
      /\ SameProcess(w.hs[h], r) /\ r.asked = asked /\ r.late = late
      BY <1>1, PipedFacts
<1> HIDE DEF r, H
<1>3. Kin(w.hs[h], r) /\ (r.asked => r.asking # <<>>)
      BY <1>2 DEF Kin, SameProcess
<1>4. Fine(w, H) /\ Edited(w, v, h, r, w.cs) /\ (h \in G => QueryFine(r, w.cs))
      BY DEF r, H
<1>. QED
  BY <1>1, <1>2, <1>3, <1>4, HelperChanges

\* A query that fails leaves its helper without an answer under way, or late.
LEMMA QueryFailure ==
    ASSUME NEW w, NEW h \in Helpers, Fine(w, Helpers \ {h}), w.hs[h].asking # <<>>,
           NEW how \in Outcomes, ~w.hs[h].late => w.hs[h].pipe = <<>>
    PROVE  LET v == QueryFails(w, h, how) IN Fine(v, Helpers) /\ Grows(w, v) /\ v.lost = w.lost
<1> DEFINE v == QueryFails(w, h, how)
           H == Helpers \ {h}
<1>1. H \in SUBSET Helpers /\ h \in Helpers \ H
      OBVIOUS
<1>2. /\ Fine(v, H) /\ Grows(w, v) /\ v.lost = w.lost
      /\ v.hs[h].asked = FALSE /\ v.hs[h].pipe = w.hs[h].pipe /\ v.hs[h].late = w.hs[h].late
      BY <1>1, QueryFailsFine
<1> HIDE DEF v
<1>3. QueryFine(v.hs[h], v.cs)
      BY <1>2 DEF QueryFine
<1>. QED
  BY <1>2, <1>3, WithQuery DEF v

\* #queryOnce(): the query is written; the pipe of the helper had no other one.
LEMMA QueryTurnFine ==
    ASSUME NEW w, Fine(w, Helpers), NEW h \in Helpers, w.hs[h].asking # <<>>, ~w.hs[h].asked
    PROVE  /\ LET v == [w EXCEPT !.hs[h].asked = TRUE, !.hs[h].pipe = Append(@, "none")] IN
              Fine(v, Helpers) /\ Grows(w, v) /\ v.lost = w.lost
           /\ LET v == QueryFails(w, h, "plain") IN
              Fine(v, Helpers) /\ Grows(w, v) /\ v.lost = w.lost
<1>1. /\ IsHelper(w.hs[h]) /\ QueryFine(w.hs[h], w.cs) /\ Fine(w, Helpers \ {h})
      /\ "plain" \in Outcomes
      BY DEF Fine, IsWorld, Outcomes
<1>2. ~w.hs[h].late => w.hs[h].pipe = <<>>
      BY <1>1 DEF QueryFine
<1>3. LET v == QueryFails(w, h, "plain") IN Fine(v, Helpers) /\ Grows(w, v) /\ v.lost = w.lost
      BY <1>1, <1>2, QueryFailure
<1> DEFINE v == [w EXCEPT !.hs[h].asked = TRUE, !.hs[h].pipe = Append(@, "none")]
           p == Append(w.hs[h].pipe, "none")
           r == Piped(w.hs[h], TRUE, p, w.hs[h].late)
<1>4. p \in Seq({"none", "ok", "lost"}) /\ w.hs[h].late \in BOOLEAN
      BY <1>1, HelperFields
<1>5. Edited(w, v, h, r, w.cs)
  <2>1. w.hs[h] \in HelperRecord(w.hs[h].chain)
        BY <1>1 DEF IsHelper
  <2>2. r = [w.hs[h] EXCEPT !.asked = TRUE, !.pipe = Append(@, "none")]
        BY <2>1 DEF Piped, HelperRecord
  <2>. QED
    BY <2>2 DEF Edited, Fine, IsWorld
<1>6. QueryFine(r, w.cs)
  <2>1. ~w.hs[h].late => Len(p) = 1 /\ p[1] = "none"
        BY <1>1, <1>2, HelperFields
  <2> HIDE DEF p
  <2>2. r.asked = TRUE /\ r.pipe = p /\ r.late = w.hs[h].late
    <3>1. w.hs[h] \in HelperRecord(w.hs[h].chain)
          BY <1>1 DEF IsHelper
    <3>. QED
      BY <3>1 DEF Piped, HelperRecord
  <2> HIDE DEF r
  <2>. QED
    BY <2>1, <2>2 DEF QueryFine
<1> HIDE DEF v, p
<1>7. Fine(v, Helpers) /\ Grows(w, v)
      BY <1>1, <1>4, <1>5, <1>6, PipeChanges
<1>. QED
  BY <1>3, <1>5, <1>7 DEF v, Edited

\* The time of a query is over: its answer will be late.
LEMMA QueryTimesOutFine ==
    ASSUME NEW w, Fine(w, Helpers), NEW h \in Helpers, w.hs[h].asked
    PROVE  LET v == [QueryFails(w, h, "plain") EXCEPT !.hs[h].late = TRUE] IN
           Fine(v, Helpers) /\ Grows(w, v) /\ v.lost = w.lost
<1> DEFINE u == QueryFails(w, h, "plain")
           v == [u EXCEPT !.hs[h].late = TRUE]
           r == Piped(u.hs[h], FALSE, u.hs[h].pipe, TRUE)
           H == Helpers \ {h}
<1>1. /\ Fine(w, H) /\ H \in SUBSET Helpers /\ h \in Helpers \ H /\ "plain" \in Outcomes
      /\ w.hs[h].asking # <<>>
      BY DEF Fine, HelperFine, Outcomes
<1>2. Fine(u, H) /\ Grows(w, u) /\ u.lost = w.lost /\ u.hs[h].asked = FALSE
      BY <1>1, QueryFailsFine
<1> HIDE DEF u
<1>3. u.hs[h].pipe \in Seq({"none", "ok", "lost"}) /\ IsHelper(u.hs[h])
      BY <1>2, HelperFields DEF Fine, IsWorld
<1>4. Edited(u, v, h, r, u.cs)
  <2>1. u.hs[h] \in HelperRecord(u.hs[h].chain)
        BY <1>3 DEF IsHelper
  <2>2. r = [u.hs[h] EXCEPT !.late = TRUE]
        BY <1>2, <2>1 DEF Piped, HelperRecord
  <2>. QED
    BY <1>2, <2>2 DEF Edited, Fine, IsWorld
<1>5. QueryFine(r, u.cs)
  <2>1. r.late = TRUE
        BY <1>3, PipedFacts
  <2>. QED
    BY <2>1 DEF QueryFine
<1> HIDE DEF v
<1>6. Fine(v, Helpers) /\ Grows(u, v)
      BY <1>2, <1>3, <1>4, <1>5, PipeChanges
<1>. QED
  BY <1>2, <1>4, <1>6, GrowsOn DEF v, u, Edited

\* LinuxWindowAuthorityHelper.#consume(): the oldest answer is read.
LEMMA QueryAnsweredFine ==
    ASSUME NEW w, Fine(w, Helpers), NEW h \in Helpers, w.hs[h].pipe # <<>>
    PROVE  LET u == [w EXCEPT !.hs[h].pipe = Tail(@)] IN
           /\ ~w.hs[h].asked => Fine(u, Helpers) /\ Grows(w, u) /\ u.lost = w.lost
           /\ w.hs[h].asked /\ Head(w.hs[h].pipe) = "ok" =>
                LET v == Served(u, h) IN Fine(v, Helpers) /\ Grows(w, v) /\ v.lost = w.lost
           /\ w.hs[h].asked =>
                LET v == QueryFails(u, h, "authority") IN
                Fine(v, Helpers) /\ Grows(w, v) /\ v.lost = w.lost
<1> DEFINE u == [w EXCEPT !.hs[h].pipe = Tail(@)]
           p == Tail(w.hs[h].pipe)
           r == Piped(w.hs[h], w.hs[h].asked, p, w.hs[h].late)
           H == Helpers \ {h}
<1>1. /\ IsHelper(w.hs[h]) /\ QueryFine(w.hs[h], w.cs) /\ Fine(w, H) /\ H \in SUBSET Helpers
      /\ w.hs[h].asked => w.hs[h].asking # <<>>
      BY DEF Fine, IsWorld, HelperFine
<1>2. /\ p \in Seq({"none", "ok", "lost"}) /\ w.hs[h].late \in BOOLEAN /\ w.hs[h].asked \in BOOLEAN
      /\ Head(w.hs[h].pipe) = w.hs[h].pipe[1] /\ w.hs[h].asking \in Seq(Calls)
      BY <1>1, HelperFields
<1>3. ~w.hs[h].late => /\ w.hs[h].asked /\ p = <<>>
                       /\ Linux /\ w.hs[h].pipe[1] = "ok" => w.cs[w.hs[h].asking[1]].held
  <2> DEFINE q == w.hs[h].pipe
  <2>1. q \in Seq({"none", "ok", "lost"}) /\ q # <<>>
        BY <1>1, HelperFields
  <2> HIDE DEF q
  <2>2. Tail(q) \in Seq({"none", "ok", "lost"}) /\ Len(Tail(q)) = Len(q) - 1
        BY <2>1
  <2>3. Len(q) = 1 => Tail(q) = <<>>
    <3>1. Len(q) = 1 => Len(Tail(q)) = 0
          BY <2>2
    <3>. QED
      BY <2>2, <3>1, EmptySeq
  <2>. QED
    BY <1>1, <2>1, <2>3 DEF QueryFine, q
<1> HIDE DEF p
<1>4. Edited(w, u, h, r, w.cs)
  <2>1. w.hs[h] \in HelperRecord(w.hs[h].chain)
        BY <1>1 DEF IsHelper
  <2>2. r = [w.hs[h] EXCEPT !.pipe = Tail(@)]
        BY <2>1 DEF Piped, HelperRecord, p
  <2>. QED
    BY <2>2 DEF Edited, Fine, IsWorld
<1>5. /\ r.asked = w.hs[h].asked /\ r.pipe = p /\ r.late = w.hs[h].late
      /\ r.asking = w.hs[h].asking
  <2>1. w.hs[h] \in HelperRecord(w.hs[h].chain)
        BY <1>1 DEF IsHelper
  <2>. QED
    BY <2>1 DEF Piped, HelperRecord
<1> HIDE DEF u
<1>6. Fine(u, H) /\ Grows(w, u) /\ u.lost = w.lost
  <2>1. h \notin H
        OBVIOUS
  <2>2. Fine(u, H) /\ Grows(w, u)
        BY <1>1, <1>2, <1>4, <2>1, PipeChanges
  <2>. QED
    BY <1>4, <2>2 DEF Edited
<1> HIDE DEF r
<1>7. u.hs[h] = r /\ u.cs = w.cs
      BY <1>4 DEF Edited
<1>8. ASSUME ~w.hs[h].asked PROVE Fine(u, Helpers)
  <2>1. QueryFine(u.hs[h], u.cs)
        BY <1>3, <1>5, <1>7, <1>8 DEF QueryFine
  <2>. QED
    BY <1>6, <2>1, WithQuery
<1>9. ASSUME w.hs[h].asked, Head(w.hs[h].pipe) = "ok"
      PROVE  LET v == Served(u, h) IN Fine(v, Helpers) /\ Grows(w, v) /\ v.lost = w.lost
  <2> DEFINE v == Allowed(u, h)
  <2>1. u.hs[h].asking # <<>> /\ Head(u.hs[h].asking) = w.hs[h].asking[1]
        BY <1>1, <1>2, <1>5, <1>7, <1>9
  <2>2. Linux /\ ~u.hs[h].late => u.cs[Head(u.hs[h].asking)].held
        BY <1>2, <1>3, <1>5, <1>7, <1>9, <2>1
  <2>3. /\ Fine(v, H) /\ Grows(u, v) /\ v.lost = u.lost
        /\ v.hs[h].asked = FALSE /\ v.hs[h].pipe = u.hs[h].pipe /\ v.hs[h].late = u.hs[h].late
        BY <1>6, <2>1, <2>2, AllowedFine
  <2> HIDE DEF v
  <2>4. QueryFine(v.hs[h], v.cs)
        BY <1>3, <1>5, <1>7, <2>3 DEF QueryFine
  <2>5. Fine(v, Helpers) /\ Grows(w, v) /\ v.lost = w.lost
        BY <1>6, <2>3, <2>4, WithQuery, GrowsOn
  <2>. QED
    BY <2>5 DEF Served, v
<1>10. ASSUME w.hs[h].asked
       PROVE  LET v == QueryFails(u, h, "authority") IN
              Fine(v, Helpers) /\ Grows(w, v) /\ v.lost = w.lost
  <2>1. u.hs[h].asking # <<>> /\ (~u.hs[h].late => u.hs[h].pipe = <<>>) /\ "authority" \in Outcomes
        BY <1>1, <1>3, <1>5, <1>7, <1>10 DEF Outcomes
  <2>2. LET v == QueryFails(u, h, "authority") IN
        Fine(v, Helpers) /\ Grows(u, v) /\ v.lost = u.lost
        BY <1>6, <2>1, QueryFailure
  <2>. QED
    BY <1>6, <2>2, GrowsOn
<1>. QED
  BY <1>6, <1>8, <1>9, <1>10 DEF u

\* The authority helper answers a query: it says "ok" of a window that is valid, and then
\* the window has been valid since the first use in the queue asked.
LEMMA AnswerFine ==
    ASSUME NEW w, Fine(w, Helpers), NEW h \in Helpers, NEW i \in 1..Len(w.hs[h].pipe)
    PROVE  LET a == IF w.hs[h].target \in valid THEN "ok" ELSE "lost"
               v == [w EXCEPT !.hs[h].pipe[i] = a]
           IN  Fine(v, Helpers) /\ Grows(w, v) /\ v.lost = w.lost
<1> DEFINE a == IF w.hs[h].target \in valid THEN "ok" ELSE "lost"
           v == [w EXCEPT !.hs[h].pipe[i] = a]
           p == [w.hs[h].pipe EXCEPT ![i] = a]
           r == Piped(w.hs[h], w.hs[h].asked, p, w.hs[h].late)
<1>1. /\ IsHelper(w.hs[h]) /\ QueryFine(w.hs[h], w.cs) /\ HelperFine(w.hs[h], h, w.cs)
      /\ Fine(w, Helpers \ {h})
      BY DEF Fine, IsWorld
<1>2. /\ w.hs[h].pipe \in Seq({"none", "ok", "lost"}) /\ w.hs[h].late \in BOOLEAN
      /\ w.hs[h].asked \in BOOLEAN /\ Len(w.hs[h].pipe) \in Nat /\ Len(w.hs[h].asking) \in Nat
      /\ \A j \in 1..Len(w.hs[h].asking) : w.hs[h].asking[j] \in Calls
      /\ w.hs[h].asking \in Seq(Calls)
      BY <1>1, HelperFields
<1>3. p \in Seq({"none", "ok", "lost"}) /\ Len(p) = Len(w.hs[h].pipe) /\ p[i] = a
      BY <1>2
<1>4. ASSUME ~w.hs[h].late
      PROVE  w.hs[h].asked /\ Len(p) = 1 /\ (Linux /\ p[1] = "ok" => w.cs[w.hs[h].asking[1]].held)
  <2>1. w.hs[h].asked /\ Len(w.hs[h].pipe) = 1
    <3>1. w.hs[h].pipe # <<>>
          BY <1>2
    <3>. QED
      BY <1>1, <1>4, <3>1 DEF QueryFine
  <2>2. i = 1
        BY <2>1
  <2>3. 1 \in 1..Len(w.hs[h].asking)
        BY <1>1, <1>2, <2>1 DEF HelperFine
  <2>4. /\ w.hs[h].asking[1] \in Calls /\ w.cs[w.hs[h].asking[1]].pc = "asking"
        /\ w.cs[w.hs[h].asking[1]].helper = h
        BY <1>1, <1>2, <2>3 DEF HelperFine
  <2>5. CallFine(w.cs[w.hs[h].asking[1]], w.hs)
        BY <2>4 DEF Fine
  <2>6. Linux /\ w.hs[h].target \in valid => w.cs[w.hs[h].asking[1]].held
        BY <2>4, <2>5 DEF CallFine, AtHelper
  <2>. QED
    BY <1>3, <2>1, <2>2, <2>6
<1> HIDE DEF p
<1>5. Edited(w, v, h, r, w.cs)
  <2>1. w.hs[h] \in HelperRecord(w.hs[h].chain)
        BY <1>1 DEF IsHelper
  <2>2. r = [w.hs[h] EXCEPT !.pipe[i] = a]
        BY <2>1 DEF Piped, HelperRecord, p
  <2>. QED
    BY <2>2 DEF Edited, Fine, IsWorld
<1>6. QueryFine(r, w.cs)
  <2>1. /\ r.asked = w.hs[h].asked /\ r.pipe = p /\ r.late = w.hs[h].late
        /\ r.asking = w.hs[h].asking
    <3>1. w.hs[h] \in HelperRecord(w.hs[h].chain)
          BY <1>1 DEF IsHelper
    <3>. QED
      BY <3>1 DEF Piped, HelperRecord
  <2> HIDE DEF r
  <2>. QED
    BY <1>4, <2>1 DEF QueryFine
<1> HIDE DEF v
<1>7. w.hs[h].asked => w.hs[h].asking # <<>>
      BY <1>1 DEF HelperFine
<1>8. Fine(v, Helpers) /\ Grows(w, v)
      BY <1>1, <1>2, <1>3, <1>5, <1>6, <1>7, PipeChanges
<1>. QED
  BY <1>5, <1>8 DEF v, Edited
-----------------------------------------------------------------------------
(* Replacing a helper.                                                     *)

\* The parts of the world are the variables.
LEMMA WorldFields == World.hs = helper /\ World.cs = call /\ World.lost = boundary
  BY DEF World

\* The fields of a helper that is started, and of none.
LEMMA NewHelperFacts ==
    ASSUME NEW t \in Windows, NEW a \in {"none", "up"}
    PROVE  LET r == [NoHelper EXCEPT !.target = t, !.host = "up", !.authority = a] IN
           /\ IsHelper(r) /\ r.host = "up" /\ r.target = t /\ r.asking = <<>> /\ r.asked = FALSE
           /\ r.pipe = <<>> /\ r.pending = 0 /\ r.stopping = FALSE
           /\ IsHelper(NoHelper) /\ NoHelper.host = "none" /\ NoHelper.asking = <<>>
           /\ NoHelper.asked = FALSE /\ NoHelper.pipe = <<>> /\ NoHelper.pending = 0
<1>1. /\ 0 \in 0..MaxCalls /\ <<>> \in Seq(Calls) /\ <<>> \in Seq({"none", "ok", "lost"})
      /\ AnyTarget \in Windows
      BY SurfaceAssumption DEF Windows
<1>2. /\ NoHelper \in HelperRecord(<<>>) /\ NoHelper.chain = <<>> /\ NoHelper.host = "none"
      /\ NoHelper.asking = <<>> /\ NoHelper.asked = FALSE /\ NoHelper.pipe = <<>>
      /\ NoHelper.pending = 0 /\ NoHelper.stopping = FALSE
      BY <1>1 DEF NoHelper, HelperRecord
<1> DEFINE r == [NoHelper EXCEPT !.target = t, !.host = "up", !.authority = a]
<1>3. /\ r \in HelperRecord(<<>>) /\ r.chain = <<>> /\ r.host = "up" /\ r.target = t
      /\ r.asking = <<>> /\ r.asked = FALSE /\ r.pipe = <<>> /\ r.pending = 0 /\ r.stopping = FALSE
      BY <1>2 DEF HelperRecord
<1>. QED
  BY <1>2, <1>3 DEF IsHelper

\* A helper that is started has no use yet.
LEMMA SpawnedFine ==
    ASSUME NEW w, Fine(w, Helpers), NEW h \in Helpers, w.hs[h].host = "none",
           NEW t \in Windows, NEW a \in {"none", "up"}
    PROVE  LET v == Spawned(w, h, t, a) IN
           /\ Fine(v, Helpers) /\ v.lost = w.lost /\ v.cs = w.cs /\ v.hs[h].host = "up"
           /\ \A g \in Helpers : g # h => v.hs[g] = w.hs[g]
<1> DEFINE r == [NoHelper EXCEPT !.target = t, !.host = "up", !.authority = a]
           v == Spawned(w, h, t, a)
<1>1. Edited(w, v, h, r, w.cs)
      BY DEF Edited, Spawned, Fine, IsWorld
<1>2. /\ IsHelper(r) /\ r.host = "up" /\ r.asking = <<>> /\ r.asked = FALSE
      /\ r.pipe = <<>> /\ r.pending = 0
      BY NewHelperFacts
<1> HIDE DEF r, v
<1>3. /\ v.hs[h] = r /\ v.cs = w.cs /\ v.lost = w.lost
      /\ \A g \in Helpers : g # h => v.hs[g] = w.hs[g]
      BY <1>1 DEF Edited
<1>4. IsWorld(v)
      BY <1>1, <1>2, <1>3 DEF Fine, IsWorld, Edited
<1>5. ASSUME NEW c \in Calls PROVE CallFine(v.cs[c], v.hs)
  <2>1. CallFine(w.cs[c], w.hs)
        BY DEF Fine
  <2>2. w.cs[c].pc \in AtHelper => w.cs[c].helper # h
        BY <2>1 DEF CallFine
  <2>. QED
    BY <1>3, <2>1, <2>2 DEF CallFine, AtHelper
<1>6. ASSUME NEW g \in Helpers PROVE HelperFine(v.hs[g], g, v.cs) /\ QueryFine(v.hs[g], v.cs)
  <2>1. CASE g = h
        BY <1>2, <1>3, <2>1 DEF HelperFine, QueryFine
  <2>2. CASE g # h
        BY <1>3, <2>2 DEF Fine
  <2>. QED
    BY <2>1, <2>2
<1>. QED
  BY <1>2, <1>3, <1>4, <1>5, <1>6 DEF Fine, v

\* The transition has settled: its owner and whoever joined it go on.
LEMMA ContinuedFine ==
    ASSUME SurfaceInv, transition.phase # "none", NEW how \in Outcomes
    PROVE  LET v == Continued(World, how) IN
           Fine(v, Helpers) /\ Akin(World, v) /\ v.lost = boundary
<1> DEFINE o == transition.owner
           ready == how = "done" /\ Usable(call[o].target)
           end == IF how = "done" THEN "plain" ELSE how
           u == IF ready THEN Proceed(World, o, active, TRUE)
                ELSE [World EXCEPT !.cs = Ended(@, o, end)]
           v == Continued(World, how)
<1>1. /\ Fine(World, Helpers) /\ IsWorld(World) /\ o \in Calls /\ World.cs[o].pc = "owning"
      /\ ActiveFine /\ end \in Outcomes
      BY WorldFields DEF SurfaceInv, TransitionFine, Fine, Outcomes
<1>2. v = [u EXCEPT !.cs = [c \in Calls |->
            IF @[c].pc # "joining" THEN @[c]
            ELSE IF how = "done" THEN [@[c] EXCEPT !.pc = "ensure"] ELSE Ended(@, c, how)[c]]]
      BY DEF Continued
<1>3. Fine(u, Helpers) /\ Akin(World, u) /\ u.lost = World.lost
  <2>1. CASE ready
    <3> DEFINE n == Proceed(World, o, active, TRUE)
    <3>1. /\ active \in Helpers /\ World.hs[active].host # "none"
          /\ World.hs[active].target = World.cs[o].target /\ TRUE \in BOOLEAN
      <4>1. active \in Helpers
            BY <1>1, <2>1, SurfaceAssumption DEF ActiveFine, Usable, Helpers
      <4>. QED
        BY <1>1, <2>1, <4>1, WorldFields DEF ActiveFine, Usable
    <3>2. World.cs[o].pc \in {"ensure", "owning"}
          BY <1>1
    <3>3. Fine(n, Helpers) /\ Akin(World, n) /\ n.lost = World.lost
          BY <1>1, <3>1, <3>2, ProceedFine
    <3>4. u = n
          BY <2>1
    <3> HIDE DEF u, n
    <3>. QED
      BY <3>3, <3>4
  <2>2. CASE ~ready
    <3> HIDE DEF o, end
    <3>1. PICK x : Ended(World.cs, o, end) = [World.cs EXCEPT ![o] = x] /\ Left(x)
          BY <1>1, EndedFacts
    <3>2. u = [World EXCEPT !.cs = [World.cs EXCEPT ![o] = x]]
          BY <2>2, <3>1
    <3>3. x \in CallRecord /\ CallFine(x, World.hs) /\ World.cs[o].pc \notin {"asking", "acking"}
          BY <1>1, <3>1, LeftFine DEF Left
    <3> HIDE DEF u
    <3>. QED
      BY <1>1, <3>2, <3>3, UseChanges
  <2>. QED
    BY <2>1, <2>2
<1> HIDE DEF u
<1>4. IsWorld(u) /\ u.lost \in BOOLEAN
      BY <1>3 DEF Fine, IsWorld
<1> DEFINE After(c) == IF how = "done" THEN [u.cs[c] EXCEPT !.pc = "ensure"] ELSE Ended(u.cs, c, how)[c]
<1>5. /\ DOMAIN v = {"hs", "cs", "lost"} /\ v.hs = u.hs /\ v.lost = u.lost
      /\ v.cs = [c \in Calls |-> IF u.cs[c].pc # "joining" THEN u.cs[c] ELSE After(c)]
      BY <1>2, <1>4 DEF IsWorld
<1>6. ASSUME NEW c \in Calls, u.cs[c].pc = "joining"
      PROVE  After(c) \in CallRecord /\ CallFine(After(c), u.hs)
  <2>1. CASE how = "done"
    <3>1. After(c) = Now(u.cs[c], "ensure")
          BY <2>1 DEF Now
    <3>2. u.cs[c] \in CallRecord /\ CallFine(u.cs[c], u.hs) /\ "ensure" \in Waits /\ "joining" \in Waits
          BY <1>3 DEF Fine, IsWorld, Waits
    <3> HIDE DEF After
    <3>3. /\ After(c) \in CallRecord /\ After(c).pc = "ensure" /\ SameUse(u.cs[c], After(c))
          BY <3>1, <3>2, NowFields
    <3>. QED
      BY <1>6, <3>2, <3>3 DEF CallFine, SameUse, AtHelper
  <2>2. CASE how # "done"
    <3>1. PICK x : Ended(u.cs, c, how) = [u.cs EXCEPT ![c] = x] /\ Left(x)
          BY <1>4, EndedFacts
    <3>2. After(c) = x
          BY <1>4, <2>2, <3>1 DEF IsWorld
    <3>. QED
      BY <3>1, <3>2, LeftFine DEF Left
  <2>. QED
    BY <2>1, <2>2
<1> HIDE DEF v, After
<1>7. /\ v.cs \in [Calls -> CallRecord]
      /\ \A c \in Calls : \/ v.cs[c] = u.cs[c]
                          \/ CallFine(v.cs[c], u.hs) /\ u.cs[c].pc \notin {"asking", "acking"}
  <2>1. u.cs \in [Calls -> CallRecord]
        BY <1>4 DEF IsWorld
  <2>2. ASSUME NEW c \in Calls
        PROVE  /\ v.cs[c] \in CallRecord
               /\ \/ v.cs[c] = u.cs[c]
                  \/ CallFine(v.cs[c], u.hs) /\ u.cs[c].pc \notin {"asking", "acking"}
    <3>1. CASE u.cs[c].pc = "joining"
      <4>1. v.cs[c] = After(c)
            BY <1>5, <3>1
      <4>. QED
        BY <1>6, <3>1, <4>1
    <3>2. CASE u.cs[c].pc # "joining"
          BY <1>5, <2>1, <3>2
    <3>. QED
      BY <3>1, <3>2
  <2>3. v.cs \in [Calls -> CallRecord]
    <3>1. \A c \in Calls : (IF u.cs[c].pc # "joining" THEN u.cs[c] ELSE After(c)) \in CallRecord
          BY <1>6, <2>1
    <3>. QED
      BY <1>5, <3>1
  <2>. QED
    BY <2>2, <2>3
<1>8. Fine(v, Helpers) /\ Akin(u, v)
      BY <1>3, <1>4, <1>5, <1>7, CallsMove
<1>9. Akin(World, v)
      BY <1>3, <1>8 DEF Akin, Kin
<1>. QED
  BY <1>3, <1>5, <1>8, <1>9, WorldFields DEF v
-----------------------------------------------------------------------------
(* Steps.                                                                  *)

\* The surface becomes the world w, as it is.
LEMMA Carried ==
    ASSUME NEW w, Fine(w, Helpers), helper' = w.hs, call' = w.cs, boundary' = w.lost,
           valid' = valid, bounds' = bounds
    PROVE  Fine(World, Helpers)'
<1>1. World'.hs = w.hs /\ World'.cs = w.cs /\ World'.lost = w.lost /\ DOMAIN World' = {"hs", "cs", "lost"}
      BY DEF World
<1>2. IsWorld(World)'
      BY <1>1 DEF Fine, IsWorld
<1>3. \A c \in Calls : CallFine(World.cs[c], World.hs)'
      BY <1>1 DEF Fine, CallFine, Linux
<1>4. \A h \in Helpers : HelperFine(World.hs[h], h, World.cs)'
      BY <1>1 DEF Fine, HelperFine
<1>5. \A h \in Helpers : QueryFine(World.hs[h], World.cs)'
      BY <1>1 DEF Fine, QueryFine, Linux
<1>. QED
  BY <1>2, <1>3, <1>4, <1>5 DEF Fine

\* A helper that has ended is forgotten once no use is at it.
LEMMA Forgetting ==
    ASSUME NEW w, Fine(w, Helpers), Becomes(w), valid' = valid, bounds' = bounds
    PROVE  /\ Fine(World, Helpers)' /\ call' = w.cs /\ boundary' = w.lost
           /\ \A h \in Helpers : \/ helper'[h] = w.hs[h]
                                 \/ /\ helper'[h].host = "none" /\ w.hs[h].host = "down"
                                    /\ h # active
<1> DEFINE hs == [h \in Helpers |-> IF Forgotten(w, h) THEN NoHelper ELSE w.hs[h]]
           v == [hs |-> hs, cs |-> w.cs, lost |-> w.lost]
<1>1. helper' = hs /\ call' = w.cs /\ boundary' = w.lost
      BY DEF Becomes
<1>2. /\ v.cs = w.cs /\ v.lost = w.lost /\ DOMAIN v = {"hs", "cs", "lost"} /\ DOMAIN v.hs = Helpers
      /\ v.hs = helper'
      /\ \A h \in Helpers : v.hs[h] = IF Forgotten(w, h) THEN NoHelper ELSE w.hs[h]
      BY <1>1
<1> HIDE DEF hs, v
<1>3. /\ IsHelper(NoHelper) /\ NoHelper.host = "none" /\ NoHelper.asking = <<>>
      /\ NoHelper.asked = FALSE /\ NoHelper.pipe = <<>> /\ NoHelper.pending = 0
  <2>1. AnyTarget \in Windows
        BY DEF Windows
  <2>. QED
    BY <2>1, NewHelperFacts
<1>4. IsWorld(v)
  <2>1. \A h \in Helpers : IsHelper(v.hs[h])
        BY <1>2, <1>3 DEF Fine, IsWorld
  <2>. QED
    BY <1>2, <2>1 DEF Fine, IsWorld
<1>5. ASSUME NEW c \in Calls PROVE CallFine(v.cs[c], v.hs)
  <2>1. CallFine(w.cs[c], w.hs)
        BY DEF Fine
  <2>2. w.cs[c].helper \in Helpers => v.hs[w.cs[c].helper] = w.hs[w.cs[c].helper]
        BY <1>2 DEF Forgotten
  <2>. QED
    BY <1>2, <2>1, <2>2 DEF CallFine, AtHelper
<1>6. ASSUME NEW h \in Helpers PROVE HelperFine(v.hs[h], h, v.cs) /\ QueryFine(v.hs[h], v.cs)
  <2>1. CASE Forgotten(w, h)
    <3>1. v.hs[h] = NoHelper
          BY <1>2, <2>1
    <3>. QED
      BY <1>3, <3>1 DEF HelperFine, QueryFine
  <2>2. CASE ~Forgotten(w, h)
    <3>1. v.hs[h] = w.hs[h]
          BY <1>2, <2>2
    <3>. QED
      BY <1>2, <3>1 DEF Fine
  <2>. QED
    BY <2>1, <2>2
<1>7. Fine(v, Helpers)
      BY <1>4, <1>5, <1>6 DEF Fine
<1>8. Fine(World, Helpers)'
      BY <1>1, <1>2, <1>7, Carried
<1>. QED
  BY <1>1, <1>2, <1>3, <1>8 DEF Forgotten

\* The invariant follows from the next world and from who is active in it.
LEMMA StepKeeps ==
    ASSUME SurfaceInv, NEW w, Fine(w, Helpers), Akin(World, w), Becomes(w),
           bounds' = bounds, valid' = valid, faults' \in Nat, changes' \in Nat,
           \/ active' = active
           \/ active' = 0 /\ (active # 0 => w.hs[active].stopping = TRUE),
           TransitionFine', ClosingFine'
    PROVE  SurfaceInv'
<1>1. /\ Fine(World, Helpers)'
      /\ \A h \in Helpers : \/ helper'[h] = w.hs[h]
                            \/ /\ helper'[h].host = "none" /\ w.hs[h].host = "down"
                               /\ h # active
      BY Forgetting
<1>2. /\ OnlyActive /\ ActiveFine /\ bounds \in SurfaceBounds
      /\ \A h \in Helpers : Kin(helper[h], w.hs[h])
      BY WorldFields DEF SurfaceInv, Akin
<1>3. OnlyActive'
  <2>1. ASSUME NEW h \in Helpers, helper'[h].host = "up", ~helper'[h].stopping PROVE active' = h
    <3>1. helper'[h] = w.hs[h]
          BY <1>1, <2>1
    <3>2. helper[h].host = "up" /\ ~helper[h].stopping
          BY <1>2, <2>1, <3>1 DEF Kin
    <3>3. active = h /\ h # 0
          BY <1>2, <3>2, SurfaceAssumption DEF OnlyActive, Helpers
    <3>. QED
      BY <2>1, <3>1, <3>3
  <2>. QED
    BY <2>1 DEF OnlyActive
<1>4. ActiveFine'
  <2>1. active \in Helpers => helper'[active] = w.hs[active] /\ (helper[active].host = "none" <=> w.hs[active].host = "none")
        BY <1>1, <1>2 DEF Kin
  <2>2. active # 0 => active \in Helpers
        BY <1>2, SurfaceAssumption DEF ActiveFine, Helpers
  <2>3. 0 \in 0..MaxHelpers
        BY SurfaceAssumption
  <2>. QED
    BY <1>2, <2>1, <2>2, <2>3 DEF ActiveFine
<1>. QED
  BY <1>1, <1>2, <1>3, <1>4 DEF SurfaceInv

\* What happens to the helpers and their uses while no one is replaced or closed.
LEMMA StepStays ==
    ASSUME SurfaceInv, NEW w, Fine(w, Helpers), Grows(World, w), Becomes(w),
           bounds' = bounds, valid' = valid, faults' \in Nat, changes' \in Nat,
           active' = active, transition' = transition, closing' = closing
    PROVE  SurfaceInv'
<1>1. /\ TransitionFine /\ ClosingFine /\ Akin(World, w)
      /\ \A c \in Calls : call[c].pc \notin AtHelper => w.cs[c] = call[c]
      BY WorldFields DEF SurfaceInv, Grows
<1>2. call' = w.cs
      BY DEF Becomes
<1>3. TransitionFine'
      BY <1>1, <1>2 DEF TransitionFine, AtHelper
<1>4. ClosingFine'
      BY <1>1 DEF ClosingFine
<1>. QED
  BY <1>1, <1>3, <1>4, StepKeeps

\* The environment of the steps that only the code takes.
LEMMA Bystanders ==
    ASSUME SurfaceInv, unchangedEnvironment
    PROVE  bounds' = bounds /\ valid' = valid /\ faults' \in Nat /\ changes' \in Nat
  BY DEF SurfaceInv, unchangedEnvironment

\* The queries to the authority helper.
LEMMA QuerySteps ==
    ASSUME SurfaceInv, NEW h \in Helpers,
           QueryTurn(h) \/ QueryAnswered(h) \/ QueryTimesOut(h) \/ AuthorityDies(h)
    PROVE  SurfaceInv'
<1>1. Fine(World, Helpers) /\ World.hs = helper /\ faults \in Nat /\ changes \in Nat
      BY WorldFields DEF SurfaceInv
<1>2. CASE QueryTurn(h)
  <2> DEFINE asks == [World EXCEPT !.hs[h].asked = TRUE, !.hs[h].pipe = Append(@, "none")]
             fails == QueryFails(World, h, "plain")
             w == IF helper[h].authority = "up" THEN asks ELSE fails
  <2>1. Becomes(w) /\ active' = active /\ transition' = transition /\ closing' = closing /\ unchangedEnvironment
        BY <1>2 DEF QueryTurn
  <2>2. Fine(asks, Helpers) /\ Grows(World, asks) /\ Fine(fails, Helpers) /\ Grows(World, fails)
    <3>1. World.hs[h].asking # <<>> /\ ~World.hs[h].asked
          BY <1>1, <1>2 DEF QueryTurn, Queries
    <3>. QED
      BY <1>1, <3>1, QueryTurnFine
  <2> HIDE DEF asks, fails
  <2>3. Fine(w, Helpers) /\ Grows(World, w)
        BY <2>2
  <2> HIDE DEF w
  <2>. QED
    BY <2>1, <2>3, Bystanders, StepStays
<1>3. CASE QueryAnswered(h)
  <2> DEFINE u == [World EXCEPT !.hs[h].pipe = Tail(@)]
             served == Served(u, h)
             fails == QueryFails(u, h, "authority")
             w == CASE ~helper[h].asked -> u
                     [] helper[h].asked /\ Head(helper[h].pipe) = "ok" -> served
                     [] OTHER -> fails
  <2>1. Becomes(w) /\ active' = active /\ transition' = transition /\ closing' = closing /\ unchangedEnvironment
        BY <1>3 DEF QueryAnswered
  <2>2. /\ ~helper[h].asked => Fine(u, Helpers) /\ Grows(World, u)
        /\ helper[h].asked /\ Head(helper[h].pipe) = "ok" =>
              Fine(served, Helpers) /\ Grows(World, served)
        /\ helper[h].asked => Fine(fails, Helpers) /\ Grows(World, fails)
    <3>1. World.hs[h].pipe # <<>>
          BY <1>1, <1>3 DEF QueryAnswered
    <3>. QED
      BY <1>1, <3>1, QueryAnsweredFine
  <2> HIDE DEF u, served, fails
  <2>3. Fine(w, Helpers) /\ Grows(World, w)
        BY <2>2
  <2> HIDE DEF w
  <2>. QED
    BY <2>1, <2>3, Bystanders, StepStays
<1>4. CASE QueryTimesOut(h)
  <2> DEFINE w == [QueryFails(World, h, "plain") EXCEPT !.hs[h].late = TRUE]
  <2>1. Becomes(w) /\ active' = active /\ transition' = transition /\ closing' = closing /\ unchangedEnvironment
        BY <1>4 DEF QueryTimesOut
  <2>2. Fine(w, Helpers) /\ Grows(World, w)
    <3>1. World.hs[h].asked
          BY <1>1, <1>4 DEF QueryTimesOut
    <3>. QED
      BY <1>1, <3>1, QueryTimesOutFine
  <2> HIDE DEF w
  <2>. QED
    BY <2>1, <2>2, Bystanders, StepStays
<1>5. CASE AuthorityDies(h)
  <2> DEFINE w == AuthorityCloses(World, h)
  <2>1. /\ Becomes(w) /\ active' = active /\ transition' = transition /\ closing' = closing
        /\ bounds' = bounds /\ valid' = valid /\ faults' \in Nat /\ changes' \in Nat
        BY <1>1, <1>5 DEF AuthorityDies
  <2>2. Fine(w, Helpers) /\ Grows(World, w)
        BY <1>1, AuthorityClosesFine
  <2> HIDE DEF w
  <2>. QED
    BY <2>1, <2>2, StepStays
<1>. QED
  BY <1>2, <1>3, <1>4, <1>5

\* The answers of a helper, its timer, and its end.
LEMMA HostSteps ==
    ASSUME SurfaceInv, NEW h \in Helpers,
           \/ AckTimesOut(h) \/ HostReportsLoss(h) \/ HostEnds(h)
    PROVE  SurfaceInv'
<1>1. /\ Fine(World, Helpers) /\ World.hs = helper /\ World.cs = call /\ World.lost = boundary
      /\ faults \in Nat /\ changes \in Nat /\ boundary \in BOOLEAN
      BY WorldFields DEF SurfaceInv, Fine, IsWorld
<1>2. CASE AckTimesOut(h)
  <2> DEFINE w == AckExpires(World, h)
  <2>1. Becomes(w) /\ active' = active /\ transition' = transition /\ closing' = closing /\ unchangedEnvironment
        BY <1>2 DEF AckTimesOut
  <2>2. World.hs[h].host # "none"
    <3>1. World.hs[h].pending # 0
          BY <1>1, <1>2 DEF AckTimesOut
    <3>2. World.hs[h].pending \in Calls
          BY <1>1, <3>1, PendingLoose
    <3>3. /\ World.cs[World.hs[h].pending].pc = "acking" /\ World.cs[World.hs[h].pending].helper = h
          /\ CallFine(World.cs[World.hs[h].pending], World.hs)
          BY <1>1, <3>1, <3>2 DEF Fine, HelperFine
    <3>. QED
      BY <3>3 DEF CallFine, AtHelper
  <2>3. Fine(w, Helpers) /\ Grows(World, w)
        BY <1>1, <2>2, AckExpiresFine
  <2> HIDE DEF w
  <2>. QED
    BY <2>1, <2>3, Bystanders, StepStays
<1>3. CASE HostReportsLoss(h)
  <2> DEFINE u == [World EXCEPT !.lost = TRUE]
             c == helper[h].pending
             ended == InputEnds(u, h, c, "authority")
             w == IF c = 0 THEN u ELSE ended
  <2>1. Becomes(w) /\ active' = active /\ transition' = transition /\ closing' = closing /\ unchangedEnvironment
        BY <1>3 DEF HostReportsLoss
  <2>2. Fine(u, Helpers) /\ Grows(World, u) /\ u.hs = helper
        BY <1>1, LossFine
  <2> HIDE DEF u
  <2>3. c # 0 => Fine(ended, Helpers) /\ Grows(World, ended)
    <3>1. c # 0 => c \in Calls /\ Loose(u, h, c) /\ "authority" \in Outcomes
          BY <2>2, PendingLoose DEF Outcomes
    <3> HIDE DEF c
    <3>2. c # 0 => Fine(ended, Helpers) /\ Grows(u, ended)
          BY <2>2, <3>1, InputEndsFine
    <3> HIDE DEF ended
    <3>. QED
      BY <2>2, <3>2, GrowsOn
  <2> HIDE DEF ended, c
  <2>4. Fine(w, Helpers) /\ Grows(World, w)
        BY <2>2, <2>3
  <2> HIDE DEF w
  <2>. QED
    BY <2>1, <2>4, Bystanders, StepStays
<1>4. CASE HostEnds(h)
  <2> DEFINE l == boundary \/ (bounds.platform = "successor" /\ ~helper[h].stopping)
             u == [World EXCEPT !.lost = l]
             w == FailActive(u, h)
  <2>1. /\ Becomes(w) /\ active' = active /\ transition' = transition /\ closing' = closing
        /\ bounds' = bounds /\ valid' = valid /\ faults' \in Nat /\ changes' \in Nat
    <3>1. w = HostFails(h)
          BY <1>1 DEF HostFails
    <3> HIDE DEF w
    <3>. QED
      BY <1>1, <1>4, <3>1 DEF HostEnds
  <2>2. l \in BOOLEAN
        BY <1>1
  <2> HIDE DEF l
  <2>3. Fine(u, Helpers) /\ Grows(World, u) /\ u.hs = helper
        BY <1>1, <2>2, LossFine
  <2>4. u.hs[h].host # "none"
        BY <1>4, <2>3 DEF HostEnds
  <2> HIDE DEF u
  <2>5. Fine(w, Helpers) /\ Grows(u, w)
        BY <2>3, <2>4, FailActiveFine
  <2> HIDE DEF w
  <2>6. Grows(World, w)
        BY <2>3, <2>5, GrowsOn
  <2>. QED
    BY <2>1, <2>5, <2>6, StepStays
<1>. QED
  BY <1>2, <1>3, <1>4

\* A line of the helper that is read: the oldest command is settled.
Read(r) == [r EXCEPT !.commands = Tail(@)]

\* The fields of a helper of which a line was read.
LEMMA ReadFacts ==
    ASSUME NEW r, IsHelper(r), r.commands # <<>>
    PROVE  IsHelper(Read(r)) /\ SameQuery(r, Read(r)) /\ SameProcess(r, Read(r)) /\ Read(r).pending = r.pending
<1>1. r \in HelperRecord(r.chain)
      BY DEF IsHelper
<1>2. Tail(r.commands) \in Seq(Calls)
      BY <1>1 DEF HelperRecord
<1>3. Read(r) \in HelperRecord(r.chain) /\ Read(r).chain = r.chain
      BY <1>1, <1>2 DEF HelperRecord, Read
<1>. QED
  BY <1>1, <1>3 DEF IsHelper, HelperRecord, Read, SameQuery, SameProcess

\* The helper answers its oldest command, and the input that waits now is settled.
LEMMA InputAnsweredStep ==
    ASSUME SurfaceInv, NEW h \in Helpers, NEW answer \in {"applied", "failed", "lost"},
           InputAnswered(h, answer)
    PROVE  SurfaceInv'
<1> DEFINE l == boundary \/ (answer = "lost" /\ ~helper[h].failed)
           n == [World EXCEPT !.lost = l]
           u == [World EXCEPT !.hs[h].commands = Tail(@), !.lost = l]
           c == helper[h].pending
           how == CASE answer = "applied" -> "done"
                    [] answer = "failed" -> "plain"
                    [] answer = "lost" -> "authority"
           failing == FailActive(u, h)
           ended == InputEnds(u, h, c, how)
           w == CASE helper[h].failed -> u
                  [] ~helper[h].failed /\ answer = "failed" /\ Linux -> failing
                  [] OTHER -> IF c = 0 THEN u ELSE ended
<1>1. /\ Fine(World, Helpers) /\ World.hs = helper /\ World.cs = call /\ World.lost = boundary
      /\ boundary \in BOOLEAN /\ IsHelper(helper[h]) /\ helper[h].host # "none"
      /\ helper[h].commands # <<>>
      BY WorldFields DEF SurfaceInv, Fine, IsWorld, InputAnswered
<1>2. Becomes(w) /\ active' = active /\ transition' = transition /\ closing' = closing /\ unchangedEnvironment
      BY <1>1 DEF InputAnswered
<1>3. l \in BOOLEAN
      BY <1>1
<1>4. how \in Outcomes
      BY DEF Outcomes
<1> HIDE DEF l, how
<1>5. Fine(n, Helpers) /\ Grows(World, n) /\ n.hs = helper
      BY <1>1, <1>3, LossFine
<1>6. Edited(n, u, h, Read(n.hs[h]), n.cs)
      BY <1>1 DEF Edited, Fine, IsWorld, Read
<1>7. /\ IsHelper(Read(n.hs[h])) /\ Kin(n.hs[h], Read(n.hs[h])) /\ SameQuery(n.hs[h], Read(n.hs[h]))
      /\ Read(n.hs[h]).pending = n.hs[h].pending /\ SameProcess(n.hs[h], Read(n.hs[h]))
  <2>1. IsHelper(n.hs[h]) /\ n.hs[h].commands # <<>>
        BY <1>1, <1>5
  <2> HIDE DEF n
  <2>. QED
    BY <2>1, ReadFacts DEF Kin, SameProcess, SameQuery
<1> HIDE DEF n, u
<1>8. /\ Fine(u, Helpers) /\ Grows(World, u) /\ u.hs[h].host # "none" /\ u.hs[h].pending = c
  <2>1. Fine(u, Helpers) /\ Grows(n, u)
        BY <1>5, <1>6, <1>7, ProcessChanges
  <2>2. u.hs[h].host # "none" /\ u.hs[h].pending = c
        BY <1>1, <1>5, <1>6, <1>7 DEF Edited, SameProcess
  <2>. QED
    BY <1>5, <2>1, <2>2, GrowsOn
<1>9. Fine(failing, Helpers) /\ Grows(World, failing)
  <2>1. Fine(failing, Helpers) /\ Grows(u, failing)
        BY <1>8, FailActiveFine
  <2> HIDE DEF failing
  <2>. QED
    BY <1>8, <2>1, GrowsOn
<1>10. c # 0 => Fine(ended, Helpers) /\ Grows(World, ended)
  <2>1. c # 0 => c \in Calls /\ Loose(u, h, c)
        BY <1>8, PendingLoose
  <2> HIDE DEF c
  <2>2. c # 0 => Fine(ended, Helpers) /\ Grows(u, ended)
        BY <1>4, <1>8, <2>1, InputEndsFine
  <2> HIDE DEF ended
  <2>. QED
    BY <1>8, <2>2, GrowsOn
<1> HIDE DEF failing, ended, c
<1>11. Fine(w, Helpers) /\ Grows(World, w)
      BY <1>8, <1>9, <1>10
<1> HIDE DEF w
<1>. QED
  BY <1>2, <1>11, Bystanders, StepStays

\* The turn of an input: it is over, asks the authority helper, or is written.
LEMMA InputTurnStep ==
    ASSUME SurfaceInv, NEW c \in Calls, InputTurn(c)
    PROVE  SurfaceInv'
<1> DEFINE h == call[c].helper
           unfit == helper[h].failed \/ active # h
           poison == helper[h].poison
           poisoned == InputEnds(World, h, c, poison)
           lost == InputEnds(World, h, c, "authority")
           plain == InputEnds(World, h, c, "plain")
           asks == [World EXCEPT !.hs[h].asking = Append(@, c), !.cs[c].pc = "asking",
                                 !.cs[c].held = helper[h].target \in valid]
           written == Written(World, h, c)
           w == CASE Linux /\ poison # "no" -> poisoned
                  [] ~Linux /\ boundary -> lost
                  [] poison = "no" /\ (Linux \/ ~boundary) /\ unfit -> plain
                  [] Linux /\ poison = "no" /\ ~unfit -> asks
                  [] OTHER -> written
<1>1. Becomes(w) /\ active' = active /\ transition' = transition /\ closing' = closing /\ unchangedEnvironment
      BY DEF InputTurn
<1>2. /\ Fine(World, Helpers) /\ IsWorld(World) /\ World.hs = helper /\ World.cs = call
      /\ call[c].pc = "queued" /\ call[c] \in CallRecord /\ CallFine(call[c], helper)
      BY WorldFields DEF SurfaceInv, Fine, IsWorld, InputTurn, Turn
<1>3. /\ h \in Helpers /\ helper[h].host # "none" /\ helper[h].target = call[c].target
      /\ call[c].kind \in (IF Linux THEN {"capture", "input"} ELSE UseKinds)
      BY <1>2 DEF CallFine, AtHelper, Waits
<1>4. Untied(World, h, c) /\ Loose(World, h, c)
      BY <1>2, <1>3, Elsewhere DEF Loose, AtHelper
<1>5. IsHelper(helper[h])
      BY <1>2, <1>3 DEF IsWorld
<1> DEFINE Good(v) == Fine(v, Helpers) /\ Grows(World, v)
<1>6. poison # "no" => Good(poisoned)
  <2>1. poison \in Outcomes \union {"no"}
        BY <1>5, HelperFields
  <2> HIDE DEF h, poison
  <2>. QED
    BY <1>2, <1>3, <1>4, <2>1, InputEndsFine
<1>7. Good(lost) /\ Good(plain)
  <2>1. "authority" \in Outcomes /\ "plain" \in Outcomes
        BY DEF Outcomes
  <2> HIDE DEF h
  <2>. QED
    BY <1>2, <1>3, <1>4, <2>1, InputEndsFine
<1>8. Good(asks)
  <2> DEFINE b == helper[h].target \in valid
             x == Asking(call[c], b)
  <2>1. Edited(World, asks, h, Queued(World.hs[h], c), [World.cs EXCEPT ![c] = x])
    <3> HIDE DEF h
    <3>. QED
      BY <1>2, <1>3 DEF Edited, IsWorld, Queued, Asking
  <2>2. b \in BOOLEAN
        OBVIOUS
  <2> HIDE DEF b
  <2>3. /\ x \in CallRecord /\ x.pc = "asking" /\ x.helper = h /\ x.held = b
        /\ SameUse(call[c], x)
        BY <1>2, <1>3, <2>2, AskingFields
  <2> HIDE DEF asks, x
  <2>4. CallFine(x, asks.hs)
    <3>1. asks.hs[h] = Queued(helper[h], c) /\ SameProcess(helper[h], Queued(helper[h], c))
          BY <1>2, <1>5, <2>1, AsksFacts DEF Edited
    <3>. QED
      BY <1>3, <2>3, <3>1 DEF CallFine, SameProcess, SameUse, AtHelper, b
  <2>5. World.cs[c].pc \notin {"asking", "acking"} /\ World.cs[c].pc \in AtHelper
        BY <1>2 DEF AtHelper
  <2> HIDE DEF h
  <2>. QED
    BY <1>2, <1>3, <2>1, <2>3, <2>4, <2>5, Enqueued
<1>9. ~Linux => Good(written)
  <2>1. World.cs[c].pc \in AtHelper /\ World.cs[c].helper = h
        BY <1>2 DEF AtHelper
  <2> HIDE DEF h
  <2>. QED
    BY <1>2, <1>3, <1>4, <2>1, WrittenFine
<1> HIDE DEF poisoned, lost, plain, asks, written, poison, unfit
<1>10. Good(w)
      BY <1>6, <1>7, <1>8, <1>9
<1> HIDE DEF w
<1>. QED
  BY <1>1, <1>10, Bystanders, StepStays

\* Frames.
Framed(r) == [r EXCEPT !.framed = TRUE]
Fresh(x) == [x EXCEPT !.fresh = TRUE]

\* The fields of a helper that has sent a frame.
LEMMA FrameFacts ==
    /\ \A r : IsHelper(r) => /\ IsHelper(Framed(r)) /\ SameQuery(r, Framed(r))
                             /\ SameProcess(r, Framed(r)) /\ Framed(r).pending = r.pending
    /\ \A x \in CallRecord : /\ Fresh(x) \in CallRecord /\ Fresh(x).pc = x.pc
                             /\ Fresh(x).helper = x.helper /\ Fresh(x).held = x.held
                             /\ SameUse(x, Fresh(x))
<1>1. ASSUME NEW r, IsHelper(r)
      PROVE  /\ IsHelper(Framed(r)) /\ SameQuery(r, Framed(r))
             /\ SameProcess(r, Framed(r)) /\ Framed(r).pending = r.pending
  <2>1. r \in HelperRecord(r.chain)
        BY <1>1 DEF IsHelper
  <2>2. Framed(r) \in HelperRecord(r.chain) /\ Framed(r).chain = r.chain
        BY <2>1 DEF HelperRecord, Framed
  <2>. QED
    BY <2>1, <2>2 DEF IsHelper, HelperRecord, Framed, SameQuery, SameProcess
<1>2. \A x \in CallRecord : /\ Fresh(x) \in CallRecord /\ Fresh(x).pc = x.pc
                            /\ Fresh(x).helper = x.helper /\ Fresh(x).held = x.held
                            /\ SameUse(x, Fresh(x))
      BY DEF CallRecord, Fresh, SameUse
<1>. QED
  BY <1>1, <1>2

\* A frame serves the captures that wait, and tells those that ask that it came.
LEMMA FrameArrivesStep ==
    ASSUME SurfaceInv, NEW h \in Helpers, FrameArrives(h)
    PROVE  SurfaceInv'
<1> DEFINE u == [World EXCEPT !.hs[h].framed = TRUE]
           cs == [c \in Calls |->
                    CASE CaptureOf(c, h) /\ call[c].pc = "waiting" -> EndedFinally(call, c, "done")[c]
                      [] CaptureOf(c, h) /\ call[c].pc = "asking" -> [call[c] EXCEPT !.fresh = TRUE]
                      [] OTHER -> call[c]]
           w == [World EXCEPT !.hs[h].framed = TRUE, !.cs = cs]
<1>1. Becomes(w) /\ active' = active /\ transition' = transition /\ closing' = closing /\ unchangedEnvironment
      BY WorldFields DEF FrameArrives
<1>2. /\ Fine(World, Helpers) /\ IsWorld(World) /\ World.hs = helper /\ World.cs = call
      /\ IsHelper(helper[h])
      BY WorldFields DEF SurfaceInv, Fine, IsWorld
<1>3. Edited(World, u, h, Framed(World.hs[h]), World.cs)
      BY <1>2 DEF Edited, IsWorld, Framed
<1>4. /\ DOMAIN w = {"hs", "cs", "lost"} /\ w.hs = u.hs /\ w.lost = u.lost /\ w.cs = cs
      BY <1>2 DEF IsWorld
<1> HIDE DEF u, w
<1>5. Fine(u, Helpers) /\ Grows(World, u) /\ u.cs = call
  <2>1. /\ IsHelper(Framed(World.hs[h])) /\ SameQuery(World.hs[h], Framed(World.hs[h]))
        /\ SameProcess(World.hs[h], Framed(World.hs[h]))
        /\ Framed(World.hs[h]).pending = World.hs[h].pending
        BY <1>2, FrameFacts
  <2>2. Kin(World.hs[h], Framed(World.hs[h]))
        BY <2>1 DEF Kin, SameQuery, SameProcess
  <2>. QED
    BY <1>2, <1>3, <2>1, <2>2, ProcessChanges DEF Edited
<1>6. ASSUME NEW c \in Calls
      PROVE  \/ cs[c] = call[c]
             \/ Left(cs[c]) /\ call[c].pc = "waiting"
             \/ cs[c] = Fresh(call[c])
  <2>1. CASE CaptureOf(c, h) /\ call[c].pc = "waiting"
    <3>1. PICK x : EndedFinally(World.cs, c, "done") = [World.cs EXCEPT ![c] = x] /\ Left(x)
          BY <1>2, EndedFacts DEF Outcomes
    <3>2. cs[c] = x
          BY <1>2, <2>1, <3>1 DEF IsWorld
    <3>. QED
      BY <2>1, <3>1, <3>2
  <2>2. CASE CaptureOf(c, h) /\ call[c].pc = "asking"
        BY <2>2 DEF Fresh
  <2>3. CASE ~(CaptureOf(c, h) /\ call[c].pc \in {"waiting", "asking"})
        BY <2>3
  <2>. QED
    BY <2>1, <2>2, <2>3
<1>7. ASSUME NEW c \in Calls
      PROVE  /\ cs[c] \in CallRecord
             /\ \/ cs[c] = call[c]
                \/ /\ CallFine(cs[c], u.hs)
                   /\ \/ call[c].pc \notin {"asking", "acking"}
                      \/ /\ cs[c].pc = call[c].pc /\ cs[c].helper = call[c].helper
                         /\ cs[c].held = call[c].held
  <2>1. call[c] \in CallRecord /\ CallFine(call[c], u.hs)
        BY <1>2, <1>5 DEF Fine, IsWorld
  <2>2. CASE Left(cs[c]) /\ call[c].pc = "waiting"
        BY <2>2, LeftFine DEF Left
  <2>3. CASE cs[c] = Fresh(call[c])
    <3>1. /\ cs[c] \in CallRecord /\ cs[c].pc = call[c].pc /\ cs[c].helper = call[c].helper
          /\ cs[c].held = call[c].held /\ SameUse(call[c], cs[c])
          BY <2>1, <2>3, FrameFacts
    <3> HIDE DEF cs
    <3>2. CallFine(cs[c], u.hs)
          BY <2>1, <3>1 DEF CallFine, SameUse
    <3>. QED
      BY <3>1, <3>2
  <2>4. CASE cs[c] = call[c]
        BY <2>1, <2>4
  <2> HIDE DEF cs
  <2>. QED
    BY <1>6, <2>2, <2>3, <2>4
<1>8. w.cs \in [Calls -> CallRecord]
      BY <1>4, <1>7
<1>9. u.lost \in BOOLEAN
      BY <1>5 DEF Fine, IsWorld
<1>10. Fine(w, Helpers) /\ Akin(u, w)
  <2> HIDE DEF cs
  <2>. QED
    BY <1>4, <1>5, <1>7, <1>8, <1>9, CallsMove
<1>11. ASSUME NEW c \in Calls, call[c].pc \notin AtHelper PROVE cs[c] = call[c]
      BY <1>11 DEF AtHelper
<1> HIDE DEF cs
<1>12. Grows(World, w)
      BY <1>2, <1>4, <1>5, <1>10, <1>11 DEF Grows, Akin, Kin
<1>. QED
  BY <1>1, <1>10, <1>12, Bystanders, StepStays

\* The time of a capture is over.
LEMMA FrameTimesOutStep ==
    ASSUME SurfaceInv, NEW c \in Calls, FrameTimesOut(c)
    PROVE  SurfaceInv'
<1> DEFINE how == IF boundary /\ ~Linux THEN "authority" ELSE "plain"
           u == [World EXCEPT !.cs = Ended(World.cs, c, how)]
           h == call[c].helper
           failing == FailActive(u, h)
           w == IF Retries(call, c, how) THEN failing ELSE u
<1>1. Becomes(w) /\ active' = active /\ transition' = transition /\ closing' = closing /\ unchangedEnvironment
      BY DEF FrameTimesOut
<1>2. /\ Fine(World, Helpers) /\ IsWorld(World) /\ World.hs = helper /\ World.cs = call
      /\ call[c].pc = "waiting" /\ CallFine(call[c], helper)
      BY WorldFields DEF SurfaceInv, Fine, IsWorld, FrameTimesOut
<1>3. h \in Helpers /\ helper[h].host # "none"
      BY <1>2 DEF CallFine, AtHelper
<1>4. how \in Outcomes
      BY DEF Outcomes
<1> HIDE DEF how, h
<1>5. PICK x : Ended(World.cs, c, how) = [World.cs EXCEPT ![c] = x] /\ Left(x)
      BY <1>2, <1>4, EndedFacts
<1>6. u = [World EXCEPT !.cs = [World.cs EXCEPT ![c] = x]]
      BY <1>5
<1>7. x \in CallRecord /\ CallFine(x, World.hs)
      BY <1>5, LeftFine DEF Left
<1> HIDE DEF u
<1>8. Fine(u, Helpers) /\ Grows(World, u) /\ u.hs = World.hs
  <2>1. World.cs[c].pc \in AtHelper /\ World.cs[c].pc \notin {"asking", "acking"}
        BY <1>2 DEF AtHelper
  <2>. QED
    BY <1>2, <1>6, <1>7, <2>1, UseChanges
<1>9. Fine(failing, Helpers) /\ Grows(World, failing)
  <2>1. Fine(failing, Helpers) /\ Grows(u, failing)
        BY <1>2, <1>3, <1>8, FailActiveFine
  <2> HIDE DEF failing
  <2>. QED
    BY <1>8, <2>1, GrowsOn
<1> HIDE DEF failing
<1>10. Fine(w, Helpers) /\ Grows(World, w)
      BY <1>8, <1>9
<1> HIDE DEF w
<1>. QED
  BY <1>1, <1>10, Bystanders, StepStays

\* A step that leaves the processes and the transition alone.
LEMMA StepAside ==
    ASSUME SurfaceInv, Fine(World, Helpers)', bounds' = bounds, faults' \in Nat, changes' \in Nat,
           active' = active, transition' = transition, ClosingFine',
           \A h \in Helpers : SameProcess(helper[h], helper'[h]),
           \A c \in Calls : call[c].pc = "owning" => call'[c].pc = "owning"
    PROVE  SurfaceInv'
<1>1. OnlyActive'
      BY DEF SurfaceInv, OnlyActive, SameProcess
<1>2. TransitionFine'
      BY DEF SurfaceInv, TransitionFine
<1>3. ActiveFine'
  <2>1. active # 0 => active \in Helpers
        BY SurfaceAssumption DEF SurfaceInv, ActiveFine, Helpers
  <2>. QED
    BY <2>1 DEF SurfaceInv, ActiveFine, SameProcess
<1>. QED
  BY <1>1, <1>2, <1>3 DEF SurfaceInv

\* A use is made, or tries again.
LEMMA UseSteps ==
    ASSUME SurfaceInv, NEW c \in Calls,
           RestEnds(c) \/ \E k \in UseKinds, t \in Targets : Begin(c, k, t)
    PROVE  SurfaceInv'
<1>1. /\ Fine(World, Helpers) /\ IsWorld(World) /\ World.hs = helper /\ World.cs = call
      /\ World.lost = boundary /\ call \in [Calls -> CallRecord] /\ CallFine(call[c], helper)
      BY WorldFields DEF SurfaceInv, Fine, IsWorld
<1>2. PICK x \in CallRecord :
          /\ call' = [call EXCEPT ![c] = x] /\ CallFine(x, helper)
          /\ call[c].pc \in {"idle", "resting"}
  <2>1. CASE RestEnds(c)
    <3> DEFINE x == Now(call[c], "ensure")
    <3>1. "ensure" \in Waits /\ "resting" \in Waits
          BY DEF Waits
    <3>2. x \in CallRecord /\ x.pc = "ensure" /\ SameUse(call[c], x)
          BY <1>1, <3>1, NowFields
    <3>3. call' = [call EXCEPT ![c] = x] /\ call[c].pc = "resting"
          BY <2>1 DEF RestEnds, Now
    <3> HIDE DEF x
    <3>4. CallFine(x, helper)
          BY <1>1, <3>1, <3>2, <3>3 DEF CallFine, SameUse, AtHelper
    <3>. QED
      BY <3>2, <3>3, <3>4
  <2>2. CASE \E k \in UseKinds, t \in Targets : Begin(c, k, t)
    <3>1. PICK k \in UseKinds, t \in Targets : Begin(c, k, t)
          BY <2>2
    <3> DEFINE x == [NoCall EXCEPT !.kind = k, !.target = t, !.pc = "ensure"]
    <3>2. /\ x \in CallRecord /\ x.pc = "ensure" /\ x.kind = k
          BY NoCallFacts DEF CallRecord, NoCall, Waits, Windows
    <3>3. /\ call' = [call EXCEPT ![c] = x] /\ call[c].pc = "idle"
          /\ k \in (IF Linux THEN {"capture", "input"} ELSE UseKinds)
          BY <3>1 DEF Begin
    <3> HIDE DEF x
    <3>4. CallFine(x, helper)
          BY <3>2, <3>3 DEF CallFine, AtHelper
    <3>. QED
      BY <3>2, <3>3, <3>4
  <2>. QED
    BY <2>1, <2>2
<1>3. /\ helper' = helper /\ active' = active /\ transition' = transition /\ boundary' = boundary
      /\ closing' = closing /\ unchangedEnvironment
      BY DEF RestEnds, Begin
<1> DEFINE w == [World EXCEPT !.cs = [World.cs EXCEPT ![c] = x]]
<1>4. World.cs[c].pc \notin {"asking", "acking"} /\ CallFine(x, World.hs)
      BY <1>1, <1>2
<1>5. w.cs = call'
      BY <1>1, <1>2 DEF IsWorld
<1>6. Fine(w, Helpers) /\ w.hs = World.hs /\ w.lost = World.lost
  <2> DEFINE y == w
  <2>1. y = [World EXCEPT !.cs = [World.cs EXCEPT ![c] = x]]
        OBVIOUS
  <2> HIDE DEF y
  <2>. QED
    BY <1>1, <1>2, <1>4, <2>1, UseChanges DEF y
<1> HIDE DEF w
<1>7. Fine(World, Helpers)'
      BY <1>1, <1>3, <1>5, <1>6, Carried, Bystanders
<1>8. \A d \in Calls : call[d].pc = "owning" => call'[d].pc = "owning"
      BY <1>1, <1>2
<1>9. ClosingFine' /\ \A h \in Helpers : SameProcess(helper[h], helper'[h])
      BY <1>3 DEF SurfaceInv, ClosingFine, SameProcess
<1>. QED
  BY <1>3, <1>7, <1>8, <1>9, Bystanders, StepAside

\* The authority helper looks at the window and answers.
LEMMA AuthorityAnswersStep ==
    ASSUME SurfaceInv, NEW h \in Helpers, AuthorityAnswers(h)
    PROVE  SurfaceInv'
<1> DEFINE a == IF helper[h].target \in valid THEN "ok" ELSE "lost"
<1>1. PICK i \in 1..Len(helper[h].pipe) : helper' = [helper EXCEPT ![h].pipe[i] = a]
      BY DEF AuthorityAnswers
<1>2. /\ call' = call /\ active' = active /\ transition' = transition /\ boundary' = boundary
      /\ closing' = closing /\ unchangedEnvironment
      BY DEF AuthorityAnswers
<1>3. /\ Fine(World, Helpers) /\ IsWorld(World) /\ World.hs = helper /\ World.cs = call
      /\ World.lost = boundary /\ IsHelper(helper[h])
      BY WorldFields DEF SurfaceInv, Fine, IsWorld
<1> DEFINE w == [World EXCEPT !.hs[h].pipe[i] = a]
<1>4. Fine(w, Helpers)
      BY <1>3, AnswerFine
<1>5. w.hs = helper' /\ w.cs = call' /\ w.lost = boundary'
      BY <1>1, <1>2, <1>3 DEF IsWorld
<1> HIDE DEF w
<1>6. Fine(World, Helpers)'
      BY <1>2, <1>4, <1>5, Carried, Bystanders
<1>7. \A g \in Helpers : SameProcess(helper[g], helper'[g])
  <2>1. helper[h] \in HelperRecord(helper[h].chain) /\ DOMAIN helper = Helpers
        BY <1>3 DEF IsHelper, IsWorld
  <2> HIDE DEF a
  <2>. QED
    BY <1>1, <2>1 DEF SameProcess, HelperRecord
<1>8. ClosingFine' /\ \A c \in Calls : call[c].pc = "owning" => call'[c].pc = "owning"
      BY <1>2 DEF SurfaceInv, ClosingFine
<1>. QED
  BY <1>2, <1>6, <1>7, <1>8, Bystanders, StepAside

\* A window comes or goes, and a use that asks has seen it valid.
LEMMA ValidityChangesStep ==
    ASSUME SurfaceInv, NEW t \in Targets, ValidityChanges(t)
    PROVE  SurfaceInv'
<1>1. /\ call' = [c \in Calls |-> [call[c] EXCEPT !.held =
                     @ \/ (call[c].target \in valid' /\ call[c].pc = "asking")]]
      /\ helper' = helper /\ active' = active /\ transition' = transition /\ boundary' = boundary
      /\ closing' = closing /\ bounds' = bounds /\ faults' = faults /\ changes' = changes + 1
      BY DEF ValidityChanges
<1>2. /\ Fine(World, Helpers) /\ IsWorld(World) /\ World.hs = helper /\ World.cs = call
      /\ World.lost = boundary /\ call \in [Calls -> CallRecord]
      BY WorldFields DEF SurfaceInv, Fine, IsWorld
<1>3. World'.hs = helper /\ World'.cs = call' /\ World'.lost = boundary /\ DOMAIN World' = {"hs", "cs", "lost"}
      BY <1>1 DEF World
<1>4. ASSUME NEW c \in Calls
      PROVE  /\ call'[c] \in CallRecord /\ call'[c].pc = call[c].pc
             /\ call'[c].helper = call[c].helper /\ SameUse(call[c], call'[c])
             /\ call[c].held => call'[c].held
             /\ call[c].target \in valid' /\ call[c].pc = "asking" => call'[c].held
  <2>1. call[c] \in CallRecord
        BY <1>2
  <2> DEFINE b == call[c].held \/ (call[c].target \in valid' /\ call[c].pc = "asking")
  <2>2. call'[c] = [call[c] EXCEPT !.held = b] /\ b \in BOOLEAN
        BY <1>1, <2>1 DEF CallRecord
  <2>3. /\ call[c].held => b
        /\ call[c].target \in valid' /\ call[c].pc = "asking" => b
        OBVIOUS
  <2> HIDE DEF b
  <2>. QED
    BY <2>1, <2>2, <2>3 DEF CallRecord, SameUse
<1>5. call' \in [Calls -> CallRecord]
      BY <1>1, <1>4
<1>6. IsWorld(World)'
      BY <1>2, <1>3, <1>5 DEF IsWorld
<1>7. ASSUME NEW c \in Calls PROVE CallFine(World.cs[c], World.hs)'
  <2>1. CallFine(call[c], helper)
        BY <1>2 DEF Fine
  <2>. QED
    BY <1>1, <1>3, <1>4, <2>1 DEF CallFine, SameUse, Linux
<1>8. ASSUME NEW h \in Helpers PROVE HelperFine(World.hs[h], h, World.cs)' /\ QueryFine(World.hs[h], World.cs)'
  <2>1. /\ IsHelper(helper[h]) /\ HelperFine(helper[h], h, call) /\ QueryFine(helper[h], call)
        /\ \A i \in 1..Len(helper[h].asking) : helper[h].asking[i] \in Calls
        /\ helper[h].pending # 0 => helper[h].pending \in Calls
        /\ Len(helper[h].asking) \in Nat
        BY <1>2, HelperFields DEF Fine, IsWorld
  <2>2. HelperFine(helper[h], h, call')
        BY <1>4, <2>1 DEF HelperFine
  <2>3. helper[h].asked => helper[h].asking[1] \in Calls
        BY <2>1 DEF HelperFine
  <2>4. QueryFine(World.hs[h], World.cs)'
        BY <1>1, <1>3, <1>4, <2>1, <2>3 DEF QueryFine, Linux
  <2>. QED
    BY <1>3, <2>2, <2>4 DEF HelperFine
<1>9. Fine(World, Helpers)'
      BY <1>6, <1>7, <1>8 DEF Fine
<1>10. /\ faults' \in Nat /\ changes' \in Nat /\ ClosingFine'
       /\ \A h \in Helpers : SameProcess(helper[h], helper'[h])
       /\ \A c \in Calls : call[c].pc = "owning" => call'[c].pc = "owning"
      BY <1>1, <1>4 DEF SurfaceInv, ClosingFine, SameProcess
<1>. QED
  BY <1>1, <1>9, <1>10, StepAside

\* The transition goes on while its owner waits for it.
LEMMA TransitionKept ==
    ASSUME SurfaceInv, NEW w, Becomes(w), transition' = transition, active' \in {active, 0},
           \A c \in Calls : call[c].pc = "owning" => w.cs[c].pc = "owning"
    PROVE  TransitionFine'
  BY DEF SurfaceInv, TransitionFine, Becomes

\* close() waits for the transition, takes the helper, and waits for its end.
LEMMA CloseSteps ==
    ASSUME SurfaceInv, Close \/ CloseTakes \/ CloseEnds
    PROVE  SurfaceInv'
<1>1. /\ Fine(World, Helpers) /\ World.hs = helper /\ World.cs = call /\ World.lost = boundary
      /\ ActiveFine /\ ClosingFine
      BY WorldFields DEF SurfaceInv
<1>2. CASE Close
  <2>1. /\ helper' = helper /\ call' = call /\ boundary' = boundary /\ active' = active
        /\ transition' = transition /\ unchangedEnvironment
        /\ closing' = [closing EXCEPT !.phase = IF transition.phase = "none" THEN "taking" ELSE "waiting"]
        BY <1>2 DEF Close
  <2>2. ClosingFine'
        BY <1>1, <2>1 DEF ClosingFine
  <2>3. Fine(World, Helpers)'
        BY <1>1, <2>1, Carried, Bystanders
  <2>4. \A h \in Helpers : SameProcess(helper[h], helper'[h])
        BY <2>1 DEF SameProcess
  <2>. QED
    BY <2>1, <2>2, <2>3, <2>4, Bystanders, StepAside
<1>3. CASE CloseTakes
  <2> DEFINE stops == StopBegins(World, active)
             w == IF active = 0 THEN World ELSE stops
  <2>1. /\ Becomes(w) /\ active' = 0 /\ transition' = transition /\ unchangedEnvironment
        /\ closing' = [phase |-> IF active = 0 THEN "closed" ELSE "stopping", of |-> active]
        BY <1>3 DEF CloseTakes
  <2>2. active # 0 => active \in Helpers
        BY <1>1, SurfaceAssumption DEF ActiveFine, Helpers
  <2>3. active # 0 => Fine(stops, Helpers) /\ Grows(World, stops) /\ stops.hs[active].stopping = TRUE
        BY <1>1, <2>2, StopBeginsFine
  <2>4. Grows(World, World)
        BY DEF Grows, Akin, Kin
  <2> HIDE DEF stops
  <2>5. /\ Fine(w, Helpers) /\ Grows(World, w)
        /\ active # 0 => w.hs[active].stopping = TRUE
        BY <1>1, <2>3, <2>4
  <2> HIDE DEF w
  <2>6. \A c \in Calls : call[c].pc = "owning" => w.cs[c].pc = "owning"
        BY <1>1, <2>5 DEF Grows, AtHelper
  <2>7. TransitionFine'
        BY <2>1, <2>6, TransitionKept
  <2>8. ClosingFine'
        BY <1>1, <2>1, <2>2 DEF ClosingFine, ActiveFine
  <2>9. Akin(World, w)
        BY <2>5 DEF Grows
  <2>. QED
    BY <2>1, <2>5, <2>7, <2>8, <2>9, Bystanders, StepKeeps
<1>4. CASE CloseEnds
  <2> DEFINE w == StopEnds(World, closing.of)
  <2>1. /\ Becomes(w) /\ active' = active /\ transition' = transition /\ unchangedEnvironment
        /\ closing' = [phase |-> "closed", of |-> 0] /\ closing.of \in Helpers
        BY <1>1, <1>4 DEF CloseEnds, ClosingFine
  <2>2. Fine(w, Helpers) /\ Grows(World, w)
        BY <1>1, <2>1, StopEndsFine
  <2> HIDE DEF w
  <2>3. \A c \in Calls : call[c].pc = "owning" => w.cs[c].pc = "owning"
        BY <1>1, <2>2 DEF Grows, AtHelper
  <2>4. TransitionFine'
        BY <2>1, <2>3, TransitionKept
  <2>5. ClosingFine'
    <3>1. 0 \in 0..MaxHelpers
          BY SurfaceAssumption
    <3>. QED
      BY <2>1, <3>1 DEF ClosingFine
  <2>6. Akin(World, w)
        BY <2>2 DEF Grows
  <2>. QED
    BY <2>1, <2>2, <2>4, <2>5, <2>6, Bystanders, StepKeeps
<1>. QED
  BY <1>2, <1>3, <1>4

\* #ensure(): the boundary is lost, the helper is usable, a replacement begins or is joined.
LEMMA EnsureStep ==
    ASSUME SurfaceInv, NEW c \in Calls, Ensure(c)
    PROVE  SurfaceInv'
<1>1. /\ Fine(World, Helpers) /\ IsWorld(World) /\ World.hs = helper /\ World.cs = call
      /\ World.lost = boundary /\ ActiveFine /\ TransitionFine /\ call \in [Calls -> CallRecord]
      /\ CallFine(call[c], helper) /\ call[c].pc = "ensure"
      BY WorldFields DEF SurfaceInv, Fine, IsWorld, Ensure
<1>2. unchangedEnvironment /\ closing' = closing
      BY DEF Ensure
<1>3. ClosingFine'
      BY <1>2 DEF SurfaceInv, ClosingFine
<1>4. active # 0 => active \in Helpers
      BY <1>1, SurfaceAssumption DEF ActiveFine, Helpers
\* A next world in which only the use c differs.
<1>5. ASSUME NEW w, Becomes(w), Fine(w, Helpers), Akin(World, w),
             \A d \in Calls : d # c => w.cs[d] = call[d],
             active' = active, transition' = transition
      PROVE  SurfaceInv'
  <2>1. \A d \in Calls : call[d].pc = "owning" => w.cs[d].pc = "owning"
        BY <1>1, <1>5
  <2>2. TransitionFine'
        BY <1>5, <2>1, TransitionKept
  <2>. QED
    BY <1>2, <1>3, <1>5, <2>2, Bystanders, StepKeeps
<1>6. CASE boundary /\ ~Linux
  <2> DEFINE w == [World EXCEPT !.cs = EndedFinally(@, c, "authority")]
  <2>1. Becomes(w) /\ active' = active /\ transition' = transition
        BY <1>6 DEF Ensure
  <2> DEFINE how == "authority"
  <2>2. how \in Outcomes /\ w = [World EXCEPT !.cs = EndedFinally(@, c, how)]
        BY DEF Outcomes
  <2> HIDE DEF how, w
  <2>3. PICK x : EndedFinally(World.cs, c, how) = [World.cs EXCEPT ![c] = x] /\ Left(x)
    <3>1. IsWorld(World) /\ how \in Outcomes
          BY <1>1, <2>2
    <3>2. \E x : /\ EndedFinally(World.cs, c, how) = [World.cs EXCEPT ![c] = x]
                 /\ Left(x) /\ x.pc = how
          BY ONLY <3>1, EndedFacts
    <3>. QED
      BY <3>2
  <2>4. w = [World EXCEPT !.cs = [World.cs EXCEPT ![c] = x]]
        BY <2>2, <2>3
  <2>5. x \in CallRecord /\ CallFine(x, World.hs) /\ World.cs[c].pc \notin {"asking", "acking"}
        BY <1>1, <2>3, LeftFine DEF Left
  <2>6. /\ Fine(w, Helpers) /\ Akin(World, w)
        /\ \A d \in Calls : d # c => w.cs[d] = World.cs[d]
        BY <1>1, <2>4, <2>5, UseChanges
  <2>. QED
    BY <1>1, <1>5, <2>1, <2>6
<1>7. CASE ~(boundary /\ ~Linux) /\ Usable(call[c].target)
  <2> DEFINE w == Proceed(World, c, active, FALSE)
  <2>1. Becomes(w) /\ active' = active /\ transition' = transition
        BY <1>7 DEF Ensure
  <2>2. /\ active \in Helpers /\ World.hs[active].host # "none" /\ FALSE \in BOOLEAN
        /\ World.hs[active].target = World.cs[c].target /\ World.cs[c].pc \in {"ensure", "owning"}
        BY <1>1, <1>4, <1>7 DEF Usable, ActiveFine
  <2>3. /\ Fine(w, Helpers) /\ Akin(World, w)
        /\ \A d \in Calls : d # c => w.cs[d] = World.cs[d]
        BY <1>1, <2>2, ProceedFine
  <2> HIDE DEF w
  <2>. QED
    BY <1>1, <1>5, <2>1, <2>3
<1>8. CASE ~(boundary /\ ~Linux) /\ ~Usable(call[c].target) /\ transition.phase = "none"
  <2> DEFINE u == IF active = 0 THEN World ELSE StopBegins(World, active)
             x == Now(u.cs[c], "owning")
             w == [u EXCEPT !.cs[c].pc = "owning"]
  <2>1. /\ Becomes(w) /\ active' = 0
        /\ transition' = [phase |-> "stopping", target |-> call[c].target, owner |-> c, of |-> active]
        BY <1>8 DEF Ensure, Previous
  <2>2. /\ Fine(u, Helpers) /\ Grows(World, u) /\ u.lost = World.lost
        /\ active # 0 => u.hs[active].stopping = TRUE
    <3>1. Grows(World, World)
          BY DEF Grows, Akin, Kin
    <3>2. active # 0 => LET v == StopBegins(World, active) IN
                        Fine(v, Helpers) /\ Grows(World, v) /\ v.lost = World.lost /\ v.hs[active].stopping = TRUE
          BY <1>1, <1>4, StopBeginsFine
    <3>. QED
      BY <1>1, <3>1, <3>2
  <2> HIDE DEF u
  <2>3. u.cs[c] = call[c] /\ u.cs[c].pc = "ensure" /\ u.cs \in [Calls -> CallRecord]
        BY <1>1, <2>2 DEF Grows, AtHelper, Fine, IsWorld
  <2>4. "owning" \in Waits /\ "ensure" \in Waits
        BY DEF Waits
  <2>5. x \in CallRecord /\ x.pc = "owning" /\ SameUse(call[c], x)
        BY <1>1, <2>3, <2>4, NowFields
  <2>6. w = [u EXCEPT !.cs = [u.cs EXCEPT ![c] = x]]
        BY <2>3 DEF Now
  <2> HIDE DEF x, w
  <2>7. CallFine(x, u.hs)
        BY <1>1, <2>4, <2>5 DEF CallFine, SameUse, AtHelper
  <2>8. /\ Fine(w, Helpers) /\ Akin(u, w) /\ w.hs = u.hs /\ w.cs[c] = x
        /\ \A d \in Calls : d # c => w.cs[d] = u.cs[d]
        BY <2>2, <2>3, <2>5, <2>6, <2>7, UseChanges
  <2>9. Akin(World, w) /\ (active # 0 => w.hs[active].stopping = TRUE)
        BY <2>2, <2>8 DEF Grows, Akin, Kin
  <2>10. TransitionFine'
    <3>1. call'[c].pc = "owning"
          BY <2>1, <2>5, <2>8 DEF Becomes
    <3>2. call[c].target \in Windows /\ c \in 0..MaxCalls /\ active \in 0..MaxHelpers
          BY <1>1, SurfaceAssumption DEF CallRecord, Calls, ActiveFine
    <3>. QED
      BY <2>1, <3>1, <3>2 DEF TransitionFine
  <2>. QED
    BY <1>2, <1>3, <2>1, <2>8, <2>9, <2>10, Bystanders, StepKeeps
<1>9. CASE ~(boundary /\ ~Linux) /\ ~Usable(call[c].target) /\ transition.phase # "none"
  <2> DEFINE x == Now(call[c], "joining")
             w == [World EXCEPT !.cs[c].pc = "joining"]
  <2>1. Becomes(w) /\ active' = active /\ transition' = transition
        BY <1>9 DEF Ensure
  <2>2. "joining" \in Waits /\ "ensure" \in Waits
        BY DEF Waits
  <2>3. x \in CallRecord /\ x.pc = "joining" /\ SameUse(call[c], x)
        BY <1>1, <2>2, NowFields
  <2>4. w = [World EXCEPT !.cs = [World.cs EXCEPT ![c] = x]]
        BY <1>1 DEF Now
  <2> HIDE DEF x, w
  <2>5. CallFine(x, World.hs) /\ World.cs[c].pc \notin {"asking", "acking"}
        BY <1>1, <2>2, <2>3 DEF CallFine, SameUse, AtHelper
  <2>6. /\ Fine(w, Helpers) /\ Akin(World, w)
        /\ \A d \in Calls : d # c => w.cs[d] = World.cs[d]
        BY <1>1, <2>3, <2>4, <2>5, UseChanges
  <2>. QED
    BY <1>1, <1>5, <2>1, <2>6
<1>. QED
  BY <1>6, <1>7, <1>8, <1>9

\* The transition has settled, and with it what close() waits for.
LEMMA TransitionEndsStep ==
    ASSUME SurfaceInv, transition.phase # "none", NEW how \in Outcomes, TransitionEnds(World, how),
           active' = active, bounds' = bounds, valid' = valid, faults' \in Nat, changes' \in Nat
    PROVE  SurfaceInv'
<1> DEFINE w == Continued(World, how)
<1>1. /\ Becomes(w) /\ transition' = NoTransition
      /\ closing' = [closing EXCEPT !.phase = IF @ = "waiting" THEN "taking" ELSE @]
      BY DEF TransitionEnds
<1>2. Fine(w, Helpers) /\ Akin(World, w)
      BY ContinuedFine
<1> HIDE DEF w
<1>3. TransitionFine'
  <2>1. 0 \in 0..MaxCalls /\ 0 \in 0..MaxHelpers /\ AnyTarget \in Windows
        BY SurfaceAssumption DEF Windows
  <2>. QED
    BY <1>1, <2>1 DEF TransitionFine, NoTransition
<1>4. ClosingFine'
      BY <1>1 DEF SurfaceInv, ClosingFine
<1>. QED
  BY <1>1, <1>2, <1>3, <1>4, StepKeeps

\* A helper is started when there is none: it is the active one from then on.
LEMMA SpawnStep ==
    ASSUME SurfaceInv, transition.phase \in {"stopping", "starting"},
           NEW u, Fine(u, Helpers), Grows(World, u), NEW h \in Helpers, helper[h].host = "none",
           NEW a \in {"none", "up"}, Becomes(Spawned(u, h, transition.target, a)), AwaitFirst(h),
           closing' = closing, bounds' = bounds, valid' = valid, faults' \in Nat, changes' \in Nat
    PROVE  SurfaceInv'
<1> DEFINE v == Spawned(u, h, transition.target, a)
<1>1. /\ active = 0 /\ transition.target \in Windows /\ transition.owner \in Calls
      /\ call[transition.owner].pc = "owning" /\ OnlyActive /\ TransitionFine
      BY DEF SurfaceInv, TransitionFine
<1>2. u.hs[h].host = "none" /\ Akin(World, u) /\ World.hs = helper /\ World.cs = call
      BY WorldFields DEF Grows, Akin, Kin
<1>3. /\ Fine(v, Helpers) /\ v.cs = u.cs /\ v.hs[h].host = "up"
      /\ \A g \in Helpers : g # h => v.hs[g] = u.hs[g]
      BY <1>1, <1>2, SpawnedFine
<1>4. Becomes(v)
      OBVIOUS
<1> HIDE DEF v
<1>5. /\ Fine(World, Helpers)' /\ call' = u.cs
      /\ \A g \in Helpers :
            helper'[g] = v.hs[g] \/ (helper'[g].host = "none" /\ v.hs[g].host = "down")
      BY <1>3, <1>4, Forgetting
<1>6. active' = h /\ transition' = [transition EXCEPT !.phase = "firstframe", !.of = h]
      BY DEF AwaitFirst
<1>7. OnlyActive'
  <2>1. ASSUME NEW g \in Helpers, helper'[g].host = "up", ~helper'[g].stopping, g # h PROVE FALSE
    <3>1. u.hs[g].host = "up" /\ ~u.hs[g].stopping
          BY <1>3, <1>5, <2>1
    <3>2. helper[g].host = "up" /\ ~helper[g].stopping
          BY <1>2, <3>1 DEF Akin, Kin
    <3>3. g # 0
          BY SurfaceAssumption DEF Helpers
    <3>. QED
      BY <1>1, <3>2, <3>3 DEF OnlyActive
  <2>. QED
    BY <1>6, <2>1 DEF OnlyActive
<1>8. h \in 0..MaxHelpers
      BY SurfaceAssumption DEF Helpers
<1>9. ActiveFine'
      BY <1>3, <1>5, <1>6, <1>8 DEF ActiveFine
<1>10. TransitionFine'
  <2>1. call'[transition.owner].pc = "owning"
        BY <1>1, <1>2, <1>5 DEF Grows, AtHelper
  <2>. QED
    BY <1>1, <1>6, <1>8, <2>1 DEF TransitionFine
<1>. QED
  BY <1>5, <1>7, <1>9, <1>10 DEF SurfaceInv, ClosingFine

\* The number of a new helper is one that no helper has.
LEMMA NewHelperFree ==
    ASSUME \E h \in Helpers : Free(h)
    PROVE  NewHelper \in Helpers /\ helper[NewHelper].host = "none"
<1>1. NewHelper \in Helpers /\ helper[NewHelper] = NoHelper
      BY DEF NewHelper, Free
<1>. QED
  BY <1>1 DEF NoHelper

\* The helper before is stopped: on Linux the authority helper starts, on macOS the helper.
LEMMA PreviousStoppedStep ==
    ASSUME SurfaceInv, PreviousStopped
    PROVE  SurfaceInv'
<1> DEFINE w == IF transition.of = 0 THEN World ELSE StopEnds(World, transition.of)
<1>1. /\ Fine(World, Helpers) /\ World.hs = helper /\ World.cs = call /\ TransitionFine /\ ClosingFine
      BY WorldFields DEF SurfaceInv
<1>2. transition.phase = "stopping" /\ closing' = closing /\ unchangedEnvironment
      BY DEF PreviousStopped
<1>3. Fine(w, Helpers) /\ Grows(World, w)
  <2>1. transition.of # 0 => transition.of \in Helpers
        BY <1>1, SurfaceAssumption DEF TransitionFine, Helpers
  <2>2. Grows(World, World)
        BY DEF Grows, Akin, Kin
  <2>3. transition.of # 0 => LET v == StopEnds(World, transition.of) IN Fine(v, Helpers) /\ Grows(World, v)
        BY <1>1, <2>1, StopEndsFine
  <2>. QED
    BY <1>1, <2>2, <2>3
<1>4. CASE Linux
  <2>1. /\ Becomes(w) /\ transition' = [transition EXCEPT !.phase = "starting", !.of = 0]
        /\ active' = active
        BY <1>4 DEF PreviousStopped
  <2> HIDE DEF w
  <2>2. call'[transition.owner].pc = "owning"
        BY <1>1, <1>2, <1>3, <2>1 DEF Becomes, Grows, TransitionFine, AtHelper
  <2>3. TransitionFine'
    <3>1. 0 \in 0..MaxHelpers
          BY SurfaceAssumption
    <3>. QED
      BY <1>1, <1>2, <2>1, <2>2, <3>1 DEF TransitionFine
  <2>4. Akin(World, w) /\ ClosingFine'
        BY <1>1, <1>2, <1>3 DEF Grows, ClosingFine
  <2>. QED
    BY <1>2, <1>3, <2>1, <2>3, <2>4, Bystanders, StepKeeps
<1>5. CASE ~Linux
  <2>1. /\ \E h \in Helpers : Free(h)
        /\ Becomes(Spawned(w, NewHelper, transition.target, "none")) /\ AwaitFirst(NewHelper)
        BY <1>5 DEF PreviousStopped
  <2> HIDE DEF w
  <2>2. NewHelper \in Helpers /\ helper[NewHelper].host = "none"
        BY <2>1, NewHelperFree
  <2>3. "none" \in {"none", "up"}
        OBVIOUS
  <2>. QED
    BY <1>2, <1>3, <2>1, <2>2, <2>3, Bystanders, SpawnStep
<1>. QED
  BY <1>4, <1>5

\* The authority helper has started and the helper follows, or the replacement fails.
LEMMA AuthorityStartsStep ==
    ASSUME SurfaceInv, AuthorityStarts
    PROVE  SurfaceInv'
<1>1. /\ transition.phase = "starting" /\ bounds' = bounds /\ valid' = valid /\ changes' = changes
      /\ faults \in Nat /\ changes \in Nat /\ Fine(World, Helpers)
      BY DEF SurfaceInv, AuthorityStarts
<1>2. CASE /\ \E h \in Helpers : Free(h)
           /\ Becomes(Spawned(World, NewHelper, transition.target, "up")) /\ AwaitFirst(NewHelper)
           /\ closing' = closing /\ faults' = faults
  <2>1. NewHelper \in Helpers /\ helper[NewHelper].host = "none" /\ "up" \in {"none", "up"}
        BY <1>2, NewHelperFree
  <2>2. Grows(World, World)
        BY DEF Grows, Akin, Kin
  <2>. QED
    BY <1>1, <1>2, <2>1, <2>2, SpawnStep
<1>3. CASE TransitionEnds(World, "authority") /\ active' = active /\ faults' = faults
  <2>1. "authority" \in Outcomes
        BY DEF Outcomes
  <2>. QED
    BY <1>1, <1>3, <2>1, TransitionEndsStep
<1>4. CASE TransitionEnds(World, "plain") /\ active' = active /\ faults' = faults + 1
  <2>1. "plain" \in Outcomes
        BY DEF Outcomes
  <2>. QED
    BY <1>1, <1>4, <2>1, TransitionEndsStep
<1>. QED
  BY <1>2, <1>3, <1>4 DEF AuthorityStarts

\* The first frame came, the helper failed, or it took too long.
LEMMA FirstFrameSteps ==
    ASSUME SurfaceInv, FirstFrameSettles \/ FirstFrameTimesOut
    PROVE  SurfaceInv'
<1>1. PICK how \in Outcomes : TransitionEnds(World, how)
  <2>1. "plain" \in Outcomes /\ "done" \in Outcomes
        BY DEF Outcomes
  <2>2. CASE FirstFrameSettles
    <3> DEFINE how == IF helper[transition.of].failed THEN "plain" ELSE "done"
    <3>1. TransitionEnds(World, how) /\ how \in Outcomes
          BY <2>1, <2>2 DEF FirstFrameSettles
    <3>. QED
      BY <3>1
  <2>3. CASE FirstFrameTimesOut
        BY <2>1, <2>3 DEF FirstFrameTimesOut
  <2>. QED
    BY <2>2, <2>3
<1>2. transition.phase # "none" /\ active' = active /\ unchangedEnvironment
      BY DEF FirstFrameSettles, FirstFrameTimesOut, FirstFrame
<1>. QED
  BY <1>1, <1>2, Bystanders, TransitionEndsStep

\* At the start there is neither a helper nor a use.
LEMMA InitSurfaceInv == SurfaceInit => SurfaceInv
<1> SUFFICES ASSUME SurfaceInit PROVE SurfaceInv
    OBVIOUS
<1>1. /\ helper = [h \in Helpers |-> NoHelper] /\ call = [c \in Calls |-> NoCall] /\ boundary = FALSE
      /\ active = 0 /\ transition = NoTransition /\ closing = [phase |-> "no", of |-> 0]
      /\ bounds \in SurfaceBounds /\ faults = 0 /\ changes = 0
      BY DEF SurfaceInit
<1>2. /\ DOMAIN World = {"hs", "cs", "lost"} /\ World.hs = helper /\ World.cs = call
      /\ World.lost = boundary
      BY DEF World
<1>3. 0 \in 0..MaxCalls /\ 0 \in 0..MaxHelpers /\ AnyTarget \in Windows /\ "up" \in {"none", "up"}
      BY SurfaceAssumption DEF Windows
<1>4. /\ IsHelper(NoHelper) /\ NoHelper.host = "none" /\ NoHelper.asking = <<>>
      /\ NoHelper.asked = FALSE /\ NoHelper.pipe = <<>> /\ NoHelper.pending = 0
      BY <1>3, NewHelperFacts
<1>5. IsWorld(World)
  <2>1. call \in [Calls -> CallRecord]
        BY <1>1, NoCallFacts
  <2>2. DOMAIN helper = Helpers /\ \A h \in Helpers : helper[h] = NoHelper
        BY <1>1
  <2>. QED
    BY <1>1, <1>2, <1>4, <2>1, <2>2 DEF IsWorld
<1>6. ASSUME NEW c \in Calls PROVE CallFine(World.cs[c], World.hs)
      BY <1>1, <1>2, NoCallFacts DEF CallFine, Waits, AtHelper
<1>7. ASSUME NEW h \in Helpers PROVE HelperFine(World.hs[h], h, World.cs) /\ QueryFine(World.hs[h], World.cs)
      BY <1>1, <1>2, <1>4 DEF HelperFine, QueryFine
<1>8. Fine(World, Helpers)
      BY <1>5, <1>6, <1>7 DEF Fine
<1>9. OnlyActive
      BY <1>1, <1>4 DEF OnlyActive
<1>10. TransitionFine /\ ClosingFine /\ ActiveFine
      BY <1>1, <1>3 DEF TransitionFine, ClosingFine, ActiveFine, NoTransition
<1>. QED
  BY <1>1, <1>8, <1>9, <1>10 DEF SurfaceInv

\* Every step of the surface keeps the invariant.
LEMMA NextSurfaceInv == SurfaceInv /\ [SurfaceNext]_surfaceVars => SurfaceInv'
<1> SUFFICES ASSUME SurfaceInv, [SurfaceNext]_surfaceVars PROVE SurfaceInv'
    OBVIOUS
<1>1. CASE UNCHANGED surfaceVars
  <2>1. /\ helper' = helper /\ call' = call /\ boundary' = boundary /\ active' = active
        /\ transition' = transition /\ closing' = closing /\ unchangedEnvironment
        BY <1>1 DEF surfaceVars, unchangedEnvironment
  <2>2. Fine(World, Helpers)'
        BY <2>1, WorldFields, Carried, Bystanders DEF SurfaceInv
  <2>3. ClosingFine' /\ \A h \in Helpers : SameProcess(helper[h], helper'[h])
        BY <2>1 DEF SurfaceInv, ClosingFine, SameProcess
  <2>. QED
    BY <2>1, <2>2, <2>3, Bystanders, StepAside
<1>2. CASE \E c \in Calls, k \in UseKinds, t \in Targets : Begin(c, k, t)
  <2>1. PICK c \in Calls : \E k \in UseKinds, t \in Targets : Begin(c, k, t)
        BY <1>2
  <2>. QED
    BY <2>1, UseSteps
<1>3. CASE Close
      BY <1>3, CloseSteps
<1>4. CASE Urgent
  <2>1. CASE \E c \in Calls : Ensure(c) \/ InputTurn(c)
        BY <2>1, EnsureStep, InputTurnStep
  <2>2. CASE \E h \in Helpers : QueryTurn(h)
        BY <2>2, QuerySteps
  <2>3. CASE FirstFrameSettles
        BY <2>3, FirstFrameSteps
  <2>4. CASE CloseTakes
        BY <2>4, CloseSteps
  <2>. QED
    BY <1>4, <2>1, <2>2, <2>3, <2>4 DEF Urgent
<1>5. CASE Timer
  <2>1. CASE PreviousStopped
        BY <2>1, PreviousStoppedStep
  <2>2. CASE AuthorityStarts
        BY <2>2, AuthorityStartsStep
  <2>3. CASE FirstFrameTimesOut
        BY <2>3, FirstFrameSteps
  <2>4. CASE CloseEnds
        BY <2>4, CloseSteps
  <2>5. CASE \E c \in Calls : FrameTimesOut(c) \/ RestEnds(c)
        BY <2>5, FrameTimesOutStep, UseSteps
  <2>6. CASE \E h \in Helpers : QueryTimesOut(h) \/ AckTimesOut(h)
        BY <2>6, QuerySteps, HostSteps
  <2>. QED
    BY <1>5, <2>1, <2>2, <2>3, <2>4, <2>5, <2>6 DEF Timer
<1>6. ASSUME NEW h \in Helpers,
             \/ FrameArrives(h) \/ AuthorityAnswers(h) \/ QueryAnswered(h)
             \/ AuthorityDies(h) \/ HostReportsLoss(h) \/ HostEnds(h)
             \/ \E answer \in {"applied", "failed", "lost"} : InputAnswered(h, answer)
      PROVE  SurfaceInv'
  <2>1. CASE FrameArrives(h)
        BY <2>1, FrameArrivesStep
  <2>2. CASE AuthorityAnswers(h)
        BY <2>2, AuthorityAnswersStep
  <2>3. CASE QueryAnswered(h) \/ AuthorityDies(h)
        BY <2>3, QuerySteps
  <2>4. CASE HostReportsLoss(h) \/ HostEnds(h)
        BY <2>4, HostSteps
  <2>5. CASE \E answer \in {"applied", "failed", "lost"} : InputAnswered(h, answer)
        BY <2>5, InputAnsweredStep
  <2>. QED
    BY <1>6, <2>1, <2>2, <2>3, <2>4, <2>5
<1>7. CASE \E t \in Targets : ValidityChanges(t)
      BY <1>7, ValidityChangesStep
<1>. QED
  BY <1>1, <1>2, <1>3, <1>4, <1>5, <1>6, <1>7 DEF SurfaceNext

-----------------------------------------------------------------------------
(* The theorems.                                                           *)

\* The surface's records keep their types and agree with each other: a use is in the queue
\* of one helper, of its window, an answer that is under way belongs to the use that asked
\* first, and the only process that nobody has told to stop is the active one.
THEOREM SurfaceInvariant == SurfaceSpec => []SurfaceInv
  BY InitSurfaceInv, NextSurfaceInv, PTL DEF SurfaceSpec

\* #replace() and close(): never two helpers that nobody has told to stop.
THEOREM OneSurfaceHelper == SurfaceSpec => []OneHelper
<1>1. SurfaceInv => OneHelper
  <2> SUFFICES ASSUME SurfaceInv PROVE OneHelper
      OBVIOUS
  <2> DEFINE S == {h \in Helpers : helper[h].host = "up" /\ ~helper[h].stopping}
  <2>1. S \subseteq {active}
        BY DEF SurfaceInv, OnlyActive
  <2>2. IsFiniteSet({active}) /\ Cardinality({active}) = 1
        BY FS_Singleton
  <2>3. IsFiniteSet(S) /\ Cardinality(S) <= 1
    <3> HIDE DEF S
    <3>. QED
      BY <2>1, <2>2, FS_Subset
  <2>. QED
    BY <2>3 DEF OneHelper
<1>. QED
  BY <1>1, SurfaceInvariant, PTL

\* withInput() and the captures on Linux: a use is made of a window that was valid at some
\* time since it asked, unless a query of its helper timed out.
THEOREM SurfaceUsesAreValidated == SurfaceSpec => []ValidatedUse
<1>1. SurfaceInv => ValidatedUse
      BY WorldFields DEF SurfaceInv, Fine, CallFine, ValidatedUse
<1>. QED
  BY <1>1, SurfaceInvariant, PTL
=============================================================================
