---------------------------- MODULE UndoManager -----------------------------
(***************************************************************************)
(* The undo manager (ycpp_undo.h) of the document Me, among documents that *)
(* edit and exchange as in module Doc.                                     *)
(*                                                                         *)
(* A frame is the range of clocks a capture window has seen Me use.  Undo  *)
(* deletes the items of the last frame, redo clears their deleted flag;    *)
(* the manager never looks at what else happened to them.                  *)
(***************************************************************************)
EXTENDS DocProperties

CONSTANTS
  Me,          \* the document with an undo manager
  Origins,     \* tags the application gives its edits
  MaxTracked,  \* kMaxTrackedOrigins
  MaxFrames,   \* kMaxFrames
  NotOpen      \* no capture window is open

ASSUME MeAssumption == Me \in Clients
ASSUME MaxFramesAssumption == MaxFrames \in Nat \ {0}

VARIABLES
  tracked,     \* tracked_[0 .. tracked_n_)
  undo_stack,  \* undo_stack_[0 .. undo_top_)
  redo_stack,  \* redo_stack_[0 .. redo_top_)
  pre_clock    \* pre_clock_ of the open window

stackVars == << undo_stack, redo_stack >>
managerVars == << tracked, stackVars, pre_clock >>
allVars == << vars, managerVars >>

Frames == { f \in [ start : Nat, end : Nat ] : f.start < f.end }

ManagerInit ==
  /\ tracked = {}
  /\ undo_stack = << >>
  /\ redo_stack = << >>
  /\ pre_clock = NotOpen

\* track(origin)
Track(o) ==
  /\ job = NoJob
  /\ o \notin tracked
  /\ Cardinality(tracked) < MaxTracked
  /\ tracked' = tracked \cup {o}
  /\ UNCHANGED << vars, stackVars, pre_clock >>

\* capture_begin(origin)
CaptureBegin(o) ==
  /\ job = NoJob
  /\ pre_clock = NotOpen
  /\ o \in tracked
  /\ pre_clock' = clock[Me]
  /\ UNCHANGED << vars, tracked, stackVars >>

\* capture_end(): a window in which Me used clocks becomes a frame, in place
\* of the oldest one when the stack is full, and there is nothing to redo.
KeepsRedo ==   \* mutant: the redo stack survives a new frame
  /\ job = NoJob /\ pre_clock # NotOpen
  /\ undo_stack' = IF clock[Me] = pre_clock THEN undo_stack
                   ELSE Append(IF Len(undo_stack) < MaxFrames THEN undo_stack
                               ELSE Tail(undo_stack),
                               [start |-> pre_clock, end |-> clock[Me]])
  /\ pre_clock' = NotOpen
  /\ UNCHANGED << vars, tracked, redo_stack >>
CaptureEnd ==
  /\ job = NoJob
  /\ pre_clock # NotOpen
  /\ pre_clock' = NotOpen
  /\ \/ clock[Me] = pre_clock /\ UNCHANGED stackVars
     \/ /\ clock[Me] # pre_clock
        /\ undo_stack' = Append(IF Len(undo_stack) < MaxFrames THEN undo_stack
                                ELSE Tail(undo_stack),
                                [start |-> pre_clock, end |-> clock[Me]])
        /\ redo_stack' = << >>
  /\ UNCHANGED << vars, tracked >>

\* mark_range_flag: the items of Me that hold a clock of the frame.
ClocksIn(f) == { Me } \X (f.start .. (f.end - 1))
ItemsIn(f) ==
  { it.id : it \in { s \in Stored(store[Me]) : ClocksOf(s) \cap ClocksIn(f) # {} } }

\* undo()
OldestFirst ==   \* mutant: frames leave the stack at the wrong end
  /\ job = NoJob /\ undo_stack # << >>
  /\ del' = [del EXCEPT ![Me] = @ \cup ItemsIn(Head(undo_stack))]
  /\ ds' = [ds EXCEPT ![Me] = @ \cup ClocksIn(Head(undo_stack))]
  /\ undo_stack' = Tail(undo_stack)
  /\ redo_stack' = Append(redo_stack, Head(undo_stack))
  /\ UNCHANGED << store, order, list, head, clock, job, msgs, sent, tracked, pre_clock >>
Undo ==
  /\ job = NoJob
  /\ undo_stack # << >>
  /\ LET f == Last(undo_stack) IN
       /\ del' = [del EXCEPT ![Me] = @ \cup ItemsIn(f)]
       /\ ds' = [ds EXCEPT ![Me] = @ \cup ClocksIn(f)]
       /\ redo_stack' = IF Len(redo_stack) < MaxFrames
                        THEN Append(redo_stack, f) ELSE redo_stack
  /\ undo_stack' = Front(undo_stack)
  /\ UNCHANGED << store, order, list, head, clock, job, msgs, sent,
                  tracked, pre_clock >>

\* redo(): the flags are cleared, the delete set keeps the range.
Redo ==
  /\ job = NoJob
  /\ redo_stack # << >>
  /\ LET f == Last(redo_stack) IN
       /\ del' = [del EXCEPT ![Me] = @ \ ItemsIn(f)]
       /\ undo_stack' = IF Len(undo_stack) < MaxFrames
                        THEN Append(undo_stack, f) ELSE undo_stack
  /\ redo_stack' = Front(redo_stack)
  /\ UNCHANGED << store, order, ds, list, head, clock, job, msgs, sent,
                  tracked, pre_clock >>

ManagerNext ==
  \/ \E o \in Origins : Track(o) \/ CaptureBegin(o)
  \/ CaptureEnd
  \/ Undo
  \/ Redo

ManagedSpec ==
  /\ Init /\ ManagerInit
  /\ [][ManagerNext \/ (Next /\ UNCHANGED managerVars)]_allVars

-----------------------------------------------------------------------------

\* The type of the manager's own variables.
ManagerTypeOK ==
  /\ tracked \subseteq Origins
  /\ undo_stack \in Seq(Frames)
  /\ redo_stack \in Seq(Frames)
  /\ pre_clock \in Nat \cup {NotOpen}

\* Both stacks together hold no more frames than one of them has room for:
\* undo and redo never meet a full stack, where they would lose the frame.
FramesKept == Len(undo_stack) + Len(redo_stack) <= MaxFrames

\* From the bottom of the undo stack to the bottom of the redo stack the
\* frames follow each other in Me's clocks and do not overlap, and all their
\* clocks are in the store: undoing a frame never touches another's items,
\* whatever arrives from other documents in between.
FramesInOrder ==
  LET frames == undo_stack \o Reverse(redo_stack)
  IN  /\ \A i, j \in DOMAIN frames : i < j => frames[i].end <= frames[j].start
      /\ \A i \in DOMAIN frames :
           /\ frames[i].start < frames[i].end
           /\ frames[i].end <= IF pre_clock = NotOpen THEN State(store[Me], Me)
                               ELSE pre_clock
=============================================================================
