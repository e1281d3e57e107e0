----------------------------- MODULE SyncProofs ------------------------------
(***************************************************************************)
(* Theorems about the sync protocol (Sync): what travels in its envelopes  *)
(* is authentic, an answer can be applied whole whenever it arrives, and   *)
(* the documents still implement the log.                                  *)
(***************************************************************************)
EXTENDS DocProofs, Sync

USE SessionsAssumption

Answers == [ kind : {"kSyncStep2"}, update : Updates ]
Questions == [ kind : {"kSyncStep1"}, sv : [Clients -> Nat] ]

WireTypeOK == wire \in [Sessions -> Questions \cup Answers \cup {NoEnvelope}]

IsAnswer(s) == wire[s] # NoEnvelope /\ wire[s].kind = "kSyncStep2"
IsQuestion(s) == wire[s] # NoEnvelope /\ wire[s].kind = "kSyncStep1"

\* An answer holds structs as their authors emitted them, and deletions of
\* what some document knows to be deleted.
AnswersAuthentic ==
  \A s \in Sessions : IsAnswer(s) =>
    /\ \A d \in wire[s].update.structs : Authentic(d)
    /\ wire[s].update.ds \subseteq UNION { ds[q] : q \in Clients }

\* A question tells of each client where an item that the asking document
\* has ends: it is still there, and more may have come since (Reached).
QuestionsHonest ==
  \A s \in Sessions : IsQuestion(s) =>
    \A c \in Clients : Reached(s[2], c, wire[s].sv[c])

\* Each struct's predecessor and origins are in the document or come with it.
Fitting(p, up) ==
  \A d \in up :
    /\ d.id[2] > 0 => Reachable(p, up, << d.id[1], d.id[2] - 1 >>)
    /\ \A x \in { d.origin_left, d.origin_right } \ { NoId } : Reachable(p, up, x)

WireInv == WireTypeOK /\ AnswersAuthentic /\ QuestionsHonest /\ AnswersFit

WInv == LInv /\ WireInv

AllFit == \A s \in Sessions : IsAnswer(s) => Fitting(s[2], wire[s].update.structs)

LEMMA AnswersFitIs == AnswersFit <=> AllFit
BY DEF AnswersFit, AllFit, Fitting, Reachable, IsAnswer

-----------------------------------------------------------------------------
(* An answer fits when it is given ...                                     *)

\* Every answer to an honest question fits (emit_sync_step2).
LEMMA AnswerFits ==
  ASSUME DocOK, History, NEW from \in Clients, NEW to \in Clients,
         NEW since \in [Clients -> Nat], \A c \in Clients : Reached(to, c, since[c])
  PROVE  Fitting(to, Diff(from, since).structs)
<1> DEFINE up == Diff(from, since).structs
<1> SUFFICES ASSUME NEW d \in up
             PROVE  /\ d.id[2] > 0 => Reachable(to, up, << d.id[1], d.id[2] - 1 >>)
                    /\ \A x \in { d.origin_left, d.origin_right } \ { NoId } :
                         Reachable(to, up, x)
  BY DEF Fitting
<1>0. PICK c \in Clients : \E i \in DOMAIN store[from][c] : d = Wire(store[from][c][i])
  BY DiffOK
<1>1. PICK i \in DOMAIN store[from][c] : d = Wire(store[from][c][i])
  BY <1>0
<1> DEFINE s == store[from][c][i]
<1>2. s \in Items /\ Client(s) = c /\ i \in Nat /\ i >= 1
      /\ s.id[2] = IF i = 1 THEN 0 ELSE End(store[from][c][i - 1])
  BY StoredEntry DEF History, Dense
<1>3. /\ d.id = s.id /\ d.origin_left = s.origin_left /\ d.origin_right = s.origin_right
      /\ s.id \in Ids /\ s.id[1] = c
  BY <1>1, <1>2, WireOK, ItemIds DEF Core, Client
<1> HIDE DEF up, s
<1>4. ASSUME d.id[2] > 0
      PROVE  Reachable(to, up, << d.id[1], d.id[2] - 1 >>)
  <2> DEFINE e == store[from][c][i - 1]
             x == << c, d.id[2] - 1 >>
  <2>1. i # 1 /\ d.id[2] = End(e)
    BY <1>2, <1>3, <1>4
  <2>2. i - 1 \in DOMAIN store[from][c]
    <3>1. i \in 1 .. Len(store[from][c]) /\ Len(store[from][c]) \in Nat
          /\ DOMAIN store[from][c] = 1 .. Len(store[from][c])
      BY VectorDomain
    <3> QED
      BY <2>1, <3>1
  <2>3. e.id[2] \in Nat /\ End(e) \in Nat /\ e.id[2] < End(e) /\ Client(e) = c
    BY <2>2, StoredEntry DEF History, Dense
  <2>4. x \in Ids
    BY <2>1, <2>3 DEF Ids
  <2>5. e.id[1] = x[1] /\ e.id[2] <= x[2] /\ x[2] < End(e) /\ x # NoId
    BY <2>1, <2>3 DEF Client, NoId
  <2>6. Covers(e, x)
    BY <2>5 DEF Covers
  <2>7. Reachable(to, up, x)
    BY <2>2, <2>4, <2>6, HeldOrSent DEF up
  <2> QED
    BY <1>3, <2>7
<1>5. ASSUME NEW x \in { d.origin_left, d.origin_right } \ { NoId }
      PROVE  Reachable(to, up, x)
  <2>1. s \in Stored(store[from])
    <3>1. s \in ToSet(store[from][c]) /\ c \in DOMAIN store[from]
      BY DEF ToSet, DocOK, Stores, s
    <3> QED
      BY <3>1 DEF Stored
  <2>2. x \in Ids /\ Has(store[from], x)
    BY <1>2, <1>3, <2>1 DEF History, OriginsStored, Items, OptIds
  <2>3. PICK k \in DOMAIN store[from][x[1]] : Covers(store[from][x[1]][k], x)
    BY <2>2 DEF Has
  <2>4. x[1] \in Clients
    BY <2>2 DEF Ids
  <2> QED
    BY <2>2, <2>3, <2>4, HeldOrSent DEF up
<1> QED
  BY <1>4, <1>5

\* ... and goes on fitting while the documents do what they do.
LEMMA GrownFits ==
  ASSUME Grown, NEW p \in Clients, NEW up \in SUBSET Items, Fitting(p, up)
  PROVE  Fitting(p, up)'
<1>1. ASSUME NEW x \in Ids, Reachable(p, up, x) PROVE Reachable(p, up, x)'
  BY <1>1, GrownHas DEF Reachable
<1> SUFFICES ASSUME NEW d \in up
             PROVE  /\ d.id[2] > 0 => Reachable(p, up, << d.id[1], d.id[2] - 1 >>)'
                    /\ \A x \in { d.origin_left, d.origin_right } \ { NoId } :
                         Reachable(p, up, x)'
  BY DEF Fitting
<1>2. d.id \in Ids /\ d.origin_left \in OptIds /\ d.origin_right \in OptIds
  BY DEF Items
<1>3. d.id[2] > 0 => << d.id[1], d.id[2] - 1 >> \in Ids
  BY <1>2 DEF Ids
<1>4. \A x \in { d.origin_left, d.origin_right } \ { NoId } : x \in Ids
  BY <1>2 DEF OptIds
<1> QED
  BY <1>1, <1>3, <1>4 DEF Fitting

LEMMA GrownReached ==
  ASSUME Grown, NEW p \in Clients, NEW c \in Clients, NEW n, Reached(p, c, n)
  PROVE  Reached(p, c, n)'
BY DEF Grown, Reached, Core, End

LEMMA GrownAuthentic ==
  ASSUME Grown, NEW d \in Items, Authentic(d)
  PROVE  Authentic(d)'
<1>1. Client(d) \in Clients
  BY ItemIds
<1>2. PICK j \in DOMAIN store[Client(d)][Client(d)] :
        Core(d) = Core(store[Client(d)][Client(d)][j])
  BY DEF Authentic, Emitted
<1>3. /\ j \in DOMAIN store'[Client(d)][Client(d)]
      /\ Core(d) = Core(store'[Client(d)][Client(d)][j])
  BY <1>1, <1>2 DEF Grown
<1> QED
  BY <1>3 DEF Authentic, Emitted

-----------------------------------------------------------------------------
(* Every step keeps the invariant                                          *)

\* Documents that grow leave what is under way as good as it was.
LEMMA WireKept ==
  ASSUME WireInv, Grown, UNCHANGED wire,
         UNION { ds[q] : q \in Clients } \subseteq UNION { ds'[q] : q \in Clients }
  PROVE  WireInv'
<1>1. WireTypeOK'
  BY DEF WireInv, WireTypeOK
<1>2. \A s \in Sessions : IsAnswer(s)' = IsAnswer(s) /\ IsQuestion(s)' = IsQuestion(s)
  BY DEF IsAnswer, IsQuestion
<1>3. ASSUME NEW s \in Sessions, IsAnswer(s)
      PROVE  wire[s].update.structs \in SUBSET Items /\ s[2] \in Clients
  BY <1>3 DEF WireInv, WireTypeOK, IsAnswer, Answers, Questions, Updates
<1>4. AnswersAuthentic'
  <2> SUFFICES ASSUME NEW s \in Sessions, IsAnswer(s)
               PROVE  /\ \A d \in wire[s].update.structs : Authentic(d)'
                      /\ wire[s].update.ds \subseteq UNION { ds'[q] : q \in Clients }
    BY <1>2 DEF AnswersAuthentic
  <2> QED
    BY <1>3, GrownAuthentic DEF WireInv, AnswersAuthentic
<1>5. QuestionsHonest'
  <2> SUFFICES ASSUME NEW s \in Sessions, IsQuestion(s), NEW c \in Clients
               PROVE  Reached(s[2], c, wire[s].sv[c])'
    BY <1>2 DEF QuestionsHonest
  <2> QED
    BY GrownReached DEF WireInv, QuestionsHonest
<1>6. AnswersFit'
  <2>1. ASSUME NEW s \in Sessions, IsAnswer(s)
        PROVE  Fitting(s[2], wire[s].update.structs)'
    <3>1. Fitting(s[2], wire[s].update.structs)
      BY <2>1, AnswersFitIs DEF WireInv, AllFit
    <3> QED
      BY <1>3, <2>1, <3>1, GrownFits
  <2>2. AllFit'
    BY <1>2, <2>1 DEF AllFit
  <2> QED
    BY <2>2, AnswersFitIs, PTL
<1> QED
  BY <1>1, <1>4, <1>5, <1>6 DEF WireInv

\* A session puts another envelope on the wire.
LEMMA WireReplaced ==
  ASSUME WireInv, UNCHANGED vars, NEW s \in Sessions,
         NEW e \in Questions \cup Answers \cup {NoEnvelope},
         wire' = [wire EXCEPT ![s] = e],
         e # NoEnvelope /\ e.kind = "kSyncStep2" =>
           /\ \A d \in e.update.structs : Authentic(d)
           /\ e.update.ds \subseteq UNION { ds[q] : q \in Clients }
           /\ Fitting(s[2], e.update.structs),
         e # NoEnvelope /\ e.kind = "kSyncStep1" =>
           \A c \in Clients : Reached(s[2], c, e.sv[c])
  PROVE  WireInv'
<1>1. UNCHANGED store /\ UNCHANGED ds
  BY DEF vars, docVars
<1>2. WireTypeOK' /\ \A r \in Sessions : wire'[r] = IF r = s THEN e ELSE wire[r]
  BY DEF WireInv, WireTypeOK
<1>3. AnswersAuthentic'
  <2> SUFFICES ASSUME NEW r \in Sessions, IsAnswer(r)'
               PROVE  /\ \A d \in wire'[r].update.structs : Authentic(d)
                      /\ wire'[r].update.ds \subseteq UNION { ds[q] : q \in Clients }
    BY <1>1 DEF AnswersAuthentic, Authentic, Emitted
  <2> QED
    BY <1>2 DEF WireInv, AnswersAuthentic, IsAnswer
<1>4. QuestionsHonest'
  <2> SUFFICES ASSUME NEW r \in Sessions, IsQuestion(r)', NEW c \in Clients
               PROVE  Reached(r[2], c, wire'[r].sv[c])
    BY <1>1 DEF QuestionsHonest, Reached
  <2> QED
    BY <1>2 DEF WireInv, QuestionsHonest, IsQuestion
<1>5. AnswersFit'
  <2>1. ASSUME NEW r \in Sessions, IsAnswer(r)'
        PROVE  Fitting(r[2], wire'[r].update.structs)
    <3>1. CASE r = s
      BY <1>2, <2>1, <3>1 DEF IsAnswer
    <3>2. CASE r # s
      <4>1. IsAnswer(r) /\ wire'[r] = wire[r]
        BY <1>2, <2>1, <3>2 DEF IsAnswer
      <4> QED
        BY <4>1, AnswersFitIs DEF WireInv, AllFit
    <3> QED
      BY <3>1, <3>2
  <2>2. AllFit'
    BY <1>1, <2>1 DEF AllFit, Fitting, Reachable
  <2> QED
    BY <2>2, AnswersFitIs, PTL
<1> QED
  BY <1>2, <1>3, <1>4, <1>5 DEF WireInv

LEMMA SessionIs ==
  ASSUME NEW s \in Sessions
  PROVE  s[1] \in Clients /\ s[2] \in Clients /\ << s[1], s[2] >> = s
OBVIOUS

LEMMA AskKeeps ==
  ASSUME WInv, NEW s \in Sessions, Ask(s[1], s[2])
  PROVE  WireInv'
<1>1. DocOK
  BY InvariantParts DEF WInv, LInv
<1> DEFINE e == [ kind |-> "kSyncStep1", sv |-> StateVector(store[s[2]]) ]
<1>2. UNCHANGED vars /\ wire' = [wire EXCEPT ![s] = e]
  BY SessionIs DEF Ask
<1>3. e \in Questions
  BY <1>1, SessionIs, StateOK DEF Questions, DocOK
<1>4. \A c \in Clients : Reached(s[2], c, e.sv[c])
  BY <1>1, SessionIs, VectorReached
<1>5. e.kind = "kSyncStep1"
  OBVIOUS
<1> HIDE DEF e
<1> QED
  BY <1>2, <1>3, <1>4, <1>5, WireReplaced DEF WInv

LEMMA AnswerKeeps ==
  ASSUME WInv, NEW s \in Sessions, Answer(s[1], s[2])
  PROVE  WireInv'
<1>1. DocOK /\ History
  BY InvariantParts DEF WInv, LInv
<1> DEFINE since == wire[s].sv
           e == [ kind |-> "kSyncStep2", update |-> Diff(s[1], since) ]
<1>2. UNCHANGED vars /\ wire' = [wire EXCEPT ![s] = e] /\ IsQuestion(s)
  BY SessionIs DEF Answer, IsQuestion
<1>3. /\ since \in [Clients -> Nat]
      /\ \A c \in Clients : Reached(s[2], c, since[c])
  BY <1>2 DEF WInv, WireInv, WireTypeOK, QuestionsHonest, IsQuestion, Questions, Answers
<1>4. /\ Diff(s[1], since) \in Updates /\ Diff(s[1], since).ds = ds[s[1]]
      /\ \A d \in Diff(s[1], since).structs : Authentic(d)
      /\ Fitting(s[2], Diff(s[1], since).structs)
  <2> HIDE DEF since
  <2>1. Diff(s[1], since).ds = ds[s[1]]
    BY DEF Diff
  <2> QED
    BY <1>1, <1>3, <2>1, SessionIs, DiffOK, DiffAuthentic, AnswerFits
<1>5. e \in Answers /\ e.kind = "kSyncStep2" /\ e.update = Diff(s[1], since)
  BY <1>4 DEF Answers
<1>6. ds[s[1]] \subseteq UNION { ds[q] : q \in Clients }
  BY SessionIs
<1> HIDE DEF e, since
<1> QED
  BY <1>2, <1>4, <1>5, <1>6, WireReplaced DEF WInv

LEMMA FailKeeps ==
  ASSUME WInv, NEW s \in Sessions, Fail(s[1], s[2])
  PROVE  WireInv'
<1>1. UNCHANGED vars /\ wire' = [wire EXCEPT ![s] = NoEnvelope]
  BY SessionIs DEF Fail
<1> QED
  BY <1>1, WireReplaced DEF WInv

\* The answer that arrives becomes the call in progress.
LEMMA ReceiveKeeps ==
  ASSUME WInv, NEW s \in Sessions, Receive(s[1], s[2])
  PROVE  WInv' /\ UNCHANGED << Written, Executed, ds >>
<1>1. DocOK /\ CallOK /\ History /\ InFlightAuthentic /\ DeletesKnown
  BY InvariantParts DEF WInv, LInv
<1>2. /\ Begin(s[2], wire[s].update) /\ IsAnswer(s)
      /\ UNCHANGED << docVars, msgs, sent, wire >>
  BY SessionIs DEF Receive, IsAnswer
<1>3. wire[s].update \in Updates
  BY <1>2 DEF WInv, WireInv, WireTypeOK, IsAnswer, Questions, Answers
<1>4. /\ job' \in Jobs /\ job'.todo = wire[s].update.structs
      /\ job'.ds = wire[s].update.ds
  BY <1>2, <1>3, SessionIs, BeginOK DEF Begin
<1>5. UNCHANGED << store, ds >>
  BY <1>2 DEF docVars
<1>6. DocOK' /\ History' /\ \A d \in Items : Authentic(d) => Authentic(d)'
  BY <1>1, <1>2, <1>5, SameDocs, SameStore
<1>7. /\ \A d \in wire[s].update.structs : Authentic(d)
      /\ wire[s].update.ds \subseteq UNION { ds[q] : q \in Clients }
  BY <1>2 DEF WInv, WireInv, AnswersAuthentic
<1>8. CallOK'
  BY <1>1, <1>2, <1>4 DEF CallOK
<1>9. InFlightAuthentic'
  <2>1. \A m \in msgs' : \A d \in m.structs : Authentic(d)
    BY <1>1, <1>2 DEF InFlightAuthentic
  <2> QED
    BY <1>4, <1>6, <1>7, <1>8, <2>1, StillInFlight
<1>10. IInv'
  BY <1>6, <1>8, <1>9, InvariantParts, PTL
<1>11. DeletesKnown'
  BY <1>1, <1>2, <1>4, <1>5, <1>7 DEF DeletesKnown
<1>12. WireInv'
  <2>1. Grown
    BY <1>5 DEF Grown
  <2> QED
    BY <1>2, <1>5, <2>1, WireKept DEF WInv
<1>13. UNCHANGED << Written, Executed, ds >>
  BY <1>5 DEF Written, Executed
<1> QED
  BY <1>10, <1>11, <1>12, <1>13 DEF WInv, LInv

\* What the documents do among themselves.
LEMMA NextKeeps ==
  ASSUME WInv, [Next]_vars, UNCHANGED wire
  PROVE  WInv' /\ [Log!Next]_<< Written, Executed, ds >>
<1>1. LInv' /\ [Log!Next]_<< Written, Executed, ds >>
  BY NextLogged DEF WInv
<1>2. Grown
  BY StepGrown DEF WInv, LInv
<1>3. \A q \in Clients : ds[q] \subseteq ds'[q]
  <2>1. ASSUME NEW p \in Clients, Log!Delete(p) PROVE \A q \in Clients : ds[q] \subseteq ds'[q]
    <3>1. ds \in [Clients -> SUBSET Ids]
      BY InvariantParts DEF WInv, LInv, DocOK
    <3> QED
      BY <2>1, <3>1 DEF Log!Delete
  <2> QED
    BY <1>1, <2>1 DEF Log!Next
<1>4. WireInv'
  BY <1>2, <1>3, WireKept DEF WInv
<1> QED
  BY <1>1, <1>4 DEF WInv

LEMMA WireNext ==
  WInv /\ [SyncNext]_syncVars => WInv' /\ [Log!Next]_<< Written, Executed, ds >>
<1> SUFFICES ASSUME WInv, [SyncNext]_syncVars
             PROVE  WInv' /\ [Log!Next]_<< Written, Executed, ds >>
  OBVIOUS
<1>1. ASSUME UNCHANGED vars, WireInv' PROVE WInv' /\ [Log!Next]_<< Written, Executed, ds >>
  BY <1>1, NextLogged DEF WInv
<1>2. ASSUME Next, UNCHANGED wire
      PROVE  WInv' /\ [Log!Next]_<< Written, Executed, ds >>
  BY <1>2, NextKeeps
<1>3. ASSUME NEW s \in Sessions, Ask(s[1], s[2])
      PROVE  WInv' /\ [Log!Next]_<< Written, Executed, ds >>
  BY <1>1, <1>3, AskKeeps DEF Ask
<1>4. ASSUME NEW s \in Sessions, Answer(s[1], s[2])
      PROVE  WInv' /\ [Log!Next]_<< Written, Executed, ds >>
  BY <1>1, <1>4, AnswerKeeps DEF Answer
<1>5. ASSUME NEW s \in Sessions, Fail(s[1], s[2])
      PROVE  WInv' /\ [Log!Next]_<< Written, Executed, ds >>
  BY <1>1, <1>5, FailKeeps DEF Fail
<1>6. ASSUME NEW s \in Sessions, Receive(s[1], s[2])
      PROVE  WInv' /\ [Log!Next]_<< Written, Executed, ds >>
  BY <1>6, ReceiveKeeps
<1>7. ASSUME UNCHANGED syncVars
      PROVE  WInv' /\ [Log!Next]_<< Written, Executed, ds >>
  BY <1>7, NextKeeps DEF syncVars
<1> QED
  BY <1>2, <1>3, <1>4, <1>5, <1>6, <1>7 DEF SyncNext

LEMMA WireInit == SyncInit => WInv /\ Log!Init
<1> SUFFICES ASSUME SyncInit PROVE WInv /\ Log!Init
  OBVIOUS
<1>1. LInv /\ Log!Init
  BY InitLogged DEF SyncInit
<1>2. wire = [s \in Sessions |-> NoEnvelope]
  BY DEF SyncInit
<1>3. WireTypeOK /\ AnswersAuthentic /\ QuestionsHonest /\ AnswersFit
  BY <1>2 DEF WireTypeOK, AnswersAuthentic, QuestionsHonest, AnswersFit,
              IsAnswer, IsQuestion
<1> QED
  BY <1>1, <1>3 DEF WInv, WireInv

-----------------------------------------------------------------------------
(* The theorems                                                            *)

\* Whatever is asked, answered late, delivered twice or dropped, the
\* envelopes carry what was asked for and what authors emitted.
THEOREM WireInvariance == SyncSpec => []WInv
<1> QED
  BY WireInit, WireNext, PTL DEF SyncSpec

\* An answer can be applied whole whenever it arrives: what its structs
\* refer to comes with them or is in the document, which keeps what it said
\* it had (encode_diff_v1, emit_sync_step2).
THEOREM AnswersAlwaysFit == SyncSpec => []AnswersFit
<1>1. WInv => AnswersFit
  BY DEF WInv, WireInv
<1> QED
  BY WireInvariance, <1>1, PTL

\* The documents' inductive invariant holds with sessions between them too.
THEOREM SyncKeepsDocuments == SyncSpec => []IInv
<1>1. WInv => IInv
  BY DEF WInv, LInv
<1> QED
  BY WireInvariance, <1>1, PTL

\* Documents that talk by the sync protocol implement the log: an answer
\* that is stale, repeated or lost changes nothing that a reader of the logs
\* could see (apply_sync_message).
THEOREM SyncImplementsLog == SyncSpec => ImplementsLog
<1> QED
  BY WireInit, WireNext, PTL DEF SyncSpec, ImplementsLog, Log!Spec
=============================================================================
