--------------------------- MODULE PlanningProofs ----------------------------
(***************************************************************************)
(* Proofs about PlanningPipeline, for any number of processes that follow  *)
(* one another, of cycles, turns, moves, archivings and kills: state.json  *)
(* moves along TRANSITIONS, no gate is passed over, and the state never    *)
(* promises an artifact that is not there.                                 *)
(***************************************************************************)
EXTENDS PlanningProps, Integers, SequenceTheorems, WellFoundedInduction, TLAPS

(***************************************************************************)
(* TRANSITIONS                                                             *)
(***************************************************************************)
LEMMA States ==
    ProjectState = {"intake", "babel_processing", "intake_dialog", "stack_dialog", "prd_dialog",
        "prd_drafting", "mvp_scope_locking", "prd_awaiting_approval", "prd_approved",
        "rfc_drafting", "rfc_awaiting_approval", "rfc_approved", "tasks_generating",
        "tasks_ready", "schema_awaiting_approval", "executing", "budget_awaiting_approval",
        "deploy_awaiting_approval", "paused", "done", "failed", "extend_dialog",
        "extend_prd_dialog", "extend_prd_awaiting_approval", "extend_prd_approved",
        "extend_rfc_drafting", "extend_rfc_awaiting_approval", "extend_rfc_approved"}
BY DEF ProjectState, Transitions

LEMMA Rows ==
    /\ Transitions["intake"] = {"babel_processing", "prd_drafting", "failed"}
    /\ Transitions["babel_processing"] = {"prd_drafting", "intake_dialog", "failed"}
    /\ Transitions["intake_dialog"] = {"stack_dialog", "paused", "failed"}
    /\ Transitions["stack_dialog"] = {"prd_dialog", "intake_dialog", "paused", "failed"}
    /\ Transitions["prd_dialog"] = {"mvp_scope_locking", "stack_dialog", "paused", "failed"}
    /\ Transitions["prd_drafting"] = {"mvp_scope_locking", "failed"}
    /\ Transitions["mvp_scope_locking"] = {"prd_awaiting_approval", "prd_dialog",
        "prd_drafting", "paused", "failed"}
    /\ Transitions["prd_awaiting_approval"] = {"prd_approved", "prd_drafting",
        "mvp_scope_locking", "paused", "failed"}
    /\ Transitions["prd_approved"] = {"rfc_drafting"}
    /\ Transitions["rfc_drafting"] = {"rfc_awaiting_approval", "failed"}
    /\ Transitions["rfc_awaiting_approval"] = {"rfc_approved", "rfc_drafting", "paused", "failed"}
    /\ Transitions["rfc_approved"] = {"tasks_generating"}
    /\ Transitions["tasks_generating"] = {"tasks_ready", "failed"}
    /\ Transitions["tasks_ready"] = {"executing", "schema_awaiting_approval", "paused"}
    /\ Transitions["schema_awaiting_approval"] = {"executing", "tasks_ready", "paused", "failed"}
    /\ Transitions["executing"] = {"done", "deploy_awaiting_approval",
        "budget_awaiting_approval", "failed", "paused"}
    /\ Transitions["budget_awaiting_approval"] = {"executing", "paused", "failed"}
    /\ Transitions["deploy_awaiting_approval"] = {"done", "executing", "paused", "failed"}
    /\ Transitions["paused"] = Resumable \union {"failed"}
    /\ Transitions["done"] = {"extend_dialog"}
    /\ Transitions["failed"] = {}
    /\ Transitions["extend_dialog"] = {"extend_prd_dialog", "paused", "failed"}
    /\ Transitions["extend_prd_dialog"] = {"extend_prd_awaiting_approval", "extend_dialog",
        "paused", "failed"}
    /\ Transitions["extend_prd_awaiting_approval"] = {"extend_prd_approved",
        "extend_prd_dialog", "paused", "failed"}
    /\ Transitions["extend_prd_approved"] = {"extend_rfc_drafting"}
    /\ Transitions["extend_rfc_drafting"] = {"extend_rfc_awaiting_approval", "failed"}
    /\ Transitions["extend_rfc_awaiting_approval"] = {"extend_rfc_approved",
        "extend_rfc_drafting", "paused", "failed"}
    /\ Transitions["extend_rfc_approved"] = {"tasks_generating"}
BY DEF Transitions

\* The moves that the commands make are in the table.
LEMMA CommandMoves ==
    /\ Allowed("intake", "babel_processing")
    /\ Allowed("babel_processing", "intake_dialog")
    /\ Allowed("babel_processing", "prd_drafting")
    /\ Allowed("intake_dialog", "stack_dialog")
    /\ Allowed("stack_dialog", "prd_dialog")
    /\ Allowed("prd_dialog", "mvp_scope_locking")
    /\ Allowed("prd_drafting", "mvp_scope_locking")
    /\ Allowed("mvp_scope_locking", "prd_awaiting_approval")
    /\ Allowed("prd_approved", "rfc_drafting")
    /\ Allowed("rfc_drafting", "rfc_awaiting_approval")
    /\ Allowed("rfc_approved", "tasks_generating")
    /\ Allowed("extend_rfc_approved", "tasks_generating")
    /\ Allowed("tasks_generating", "tasks_ready")
    /\ Allowed("tasks_generating", "failed")
    /\ Allowed("extend_dialog", "extend_prd_dialog")
    /\ Allowed("extend_prd_dialog", "extend_prd_awaiting_approval")
    /\ Allowed("extend_prd_approved", "extend_rfc_drafting")
    /\ Allowed("extend_rfc_drafting", "extend_rfc_awaiting_approval")
    /\ Allowed("tasks_ready", "executing")
    /\ Allowed("executing", "done")
BY Rows DEF Allowed, Resumable

(***************************************************************************)
(* Effects, and what is left of a script                                   *)
(***************************************************************************)
LEMMA Ops ==
    /\ \A s : Save(s).op = "save" /\ Save(s).to = s
    /\ \A s : Enter(s).op = "enter" /\ Enter(s).to = s
    /\ \A f : Write(f).op = "write" /\ Write(f).file = f
    /\ \A c : WritePrd(c).op = "prd" /\ WritePrd(c).cycle = c
    /\ \A c : WriteRfc(c).op = "rfc" /\ WriteRfc(c).cycle = c
    /\ \A cs : WriteDag(cs).op = "dag" /\ WriteDag(cs).cycles = cs
    /\ SeedScope.op = "seed"
    /\ \A b : WriteScope(b).op = "scope" /\ WriteScope(b).lock = b
    /\ \A d : Turn(d).op = "turn" /\ Turn(d).dialog = d
BY DEF Save, Enter, Write, WritePrd, WriteRfc, WriteDag, SeedScope, WriteScope, Turn

LEMMA WriteOps ==
    /\ WriteScope(TRUE).op = "scope" /\ WriteScope(FALSE).op = "scope"
    /\ \A b \in BOOLEAN : WriteScope(b).op = "scope"
BY DEF WriteScope

LEMMA EffectTypes ==
    /\ \A s \in ProjectState : Save(s) \in Effect /\ Enter(s) \in Effect
    /\ \A f \in File : Write(f) \in Effect
    /\ \A c \in Cycle : WritePrd(c) \in Effect /\ WriteRfc(c) \in Effect
    /\ \A cs \in SUBSET Cycle : WriteDag(cs) \in Effect
    /\ SeedScope \in Effect
    /\ \A b \in BOOLEAN : WriteScope(b) \in Effect
    /\ \A d \in Dialog : Turn(d) \in Effect
<1>. HIDE DEF ProjectState, File, Cycle, Dialog
<1>1. \A s \in ProjectState : Save(s) \in Effect /\ Enter(s) \in Effect
  BY DEF Save, Enter, Effect
<1>2. \A f \in File : Write(f) \in Effect
  BY DEF Write, Effect
<1>3. \A c \in Cycle : WritePrd(c) \in Effect /\ WriteRfc(c) \in Effect
  BY DEF WritePrd, WriteRfc, Effect
<1>4. \A cs \in SUBSET Cycle : WriteDag(cs) \in Effect
  BY DEF WriteDag, Effect
<1>5. SeedScope \in Effect
  BY DEF SeedScope, Effect
<1>6. \A b \in BOOLEAN : WriteScope(b) \in Effect
  BY DEF WriteScope, Effect
<1>7. \A d \in Dialog : Turn(d) \in Effect
  BY DEF Turn, Effect
<1>. QED BY <1>1, <1>2, <1>3, <1>4, <1>5, <1>6, <1>7

LEMMA EffectFields ==
    ASSUME NEW e \in Effect
    PROVE  /\ e.op \in {"save", "enter", "write", "prd", "rfc", "dag", "seed", "scope", "turn"}
           /\ e.op \in {"save", "enter"} => e.to \in ProjectState
           /\ e.op = "write" => e.file \in File
           /\ e.op \in {"prd", "rfc"} => e.cycle \in Cycle
           /\ e.op = "dag" => e.cycles \in SUBSET Cycle
           /\ e.op = "scope" => e.lock \in BOOLEAN
           /\ e.op = "turn" => e.dialog \in Dialog
<1>. HIDE DEF ProjectState, File, Cycle, Dialog
<1>1. CASE e \in [op : {"save", "enter"}, to : ProjectState]
  BY <1>1
<1>2. CASE e \in [op : {"write"}, file : File]
  BY <1>2
<1>3. CASE e \in [op : {"prd", "rfc"}, cycle : Cycle]
  BY <1>3
<1>4. CASE e \in [op : {"dag"}, cycles : SUBSET Cycle]
  BY <1>4
<1>5. CASE e \in [op : {"seed"}]
  BY <1>5
<1>6. CASE e \in [op : {"scope"}, lock : BOOLEAN]
  BY <1>6
<1>7. CASE e \in [op : {"turn"}, dialog : Dialog]
  BY <1>7
<1>. QED BY <1>1, <1>2, <1>3, <1>4, <1>5, <1>6, <1>7 DEF Effect

LEMMA Tuples ==
    /\ \A a : First(<<a>>, a) /\ Tail(<<a>>) = <<>>
    /\ \A a, b : First(<<a, b>>, a) /\ Tail(<<a, b>>) = <<b>>
    /\ \A a, b, c : First(<<a, b, c>>, a) /\ Tail(<<a, b, c>>) = <<b, c>>
    /\ \A a, b, c, d : First(<<a, b, c, d>>, a) /\ Tail(<<a, b, c, d>>) = <<b, c, d>>
    /\ \A a, b, c, d, e : First(<<a, b, c, d, e>>, a) /\ Tail(<<a, b, c, d, e>>) = <<b, c, d, e>>
BY DEF First

Quiescent(e) == e.op \in {"write", "turn"}

LEMMA PlainTuples ==
    /\ Plain(<<>>)
    /\ \A a : Quiescent(a) => Plain(<<a>>)
    /\ \A a, b : Quiescent(a) /\ Quiescent(b) => Plain(<<a, b>>)
    /\ \A a, b, c : Quiescent(a) /\ Quiescent(b) /\ Quiescent(c) => Plain(<<a, b, c>>)
    /\ \A a, b, c, d : Quiescent(a) /\ Quiescent(b) /\ Quiescent(c) /\ Quiescent(d) => Plain(<<a, b, c, d>>)
BY DEF Plain, Quiescent

LEMMA SeqTuples ==
    ASSUME NEW S
    PROVE  /\ <<>> \in Seq(S)
           /\ \A a \in S : <<a>> \in Seq(S)
           /\ \A a, b \in S : <<a, b>> \in Seq(S)
           /\ \A a, b, c \in S : <<a, b, c>> \in Seq(S)
           /\ \A a, b, c, d \in S : <<a, b, c, d>> \in Seq(S)
           /\ \A a, b, c, d, e \in S : <<a, b, c, d, e>> \in Seq(S)
OBVIOUS

\* The elements of a tail are elements.
LEMMA Tails ==
    ASSUME NEW S, NEW t \in Seq(S), t # <<>>
    PROVE  /\ Head(t) \in S /\ Head(t) = t[1] /\ 1 \in DOMAIN t /\ Tail(t) \in Seq(S)
           /\ \A i \in DOMAIN Tail(t) : i + 1 \in DOMAIN t /\ Tail(t)[i] = t[i + 1]
OBVIOUS

LEMMA Ahead ==
    ASSUME NEW S, NEW a \in S, NEW t \in Seq(S)
    PROVE  /\ <<>> \o t = t
           /\ <<a>> \o t \in Seq(S) /\ First(<<a>> \o t, a) /\ Tail(<<a>> \o t) = t
<1>1. <<a>> \in Seq(S) /\ Len(<<a>>) = 1
  OBVIOUS
<1>. DEFINE s == <<a>> \o t
<1>2. /\ s \in Seq(S) /\ Len(s) = 1 + Len(t)
      /\ \A i \in 1 .. 1 + Len(t) : s[i] = IF i <= 1 THEN <<a>>[i] ELSE t[i - 1]
  BY <1>1, ConcatProperties
<1>. HIDE DEF s
<1>3. Len(t) \in Nat /\ s[1] = a
  BY <1>2
<1>4. s # <<>> /\ Head(s) = a
  BY <1>2, <1>3
<1>5. Tail(s) \in Seq(S) /\ Len(Tail(s)) = Len(t)
  BY <1>2, <1>3, <1>4
<1>6. \A i \in 1..Len(t) : Tail(s)[i] = t[i]
  BY <1>2, <1>3, <1>4
<1>7. Tail(s) = t
  BY <1>5, <1>6, SeqEqual
<1>8. <<>> \o t = t
  BY ConcatEmptySeq
<1>. QED BY <1>2, <1>4, <1>7, <1>8 DEF s, First

LEMMA Narrower ==
    ASSUME NEW S, NEW T, NEW t \in Seq(S), \A i \in DOMAIN t : t[i] \in T
    PROVE  t \in Seq(T)
OBVIOUS

\* A move that a command saves, with what is left after it
SavesMove(s, n, t) ==
    \/ s = "intake" /\ n = "babel_processing" /\ BabelLeft(Tail(t))
    \/ s = "babel_processing" /\ n = "intake_dialog" /\ Plain(Tail(t))
    \/ s = "babel_processing" /\ n = "prd_drafting" /\ Tail(t) = <<>>
    \/ s = "intake_dialog" /\ n = "stack_dialog" /\ Plain(Tail(t))
    \/ s = "stack_dialog" /\ n = "prd_dialog" /\ PrdLeft(Tail(t))
    \/ s \in {"prd_dialog", "prd_drafting"} /\ n = "mvp_scope_locking" /\ t = <<Save(n)>>
    \/ s = "mvp_scope_locking" /\ n = "prd_awaiting_approval" /\ t = <<Save(n)>>
    \/ s = "prd_approved" /\ n = "rfc_drafting" /\ DraftLeft(Tail(t))
    \/ s = "rfc_drafting" /\ n = "rfc_drafting" /\ InputsLeft(Tail(t))
    \/ s = "rfc_drafting" /\ n = "rfc_awaiting_approval" /\ t = <<Save(n)>>
    \/ s \in {"rfc_approved", "extend_rfc_approved"} /\ n = "tasks_generating" /\ DagLeft(Tail(t))
    \/ s = "tasks_generating" /\ n = "failed" /\ t = <<Save(n)>>
    \/ s = "tasks_generating" /\ n = "tasks_ready" /\ t = <<Save(n)>>
    \/ s = "extend_dialog" /\ n = "extend_prd_dialog" /\ ExtendPrdLeft(Tail(t))
    \/ s = "extend_prd_dialog" /\ n = "extend_prd_awaiting_approval" /\ t = <<Save(n)>>
    \/ s = "extend_prd_approved" /\ n = "extend_rfc_drafting" /\ ExtendRfcLeft(Tail(t))
    \/ s = "extend_rfc_drafting" /\ n = "extend_rfc_awaiting_approval" /\ t = <<Save(n)>>

\* With what each rest of a script begins
LEMMA Begins ==
    ASSUME NEW t
    PROVE  /\ BabelLeft(t) => Head(t).op = "write"
           /\ PrdLeft(t) => Head(t).op = "prd"
           /\ SeedLeft(t) => Head(t).op = "seed"
           /\ LockLeft(t) => Head(t).op = "scope"
           /\ ScopeLeft(t) => t = <<>> \/ Head(t).op = "scope"
           /\ RfcLeft(t) => Head(t).op = "rfc"
           /\ InputsLeft(t) => Head(t).op \in {"rfc", "write"}
           /\ DagLeft(t) => t = <<Save("failed")>> \/ Head(t).op = "dag"
           /\ ExtendPrdLeft(t) => t = <<>> \/ Head(t).op = "prd"
           /\ ExtendRfcLeft(t) => t = <<>> \/ Head(t).op = "rfc"
           /\ \A n : Head(<<Save(n)>>) = Save(n)
<1>1. /\ BabelLeft(t) => Head(t).op = "write"
      /\ PrdLeft(t) => Head(t).op = "prd"
      /\ SeedLeft(t) => Head(t).op = "seed"
  BY Ops DEF BabelLeft, PrdLeft, SeedLeft, First
<1>2. LockLeft(t) => Head(t).op = "scope"
  BY WriteOps DEF LockLeft, First
<1>3. ScopeLeft(t) => t = <<>> \/ Head(t).op = "scope"
  <2>1. (\E b \in BOOLEAN : First(t, WriteScope(b))) => Head(t).op = "scope"
    BY WriteOps DEF First
  <2>2. First(t, WriteScope(FALSE)) => Head(t).op = "scope"
    BY WriteOps DEF First
  <2>. QED BY <1>2, <2>1, <2>2 DEF ScopeLeft, EditLeft
<1>4. RfcLeft(t) => Head(t).op = "rfc"
  BY Ops DEF RfcLeft, First
<1>5. InputsLeft(t) => Head(t).op \in {"rfc", "write"}
  BY Ops, <1>4 DEF InputsLeft, First
<1>6. DagLeft(t) => t = <<Save("failed")>> \/ Head(t).op = "dag"
  BY Ops DEF DagLeft, First
<1>7. /\ ExtendPrdLeft(t) => t = <<>> \/ Head(t).op = "prd"
      /\ ExtendRfcLeft(t) => t = <<>> \/ Head(t).op = "rfc"
  BY Ops DEF ExtendPrdLeft, ExtendRfcLeft, First
<1>8. \A n : Head(<<Save(n)>>) = Save(n)
  OBVIOUS
<1>. QED BY <1>1, <1>2, <1>3, <1>4, <1>5, <1>6, <1>7, <1>8

LEMMA SaveCases ==
    ASSUME NEW s, NEW t \in Seq(Effect), InOrder(s, t), t # <<>>, Head(t).op = "save"
    PROVE  SavesMove(s, Head(t).to, t)
<1>1. ~Plain(t)
  BY Tails DEF Plain
<1>2. \A n : Tail(<<Save(n)>>) = <<>>
  OBVIOUS
<1>3. \A n : Save(n).to = n /\ Save(n).op = "save"
  BY Ops
<1>. DEFINE n == Head(t).to
<1>4. \A m : First(t, Save(m)) => m = n
  BY <1>3 DEF First
<1>5. \A m : t = <<Save(m)>> => m = n /\ Tail(t) = <<>>
  BY <1>2, <1>3, Begins
<1>6. /\ ~BabelLeft(t) /\ ~PrdLeft(t) /\ ~SeedLeft(t) /\ ~ScopeLeft(t) /\ ~InputsLeft(t)
      /\ ~\E c : First(t, WritePrd(c))
      /\ ~\E m : First(t, Enter(m))
  BY Begins, Ops DEF First
<1>7. /\ ExtendPrdLeft(t) => FALSE
      /\ ExtendRfcLeft(t) => FALSE
      /\ DagLeft(t) => t = <<Save("failed")>>
  BY Begins
<1>. SUFFICES SavesMove(s, n, t)
  OBVIOUS
<1>. HIDE DEF n
<1>8. CASE s = "intake"
  BY <1>1, <1>4, <1>8 DEF InOrder, SavesMove
<1>9. CASE s = "babel_processing"
  BY <1>1, <1>4, <1>5, <1>6, <1>9 DEF InOrder, SavesMove, BabelEnd
<1>10. CASE s \in {"intake_dialog", "stack_dialog"}
  BY <1>1, <1>4, <1>10 DEF InOrder, SavesMove
<1>11. CASE s \in {"prd_dialog", "prd_drafting"}
  BY <1>1, <1>5, <1>6, <1>11 DEF InOrder, SavesMove
<1>12. CASE s = "mvp_scope_locking"
  BY <1>1, <1>5, <1>6, <1>12 DEF InOrder, SavesMove
<1>13. CASE s = "prd_approved"
  BY <1>1, <1>4, <1>13 DEF InOrder, SavesMove
<1>14. CASE s = "rfc_drafting"
  BY <1>1, <1>4, <1>5, <1>6, <1>14 DEF InOrder, SavesMove, DraftLeft
<1>15. CASE s \in {"rfc_approved", "extend_rfc_approved"}
  BY <1>1, <1>4, <1>15 DEF InOrder, SavesMove
<1>16. CASE s = "tasks_generating"
  BY <1>1, <1>5, <1>7, <1>16 DEF InOrder, SavesMove
<1>17. CASE s \in {"done", "extend_dialog"}
  BY <1>1, <1>4, <1>6, <1>17 DEF InOrder, SavesMove, ExtendLeft
<1>18. CASE s \in {"extend_prd_dialog", "extend_prd_approved", "extend_rfc_drafting"}
  BY <1>1, <1>4, <1>5, <1>7, <1>18 DEF InOrder, SavesMove
<1>. QED BY <1>1, <1>8, <1>9, <1>10, <1>11, <1>12, <1>13, <1>14, <1>15, <1>16, <1>17, <1>18
         DEF InOrder

LEMMA SavedOrder ==
    ASSUME NEW s, NEW n, NEW t \in Seq(Effect), SavesMove(s, n, t)
    PROVE  InOrder(n, Tail(t)) /\ (n = s \/ Allowed(s, n))
<1>1. n = s \/ Allowed(s, n)
  BY CommandMoves DEF SavesMove
<1>2. Tail(t) = <<>> => Plain(Tail(t))
  BY DEF Plain
<1>3. t = <<Save(n)>> => Tail(t) = <<>>
  BY Tuples
<1>. HIDE DEF Plain
<1>4. InOrder(n, Tail(t))
  BY <1>2, <1>3 DEF SavesMove, InOrder, DraftLeft
<1>. QED BY <1>1, <1>4

\* The other effects: in which state they come, and what is left after them
LEMMA NotPlain ==
    ASSUME NEW t \in Seq(Effect), t # <<>>, Head(t).op \notin {"write", "turn"}
    PROVE  ~Plain(t)
BY Tails DEF Plain

LEMMA EnterCases ==
    ASSUME NEW s, NEW t \in Seq(Effect), InOrder(s, t), t # <<>>, Head(t).op = "enter"
    PROVE  s = "done" /\ Head(t).to = "extend_dialog" /\ ExtendLeft(Tail(t))
<1>1. ~Plain(t)
  BY NotPlain
<1>2. /\ \A e : First(t, e) => e.op = "enter"
      /\ \A n : t # <<Save(n)>>
  BY Begins, Ops DEF First
<1>3. /\ ~BabelLeft(t) /\ ~PrdLeft(t) /\ ~SeedLeft(t) /\ ~ScopeLeft(t) /\ ~InputsLeft(t)
      /\ ~ExtendPrdLeft(t) /\ ~ExtendRfcLeft(t) /\ ~DagLeft(t)
  BY <1>2, Begins
<1>4. /\ ~\E n : First(t, Save(n))
      /\ ~First(t, WritePrd(0))
      /\ \A n : First(t, Enter(n)) => Head(t).to = n
  BY <1>2, Ops DEF First
<1>5. ~BabelEnd(t) /\ ~DraftLeft(t) /\ ~ExtendLeft(t)
  BY <1>2, <1>3, <1>4 DEF BabelEnd, DraftLeft, ExtendLeft
<1>. QED BY <1>1, <1>2, <1>3, <1>4, <1>5 DEF InOrder

\* Neither a save nor an entry into a state comes first.
LEMMA NoSave ==
    ASSUME NEW t, t # <<>>, Head(t).op \notin {"save", "enter"}
    PROVE  /\ \A n : ~First(t, Save(n)) /\ ~First(t, Enter(n)) /\ t # <<Save(n)>>
           /\ ~BabelEnd(t) /\ ~ExtendLeft(t) /\ (DraftLeft(t) <=> InputsLeft(t))
<1>1. \A n : ~First(t, Save(n)) /\ ~First(t, Enter(n)) /\ t # <<Save(n)>>
  BY Begins, Ops DEF First
<1>. QED BY <1>1 DEF BabelEnd, ExtendLeft, DraftLeft

LEMMA PrdCases ==
    ASSUME NEW s, NEW t \in Seq(Effect), InOrder(s, t), t # <<>>, Head(t).op = "prd"
    PROVE  \/ s = "prd_dialog" /\ Head(t).cycle = 0 /\ Plain(Tail(t))
           \/ s = "prd_drafting" /\ Head(t).cycle = 0 /\ SeedLeft(Tail(t))
           \/ /\ s = "extend_prd_dialog" /\ Head(t).cycle \in Cycle \ {0}
              /\ Tail(t) = <<Save("extend_prd_awaiting_approval")>>
<1>1. ~Plain(t)
  BY NotPlain
<1>2. \A c : First(t, WritePrd(c)) => Head(t).cycle = c
  BY Ops DEF First
<1>3. /\ ~BabelLeft(t) /\ ~SeedLeft(t) /\ ~ScopeLeft(t) /\ ~InputsLeft(t)
      /\ ~ExtendRfcLeft(t) /\ ~DagLeft(t)
  BY Begins, NoSave
<1>4. /\ PrdLeft(t) => Head(t).cycle = 0 /\ Plain(Tail(t))
      /\ ExtendPrdLeft(t) => /\ Head(t).cycle \in Cycle \ {0}
                              /\ Tail(t) = <<Save("extend_prd_awaiting_approval")>>
  BY <1>2 DEF PrdLeft, ExtendPrdLeft
<1>. QED BY <1>1, <1>2, <1>3, <1>4, NoSave DEF InOrder

LEMMA RfcCases ==
    ASSUME NEW s, NEW t \in Seq(Effect), InOrder(s, t), t # <<>>, Head(t).op = "rfc"
    PROVE  \/ /\ s = "rfc_drafting" /\ Head(t).cycle = 0
              /\ Tail(t) = <<Save("rfc_awaiting_approval")>>
           \/ /\ s = "extend_rfc_drafting" /\ Head(t).cycle \in Cycle \ {0}
              /\ Tail(t) = <<Save("extend_rfc_awaiting_approval")>>
<1>1. ~Plain(t)
  BY NotPlain
<1>2. \A c : First(t, WriteRfc(c)) => Head(t).cycle = c
  BY Ops DEF First
<1>3. /\ ~BabelLeft(t) /\ ~SeedLeft(t) /\ ~ScopeLeft(t) /\ ~PrdLeft(t)
      /\ ~ExtendPrdLeft(t) /\ ~DagLeft(t) /\ ~First(t, WritePrd(0))
      /\ ~First(t, Write("golden_path_inputs.json"))
  BY Begins, NoSave, Ops DEF First
<1>4. /\ InputsLeft(t) => Head(t).cycle = 0 /\ Tail(t) = <<Save("rfc_awaiting_approval")>>
      /\ ExtendRfcLeft(t) => /\ Head(t).cycle \in Cycle \ {0}
                              /\ Tail(t) = <<Save("extend_rfc_awaiting_approval")>>
  BY <1>2, <1>3 DEF InputsLeft, RfcLeft, ExtendRfcLeft
<1>. QED BY <1>1, <1>2, <1>3, <1>4, NoSave DEF InOrder

LEMMA DagCases ==
    ASSUME NEW s, NEW t \in Seq(Effect), InOrder(s, t), t # <<>>, Head(t).op = "dag"
    PROVE  s = "tasks_generating" /\ Tail(t) = <<Save("tasks_ready")>>
<1>1. ~Plain(t)
  BY NotPlain
<1>2. /\ ~BabelLeft(t) /\ ~SeedLeft(t) /\ ~ScopeLeft(t) /\ ~PrdLeft(t) /\ ~InputsLeft(t)
      /\ ~ExtendPrdLeft(t) /\ ~ExtendRfcLeft(t) /\ ~First(t, WritePrd(0))
  BY Begins, Ops DEF First
<1>3. DagLeft(t) => Tail(t) = <<Save("tasks_ready")>>
  BY NoSave DEF DagLeft
<1>. QED BY <1>1, <1>2, <1>3, NoSave DEF InOrder

LEMMA SeedCases ==
    ASSUME NEW s, NEW t \in Seq(Effect), InOrder(s, t), t # <<>>, Head(t).op = "seed"
    PROVE  s \in {"prd_dialog", "prd_drafting"} /\ SeedLeft(t) /\ Tail(t) = <<Save("mvp_scope_locking")>>
<1>1. ~Plain(t)
  BY NotPlain
<1>2. /\ ~BabelLeft(t) /\ ~ScopeLeft(t) /\ ~PrdLeft(t) /\ ~InputsLeft(t)
      /\ ~ExtendPrdLeft(t) /\ ~ExtendRfcLeft(t) /\ ~DagLeft(t) /\ ~First(t, WritePrd(0))
  BY Begins, NoSave, Ops DEF First
<1>3. SeedLeft(t) => Tail(t) = <<Save("mvp_scope_locking")>>
  BY DEF SeedLeft
<1>. QED BY <1>1, <1>2, <1>3, NoSave DEF InOrder

LEMMA ScopeCases ==
    ASSUME NEW s, NEW t \in Seq(Effect), InOrder(s, t), t # <<>>, Head(t).op = "scope"
    PROVE  /\ s = "mvp_scope_locking"
           /\ \/ EditLeft(Tail(t))
              \/ Head(t) = WriteScope(TRUE) /\ Tail(t) = <<Save("prd_awaiting_approval")>>
<1>1. ~Plain(t)
  BY NotPlain
<1>2. /\ ~BabelLeft(t) /\ ~SeedLeft(t) /\ ~PrdLeft(t) /\ ~InputsLeft(t)
      /\ ~ExtendPrdLeft(t) /\ ~ExtendRfcLeft(t) /\ ~DagLeft(t) /\ ~First(t, WritePrd(0))
  BY Begins, NoSave, Ops DEF First
<1>3. LockLeft(t) => Head(t) = WriteScope(TRUE) /\ Tail(t) = <<Save("prd_awaiting_approval")>>
  BY DEF LockLeft, First
<1>4. ScopeLeft(t) => \/ EditLeft(Tail(t))
                      \/ Head(t) = WriteScope(TRUE) /\ Tail(t) = <<Save("prd_awaiting_approval")>>
  BY <1>3 DEF ScopeLeft, EditLeft
<1>. QED BY <1>1, <1>2, <1>4, NoSave DEF InOrder

LEMMA WriteCases ==
    ASSUME NEW s, NEW t \in Seq(Effect), InOrder(s, t), t # <<>>, Head(t).op \in {"write", "turn"}
    PROVE  \/ Plain(Tail(t))
           \/ s = "babel_processing" /\ BabelEnd(Tail(t))
           \/ s = "rfc_drafting" /\ RfcLeft(Tail(t))
<1>1. Plain(t) => Plain(Tail(t))
  BY Tails DEF Plain
<1>2. /\ ~SeedLeft(t) /\ ~PrdLeft(t) /\ ~RfcLeft(t) /\ ~ScopeLeft(t)
      /\ ~ExtendPrdLeft(t) /\ ~ExtendRfcLeft(t) /\ ~DagLeft(t) /\ ~First(t, WritePrd(0))
  BY Begins, NoSave, Ops DEF First
<1>3. /\ InputsLeft(t) => RfcLeft(Tail(t))
      /\ BabelLeft(t) => BabelEnd(Tail(t))
  BY <1>2 DEF InputsLeft, BabelLeft
<1>. QED BY <1>1, <1>2, <1>3, NoSave DEF InOrder

LEMMA OtherOrder ==
    ASSUME NEW s, NEW t \in Seq(Effect), InOrder(s, t), t # <<>>, Head(t).op \notin {"save", "enter"}
    PROVE  InOrder(s, Tail(t))
<1>1. Head(t).op \in {"write", "turn", "prd", "rfc", "dag", "seed", "scope"}
  BY Tails, EffectFields
<1>2. CASE Head(t).op \in {"write", "turn"}
  BY <1>2, WriteCases DEF InOrder, DraftLeft, InputsLeft
<1>3. CASE Head(t).op = "prd"
  BY <1>3, PrdCases DEF InOrder
<1>4. CASE Head(t).op = "rfc"
  BY <1>4, RfcCases DEF InOrder
<1>5. CASE Head(t).op = "dag"
  BY <1>5, DagCases DEF InOrder
<1>6. CASE Head(t).op = "seed"
  BY <1>6, SeedCases DEF InOrder
<1>7. CASE Head(t).op = "scope"
  BY <1>7, ScopeCases DEF InOrder, ScopeLeft
<1>. QED BY <1>1, <1>2, <1>3, <1>4, <1>5, <1>6, <1>7

(***************************************************************************)
(* The scripts                                                             *)
(***************************************************************************)
\* Effects that rest on no approval
Harmless == {e \in Effect : e.op \notin {"rfc", "dag"}}

LEMMA HarmlessAre ==
    /\ \A n \in ProjectState : Save(n) \in Harmless /\ Enter(n) \in Harmless
    /\ \A f \in File : Write(f) \in Harmless
    /\ \A c \in Cycle : WritePrd(c) \in Harmless
    /\ SeedScope \in Harmless
    /\ \A b \in BOOLEAN : WriteScope(b) \in Harmless
    /\ \A d \in Dialog : Turn(d) \in Harmless
BY EffectTypes, Ops, WriteOps DEF Harmless

LEMMA ZeroCycle == 0 \in Cycle
BY PlanningAssumption DEF Cycle

\* The constants that the scripts are made of
LEMMA Items ==
    /\ {"intent.json", "intent.md", "golden_path_inputs.json", "stack.json", "stack.md"} \subseteq File
    /\ Dialog = {"intake_dialog", "stack_dialog", "prd_dialog"}
BY DEF File, Dialog

LEMMA BabelIs ==
    ASSUME NEW S, Harmless \subseteq S, NEW s \in {"intake", "babel_processing"}, NEW dialog \in BOOLEAN
    PROVE  BabelScript(s, dialog) \in Seq(S) /\ InOrder(s, BabelScript(s, dialog))
<1>. DEFINE A == Save("babel_processing")
            B == Write("intent.json")
            E == IF dialog THEN <<Save("intake_dialog"), Write("intent.md"), Turn("intake_dialog")>>
                 ELSE <<Save("prd_drafting")>>
            t == <<B>> \o E
            script == OneOf(s = "intake", A) \o <<B>> \o E
<1>1. /\ A \in S /\ B \in S /\ Save("intake_dialog") \in S /\ Save("prd_drafting") \in S
      /\ Write("intent.md") \in S /\ Turn("intake_dialog") \in S
  BY HarmlessAre, States, Items
<1>2. E \in Seq(S) /\ BabelEnd(E)
  <2>1. CASE dialog
    <3>. DEFINE a == Save("intake_dialog")
                b == Write("intent.md")
                c == Turn("intake_dialog")
    <3>0. Quiescent(b) /\ Quiescent(c) /\ a \in S /\ b \in S /\ c \in S
      BY <1>1, Ops DEF Quiescent
    <3>. HIDE DEF a, b, c
    <3>4. E = <<a, b, c>>
      BY <2>1 DEF a, b, c
    <3>1. First(E, a) /\ Tail(E) = <<b, c>>
      BY <3>4, Tuples
    <3>2. Plain(<<b, c>>)
      BY <3>0, PlainTuples
    <3>3. E \in Seq(S)
      BY <3>0, <3>4, SeqTuples
    <3>. QED BY <3>1, <3>2, <3>3 DEF BabelEnd, a
  <2>2. CASE ~dialog
    BY <2>2, <1>1, SeqTuples DEF BabelEnd
  <2>. QED BY <2>1, <2>2
<1>. HIDE DEF E, A, B
<1>3. t \in Seq(S) /\ First(t, B) /\ Tail(t) = E
  BY <1>1, <1>2, Ahead
<1>4. BabelLeft(t)
  BY <1>2, <1>3 DEF BabelLeft, B
<1>5. script = OneOf(s = "intake", A) \o t
  <2>1. OneOf(s = "intake", A) \in Seq(S) /\ <<B>> \in Seq(S)
    BY <1>1, SeqTuples DEF OneOf
  <2>. QED BY <1>2, <2>1, ConcatAssociative
<1>6. script \in Seq(S) /\ InOrder(s, script)
  <2>. HIDE DEF t
  <2>1. CASE s = "intake"
    <3>1. script = <<A>> \o t
      BY <1>5, <2>1 DEF OneOf
    <3>. HIDE DEF script
    <3>2. script \in Seq(S) /\ First(script, A) /\ Tail(script) = t
      BY <1>1, <1>3, <3>1, Ahead
    <3>. QED BY <2>1, <3>2, <1>4 DEF InOrder, A
  <2>2. CASE s = "babel_processing"
    <3>1. script = <<>> \o t
      BY <1>5, <2>2 DEF OneOf
    <3>2. script = t
      BY <1>1, <1>3, <3>1, Ahead
    <3>. QED BY <2>2, <3>2, <1>3, <1>4 DEF InOrder
  <2>. QED BY <2>1, <2>2
<1>. QED BY <1>6 DEF BabelScript, A, B, E

LEMMA AnalystIs ==
    ASSUME NEW S, Harmless \subseteq S
    PROVE  AnalystScript \in Seq(S) /\ InOrder("prd_drafting", AnalystScript)
<1>1. WritePrd(0) \in S /\ SeedScope \in S /\ Save("mvp_scope_locking") \in S
  BY HarmlessAre, States, ZeroCycle
<1>2. AnalystScript \in Seq(S)
  BY <1>1, SeqTuples DEF AnalystScript
<1>3. First(AnalystScript, WritePrd(0)) /\ Tail(AnalystScript) = <<SeedScope, Save("mvp_scope_locking")>>
  BY Tuples DEF AnalystScript
<1>4. SeedLeft(Tail(AnalystScript))
  BY <1>3, Tuples DEF SeedLeft
<1>. QED BY <1>2, <1>3, <1>4 DEF InOrder

LEMMA ArchitectIs ==
    ASSUME NEW S, Harmless \subseteq S, WriteRfc(0) \in S, NEW s \in {"prd_approved", "rfc_drafting"},
           NEW cached \in BOOLEAN, NEW reclassed \in BOOLEAN
    PROVE  /\ ArchitectScript(s, cached, reclassed) \in Seq(S)
           /\ InOrder(s, ArchitectScript(s, cached, reclassed))
           /\ s = "rfc_drafting" => DraftLeft(ArchitectScript(s, cached, reclassed))
<1>. DEFINE A == Save("rfc_drafting")
            G == Write("golden_path_inputs.json")
            R == WriteRfc(0)
            Z == Save("rfc_awaiting_approval")
            t == <<R, Z>>
            H == IF cached THEN <<>> ELSE OneOf(reclassed, A) \o <<G>>
            u == H \o t
            script == OneOf(s = "prd_approved", A) \o H \o t
<1>1. A \in S /\ G \in S /\ R \in S /\ Z \in S
  BY HarmlessAre, States, Items
<1>2. t \in Seq(S) /\ RfcLeft(t)
  BY <1>1, Tuples, SeqTuples DEF RfcLeft
<1>. HIDE DEF A, G, R, Z, t
<1>3. H \in Seq(S) /\ u \in Seq(S) /\ (cached => u = t) /\ (~cached => u = OneOf(reclassed, A) \o (<<G>> \o t))
  <2>1. CASE cached
    <3>1. H = <<>> /\ H \in Seq(S)
      BY <2>1, <1>1, SeqTuples
    <3>. HIDE DEF H
    <3>. QED BY <2>1, <3>1, <1>1, <1>2, Ahead
  <2>2. CASE ~cached
    <3>1. H = OneOf(reclassed, A) \o <<G>>
      BY <2>2
    <3>. HIDE DEF H
    <3>2. OneOf(reclassed, A) \in Seq(S) /\ <<G>> \in Seq(S)
      BY <1>1, SeqTuples DEF OneOf
    <3>3. H \in Seq(S)
      BY <3>1, <3>2, ConcatProperties
    <3>4. u \in Seq(S)
      BY <3>3, <1>2, ConcatProperties
    <3>5. u = OneOf(reclassed, A) \o (<<G>> \o t)
      BY <3>1, <3>2, <1>2, ConcatAssociative
    <3>. QED BY <2>2, <3>3, <3>4, <3>5
  <2>. QED BY <2>1, <2>2
<1>. HIDE DEF H
<1>4. DraftLeft(u)
  <2>. HIDE DEF u
  <2>1. CASE cached
    BY <2>1, <1>2, <1>3 DEF DraftLeft, InputsLeft
  <2>2. CASE ~cached
    <3>. DEFINE v == <<G>> \o t
    <3>1. v \in Seq(S) /\ First(v, G) /\ Tail(v) = t
      BY <1>1, <1>2, Ahead
    <3>2. InputsLeft(v)
      BY <3>1, <1>2 DEF InputsLeft, G
    <3>. HIDE DEF v
    <3>3. CASE reclassed
      <4>1. u = <<A>> \o v
        BY <1>3, <2>2, <3>3 DEF OneOf, v
      <4>2. First(u, A) /\ Tail(u) = v
        BY <4>1, <3>1, <1>1, Ahead
      <4>. QED BY <4>2, <3>2 DEF DraftLeft, A
    <3>4. CASE ~reclassed
      <4>1. u = <<>> \o v
        BY <1>3, <2>2, <3>4 DEF OneOf, v
      <4>2. u = v
        BY <4>1, <3>1, <1>1, Ahead
      <4>. QED BY <4>2, <3>2 DEF DraftLeft
    <3>. QED BY <3>3, <3>4
  <2>. QED BY <2>1, <2>2
<1>5. script = OneOf(s = "prd_approved", A) \o u
  <2>1. OneOf(s = "prd_approved", A) \in Seq(S)
    BY <1>1, SeqTuples DEF OneOf
  <2>. QED BY <2>1, <1>2, <1>3, ConcatAssociative
<1>6. script \in Seq(S) /\ InOrder(s, script) /\ (s = "rfc_drafting" => DraftLeft(script))
  <2>. HIDE DEF u
  <2>1. CASE s = "prd_approved"
    <3>1. script = <<A>> \o u
      BY <1>5, <2>1 DEF OneOf
    <3>. HIDE DEF script
    <3>2. script \in Seq(S) /\ First(script, A) /\ Tail(script) = u
      BY <1>1, <1>3, <3>1, Ahead
    <3>. QED BY <2>1, <3>2, <1>4 DEF InOrder, A
  <2>2. CASE s = "rfc_drafting"
    <3>1. script = <<>> \o u
      BY <1>5, <2>2 DEF OneOf
    <3>2. script = u
      BY <1>1, <1>3, <3>1, Ahead
    <3>. QED BY <2>2, <3>2, <1>3, <1>4 DEF InOrder
  <2>. QED BY <2>1, <2>2
<1>. QED BY <1>6 DEF ArchitectScript, A, G, R, Z, t, H

\* WriteDag and the state after it, or a failed project
LEMMA DagIs ==
    ASSUME NEW S, Harmless \subseteq S, NEW cs \in SUBSET Cycle, WriteDag(cs) \in S, NEW valid \in BOOLEAN,
           NEW t, t = IF valid THEN <<WriteDag(cs), Save("tasks_ready")>> ELSE <<Save("failed")>>
    PROVE  t \in Seq(S) /\ DagLeft(t)
<1>1. Save("tasks_ready") \in S /\ Save("failed") \in S
  BY HarmlessAre, States
<1>2. CASE valid
  <2>1. t = <<WriteDag(cs), Save("tasks_ready")>>
    BY <1>2
  <2>2. t \in Seq(S) /\ First(t, WriteDag(cs)) /\ Tail(t) = <<Save("tasks_ready")>>
    BY <1>1, <2>1, SeqTuples, Tuples
  <2>. QED BY <2>2 DEF DagLeft
<1>3. CASE ~valid
  <2>1. t = <<Save("failed")>>
    BY <1>3
  <2>. QED BY <1>1, <2>1, SeqTuples DEF DagLeft
<1>. QED BY <1>2, <1>3

LEMMA OrchestratorIs ==
    ASSUME NEW S, Harmless \subseteq S, WriteDag({0}) \in S,
           NEW s \in {"rfc_approved", "tasks_generating"}, NEW valid \in BOOLEAN
    PROVE  /\ OrchestratorScript(s, valid) \in Seq(S)
           /\ InOrder(s, OrchestratorScript(s, valid))
           /\ s = "tasks_generating" => DagLeft(OrchestratorScript(s, valid))
<1>. DEFINE A == Save("tasks_generating")
            t == IF valid THEN <<WriteDag({0}), Save("tasks_ready")>> ELSE <<Save("failed")>>
            script == OneOf(s = "rfc_approved", A) \o t
<1>1. A \in S
  BY HarmlessAre, States
<1>2. t \in Seq(S) /\ DagLeft(t)
  BY DagIs, ZeroCycle
<1>. HIDE DEF A, t
<1>3. CASE s = "rfc_approved"
  <2>1. script = <<A>> \o t
    BY <1>3 DEF OneOf
  <2>. HIDE DEF script
  <2>2. script \in Seq(S) /\ First(script, A) /\ Tail(script) = t
    BY <1>1, <1>2, <2>1, Ahead
  <2>3. script \in Seq(S) /\ InOrder(s, script)
    BY <1>2, <1>3, <2>2 DEF InOrder, A
  <2>. QED BY <1>3, <2>3 DEF OrchestratorScript, script, A, t
<1>4. CASE s = "tasks_generating"
  <2>1. script = <<>> \o t
    BY <1>4 DEF OneOf
  <2>. HIDE DEF script
  <2>2. script = t
    BY <1>1, <1>2, <2>1, Ahead
  <2>3. script \in Seq(S) /\ InOrder(s, script) /\ DagLeft(script)
    BY <1>2, <1>4, <2>2 DEF InOrder
  <2>. QED BY <2>3 DEF OrchestratorScript, script, A, t
<1>. QED BY <1>3, <1>4

LEMMA ExtendDagIs ==
    ASSUME NEW S, Harmless \subseteq S, NEW c \in Cycle, dag \in SUBSET Cycle, WriteDag(dag \union {c}) \in S,
           NEW valid \in BOOLEAN
    PROVE  /\ ExtendDagScript(c, valid) \in Seq(S)
           /\ InOrder("extend_rfc_approved", ExtendDagScript(c, valid))
<1>. DEFINE A == Save("tasks_generating")
            t == IF valid THEN <<WriteDag(dag \union {c}), Save("tasks_ready")>> ELSE <<Save("failed")>>
            script == <<A>> \o t
<1>1. A \in S
  BY HarmlessAre, States
<1>2. t \in Seq(S) /\ DagLeft(t)
  <2>1. dag \union {c} \in SUBSET Cycle
    OBVIOUS
  <2>. QED BY <2>1, DagIs
<1>. HIDE DEF A, t
<1>3. script \in Seq(S) /\ First(script, A) /\ Tail(script) = t
  BY <1>1, <1>2, Ahead
<1>. HIDE DEF script
<1>4. script \in Seq(S) /\ InOrder("extend_rfc_approved", script)
  BY <1>2, <1>3 DEF InOrder, A
<1>. QED BY <1>4 DEF ExtendDagScript, script, A, t

LEMMA ExtendRfcIs ==
    ASSUME NEW S, Harmless \subseteq S, NEW c \in Cycle \ {0}, WriteRfc(c) \in S, NEW blocked \in BOOLEAN
    PROVE  /\ ExtendRfcScript(c, blocked) \in Seq(S)
           /\ InOrder("extend_prd_approved", ExtendRfcScript(c, blocked))
<1>. DEFINE A == Save("extend_rfc_drafting")
            Z == Save("extend_rfc_awaiting_approval")
            t == IF blocked THEN <<>> ELSE <<WriteRfc(c), Z>>
            script == <<A>> \o t
<1>1. A \in S /\ Z \in S
  BY HarmlessAre, States
<1>2. t \in Seq(S) /\ ExtendRfcLeft(t)
  <2>1. CASE blocked
    BY <2>1, SeqTuples DEF ExtendRfcLeft
  <2>2. CASE ~blocked
    <3>1. t = <<WriteRfc(c), Z>>
      BY <2>2
    <3>2. t \in Seq(S) /\ First(t, WriteRfc(c)) /\ Tail(t) = <<Z>>
      BY <1>1, <3>1, SeqTuples, Tuples
    <3>. QED BY <3>2 DEF ExtendRfcLeft
  <2>. QED BY <2>1, <2>2
<1>. HIDE DEF A, Z, t
<1>3. script \in Seq(S) /\ First(script, A) /\ Tail(script) = t
  BY <1>1, <1>2, Ahead
<1>. HIDE DEF script
<1>4. script \in Seq(S) /\ InOrder("extend_prd_approved", script)
  BY <1>2, <1>3 DEF InOrder, A
<1>. QED BY <1>4 DEF ExtendRfcScript, script, A, Z, t

LEMMA ExtendIs ==
    ASSUME NEW S, Harmless \subseteq S, NEW c \in Cycle \ {0}, NEW blocked \in BOOLEAN
    PROVE  /\ ExtendScript(c, blocked) \in Seq(S)
           /\ InOrder("done", ExtendScript(c, blocked))
           /\ First(ExtendScript(c, blocked), Enter("extend_dialog"))
<1>. DEFINE A == Enter("extend_dialog")
            B == Save("extend_prd_dialog")
            Z == Save("extend_prd_awaiting_approval")
            t == IF blocked THEN <<>> ELSE <<WritePrd(c), Z>>
            u == <<B>> \o t
            script == <<A, B>> \o t
<1>1. A \in S /\ B \in S /\ Z \in S /\ WritePrd(c) \in S
  BY HarmlessAre, States
<1>2. t \in Seq(S) /\ ExtendPrdLeft(t)
  <2>1. CASE blocked
    BY <2>1, SeqTuples DEF ExtendPrdLeft
  <2>2. CASE ~blocked
    <3>1. t = <<WritePrd(c), Z>>
      BY <2>2
    <3>2. t \in Seq(S) /\ First(t, WritePrd(c)) /\ Tail(t) = <<Z>>
      BY <1>1, <3>1, SeqTuples, Tuples
    <3>. QED BY <3>2 DEF ExtendPrdLeft
  <2>. QED BY <2>1, <2>2
<1>. HIDE DEF A, B, Z, t
<1>3. u \in Seq(S) /\ First(u, B) /\ Tail(u) = t
  BY <1>1, <1>2, Ahead
<1>4. script = <<A>> \o u
  <2>1. <<A>> \o <<B>> = <<A, B>> /\ <<A>> \in Seq(S) /\ <<B>> \in Seq(S)
    <3>. DEFINE w == <<A>> \o <<B>>
    <3>1. <<A>> \in Seq(S) /\ <<B>> \in Seq(S) /\ Len(<<A>>) = 1 /\ Len(<<B>>) = 1
      BY <1>1
    <3>2. /\ w \in Seq(S) /\ Len(w) = 2
          /\ \A i \in 1..2 : w[i] = IF i <= 1 THEN <<A>>[i] ELSE <<B>>[i - 1]
      BY <3>1, ConcatProperties
    <3>. HIDE DEF w
    <3>3. <<A, B>> \in Seq(S) /\ Len(<<A, B>>) = 2
      BY <1>1
    <3>4. \A i \in 1..2 : w[i] = <<A, B>>[i]
      BY <3>2
    <3>5. w = <<A, B>>
      BY <3>2, <3>3, <3>4, SeqEqual
    <3>. QED BY <3>1, <3>5 DEF w
  <2>2. (<<A>> \o <<B>>) \o t = <<A>> \o (<<B>> \o t)
    BY <1>2, <2>1, ConcatAssociative
  <2>. QED BY <2>1, <2>2
<1>. HIDE DEF u, script
<1>5. script \in Seq(S) /\ First(script, A) /\ Tail(script) = u
  BY <1>1, <1>3, <1>4, Ahead
<1>6. ExtendLeft(u)
  BY <1>2, <1>3 DEF ExtendLeft, B
<1>7. script \in Seq(S) /\ InOrder("done", script) /\ First(script, Enter("extend_dialog"))
  BY <1>5, <1>6 DEF InOrder, A
<1>. QED BY <1>7 DEF ExtendScript, script, A, B, Z, t

LEMMA RefineIs ==
    ASSUME NEW S, Harmless \subseteq S, NEW d \in Dialog
    PROVE  RefineScript(d) \in Seq(S) /\ InOrder(d, RefineScript(d))
<1>. DEFINE M == Write("intent.md")
            J == Write("stack.json")
            K == Write("stack.md")
            T == Turn(d)
            P == WritePrd(0)
<1>1. M \in S /\ J \in S /\ K \in S /\ T \in S /\ P \in S
  BY HarmlessAre, Items, ZeroCycle
<1>2. Quiescent(M) /\ Quiescent(J) /\ Quiescent(K) /\ Quiescent(T)
  BY Ops DEF Quiescent
<1>3. /\ d = "intake_dialog" => RefineScript(d) = <<M, T>>
      /\ d = "stack_dialog" => RefineScript(d) = <<J, K, T>>
      /\ d = "prd_dialog" => RefineScript(d) = <<P, T>>
  BY DEF RefineScript
<1>. HIDE DEF M, J, K, T, P
<1>4. /\ <<M, T>> \in Seq(S) /\ Plain(<<M, T>>)
      /\ <<J, K, T>> \in Seq(S) /\ Plain(<<J, K, T>>)
      /\ <<P, T>> \in Seq(S) /\ First(<<P, T>>, P) /\ Tail(<<P, T>>) = <<T>> /\ Plain(<<T>>)
  BY <1>1, <1>2, PlainTuples, SeqTuples, Tuples
<1>5. PrdLeft(<<P, T>>)
  BY <1>4 DEF PrdLeft, P
<1>. QED BY <1>3, <1>4, <1>5 DEF InOrder, Dialog

LEMMA LockIs ==
    ASSUME NEW S, Harmless \subseteq S, NEW d \in Dialog
    PROVE  LockScript(d) \in Seq(S) /\ InOrder(d, LockScript(d))
<1>. DEFINE G == Write("golden_path_inputs.json")
            J == Write("stack.json")
            K == Write("stack.md")
            T == Turn("stack_dialog")
            P == WritePrd(0)
            U == Turn("prd_dialog")
            A == Save("stack_dialog")
            B == Save("prd_dialog")
            Z == Save("mvp_scope_locking")
<1>1. /\ G \in S /\ J \in S /\ K \in S /\ T \in S /\ P \in S /\ U \in S /\ A \in S /\ B \in S
      /\ Z \in S /\ SeedScope \in S
  BY HarmlessAre, States, Items, ZeroCycle
<1>2. Quiescent(G) /\ Quiescent(J) /\ Quiescent(K) /\ Quiescent(T) /\ Quiescent(U)
  BY Ops DEF Quiescent
<1>3. /\ d = "intake_dialog" => LockScript(d) = <<A, G, J, K, T>>
      /\ d = "stack_dialog" => LockScript(d) = <<B, P, U>>
      /\ d = "prd_dialog" => LockScript(d) = <<SeedScope, Z>>
  BY DEF LockScript, LockIntake, LockStack, LockPrd
<1>. HIDE DEF G, J, K, T, P, U, A, B, Z
<1>4. /\ <<A, G, J, K, T>> \in Seq(S) /\ First(<<A, G, J, K, T>>, A)
      /\ Tail(<<A, G, J, K, T>>) = <<G, J, K, T>> /\ Plain(<<G, J, K, T>>)
  <2>1. <<A, G, J, K, T>> \in Seq(S)
    BY <1>1, SeqTuples
  <2>2. First(<<A, G, J, K, T>>, A) /\ Tail(<<A, G, J, K, T>>) = <<G, J, K, T>>
    BY Tuples
  <2>3. Plain(<<G, J, K, T>>)
    BY <1>2, PlainTuples
  <2>. QED BY <2>1, <2>2, <2>3
<1>5. /\ <<B, P, U>> \in Seq(S) /\ First(<<B, P, U>>, B) /\ Tail(<<B, P, U>>) = <<P, U>>
      /\ First(<<P, U>>, P) /\ Tail(<<P, U>>) = <<U>> /\ Plain(<<U>>)
  BY <1>1, <1>2, PlainTuples, SeqTuples, Tuples
<1>6. <<SeedScope, Z>> \in Seq(S) /\ SeedLeft(<<SeedScope, Z>>)
  BY <1>1, SeqTuples, Tuples DEF SeedLeft, Z
<1>7. InOrder("intake_dialog", <<A, G, J, K, T>>)
  BY <1>4 DEF InOrder, A
<1>8. InOrder("stack_dialog", <<B, P, U>>)
  BY <1>5 DEF InOrder, PrdLeft, B, P
<1>. QED BY <1>3, <1>4, <1>5, <1>6, <1>7, <1>8 DEF InOrder, Dialog

LEMMA ScopeIs ==
    ASSUME NEW S, Harmless \subseteq S, locked \in BOOLEAN,
           NEW reset \in BOOLEAN, NEW edit \in BOOLEAN, NEW lock \in BOOLEAN
    PROVE  /\ ScopeScript(reset, edit, lock) \in Seq(S)
           /\ InOrder("mvp_scope_locking", ScopeScript(reset, edit, lock))
           /\ ScopeLeft(ScopeScript(reset, edit, lock))
<1>. DEFINE W == WriteScope(FALSE)
            b == ~reset /\ locked
            E == WriteScope(b)
            L == WriteScope(TRUE)
            Z == Save("prd_awaiting_approval")
            t == IF lock THEN <<L, Z>> ELSE <<>>
            u == OneOf(edit, E) \o t
            script == OneOf(reset, W) \o OneOf(edit, E) \o t
<1>1. W \in S /\ E \in S /\ L \in S /\ Z \in S /\ b \in BOOLEAN
  <2>1. b \in BOOLEAN /\ FALSE \in BOOLEAN /\ TRUE \in BOOLEAN
    OBVIOUS
  <2>. HIDE DEF b
  <2>2. W \in Harmless /\ E \in Harmless /\ L \in Harmless
    BY <2>1, HarmlessAre
  <2>3. Z \in Harmless
    BY HarmlessAre, States
  <2>. QED BY <2>1, <2>2, <2>3
<1>. HIDE DEF b
<1>2. t \in Seq(S) /\ (t = <<>> \/ LockLeft(t))
  <2>1. CASE lock
    <3>1. t = <<L, Z>>
      BY <2>1
    <3>2. t \in Seq(S) /\ First(t, L) /\ Tail(t) = <<Z>>
      BY <1>1, <3>1, SeqTuples, Tuples
    <3>. QED BY <3>2 DEF LockLeft
  <2>2. CASE ~lock
    BY <2>2, SeqTuples
  <2>. QED BY <2>1, <2>2
<1>3. First(u, E) => \E x \in BOOLEAN : First(u, WriteScope(x))
  BY <1>1
<1>. HIDE DEF W, E, L, Z, t
<1>4. u \in Seq(S) /\ EditLeft(u)
  <2>1. CASE edit
    <3>1. u = <<E>> \o t
      BY <2>1 DEF OneOf
    <3>. HIDE DEF u
    <3>2. u \in Seq(S) /\ First(u, E) /\ Tail(u) = t
      BY <1>1, <1>2, <3>1, Ahead
    <3>. QED BY <1>2, <1>3, <3>2 DEF EditLeft
  <2>2. CASE ~edit
    <3>1. u = <<>> \o t
      BY <2>2 DEF OneOf
    <3>. HIDE DEF u
    <3>2. u = t
      BY <1>1, <1>2, <3>1, Ahead
    <3>. QED BY <1>2, <3>2 DEF EditLeft
  <2>. QED BY <2>1, <2>2
<1>5. script = OneOf(reset, W) \o u
  <2>1. OneOf(reset, W) \in Seq(S) /\ OneOf(edit, E) \in Seq(S)
    BY <1>1, SeqTuples DEF OneOf
  <2>. QED BY <2>1, <1>2, ConcatAssociative
<1>. HIDE DEF u, script
<1>6. script \in Seq(S) /\ ScopeLeft(script)
  <2>1. CASE reset
    <3>1. script = <<W>> \o u
      BY <1>5, <2>1 DEF OneOf
    <3>2. script \in Seq(S) /\ First(script, W) /\ Tail(script) = u
      BY <1>1, <1>4, <3>1, Ahead
    <3>. QED BY <1>4, <3>2 DEF ScopeLeft, W
  <2>2. CASE ~reset
    <3>1. script = <<>> \o u
      BY <1>5, <2>2 DEF OneOf
    <3>2. script = u
      BY <1>1, <1>4, <3>1, Ahead
    <3>. QED BY <1>4, <3>2 DEF ScopeLeft
  <2>. QED BY <2>1, <2>2
<1>7. InOrder("mvp_scope_locking", script)
  BY <1>6 DEF InOrder
<1>. QED BY <1>6, <1>7 DEF ScopeScript, script, W, E, L, Z, t, b

(***************************************************************************)
(* The last cycle of a document                                            *)
(***************************************************************************)
LEMMA LastIs ==
    ASSUME NEW doc
    PROVE  /\ LastCycle(doc) \in Cycle
           /\ LastCycle(doc) > 0 => doc[LastCycle(doc)] # "none"
           /\ \A d \in Cycle : d > LastCycle(doc) => doc[d] = "none"
<1>. DEFINE T == {c \in Cycle : \A d \in Cycle : d > c => doc[d] = "none"}
            R == {ss \in Nat \X Nat : ss[1] < ss[2]}
<1>1. T \in SUBSET Nat /\ T # {}
  <2>1. MaxCycle \in T
    BY PlanningAssumption DEF Cycle
  <2>. QED BY <2>1 DEF Cycle
<1>2. IsWellFoundedOn(R, Nat)
  BY NatLessThanWellFounded DEF OpToRel
<1>3. \A x, y \in Nat : y < x => <<y, x>> \in R
  OBVIOUS
<1>. HIDE DEF R, T
<1>4. PICK m \in T : \A y \in T : ~(<<y, m>> \in R)
  BY <1>1, <1>2, WFMin
<1>5. m \in Cycle /\ m \in Nat /\ \A d \in Cycle : d > m => doc[d] = "none"
  BY <1>1, <1>4 DEF T
<1>6. m > 0 => doc[m] # "none"
  <2>. SUFFICES ASSUME m > 0, doc[m] = "none" PROVE FALSE
    OBVIOUS
  <2>1. m - 1 \in Cycle /\ m - 1 \in Nat /\ m - 1 < m
    BY <1>5, PlanningAssumption DEF Cycle
  <2>2. \A d \in Cycle : d > m - 1 => doc[d] = "none"
    <3>. SUFFICES ASSUME NEW d \in Cycle, d > m - 1 PROVE doc[d] = "none"
      OBVIOUS
    <3>1. d = m \/ d > m
      BY <1>5 DEF Cycle
    <3>. QED BY <1>5, <3>1
  <2>3. m - 1 \in T
    BY <2>1, <2>2 DEF T
  <2>. QED BY <1>3, <1>4, <1>5, <2>1, <2>3
<1>. QED BY <1>5, <1>6 DEF LastCycle

(***************************************************************************)
(* Types                                                                   *)
(***************************************************************************)
LEMMA CmdTypes ==
    ASSUME TypeOK, NEW p \in Process
    PROVE  /\ cmd[p].stage \in Stage /\ cmd[p].todo \in Seq(Effect)
           /\ cmd[p].proj \in Project /\ cmd[p].proj.state \in ProjectState
           /\ disk.state \in ProjectState
BY DEF TypeOK, Cmd, Project

LEMMA DoTypes ==
    ASSUME TypeOK, NEW p \in Process, NEW script \in Seq(Effect), NEW next \in Stage,
           Do(p, script, next), OnlyCommand
    PROVE  TypeOK'
BY DEF TypeOK, Cmd, Do, OnlyCommand

LEMMA StartTypes ==
    ASSUME TypeOK, NEW p \in Process, NEW stage \in {"babel", "end"}, NEW script \in Seq(Effect),
           Start(p, stage, script)
    PROVE  TypeOK'
<1>1. [stage |-> stage, proj |-> disk, todo |-> script] \in Cmd
  BY DEF TypeOK, Cmd, Stage
<1>2. cmd' \in [Process -> Cmd]
  BY <1>1 DEF TypeOK, Start
<1>. QED BY <1>2 DEF TypeOK, Start, OnlyCommand

LEMMA OffTypes == Off \in Cmd
<1>1. NewProject \in Project
  BY States DEF NewProject, Project
<1>. QED BY <1>1 DEF Off, Cmd, Stage

\* What is due is one of the states for which the scripts are written.
LEMMA DueStates ==
    ASSUME NEW p
    PROVE  LET s == cmd[p].proj.state
           IN  /\ Due(p, "babel") => s \in {"intake", "babel_processing"}
               /\ Due(p, "analyst") => s = "prd_drafting"
               /\ Due(p, "architect") => s = "prd_approved" \/ (s = "rfc_drafting" /\ ~Has(rfc))
               /\ Due(p, "orchestrator") => s = "rfc_approved" \/ (s = "tasks_generating" /\ dag = {})
               /\ Due(p, "extend_rfc") => s = "extend_prd_approved"
               /\ Due(p, "extend_dag") => s = "extend_rfc_approved"
BY DEF Due, BabelDue, ArchitectDue, TasksDue

LEMMA HarmlessEffects ==
    Harmless \subseteq Effect /\ \A c \in Cycle : WriteRfc(c) \in Effect
BY EffectTypes DEF Harmless

\* A script begins with something else than its last save, and with the scope.json
\* only where `ortim lock` leaves the PRD dialog.
Opening(s, t) ==
    /\ \A n \in {"mvp_scope_locking", "prd_awaiting_approval", "rfc_awaiting_approval", "tasks_ready"} :
          t # <<Save(n)>>
    /\ SeedLeft(t) => s = "prd_dialog"

LEMMA Openings ==
    ASSUME NEW s, NEW t \in Seq(Effect), InOrder(s, t)
    PROVE  /\ t = <<Save("mvp_scope_locking")>> => s \in {"prd_dialog", "prd_drafting"}
           /\ t = <<Save("prd_awaiting_approval")>> => s = "mvp_scope_locking"
           /\ t = <<Save("rfc_awaiting_approval")>> => s = "rfc_drafting"
           /\ t = <<Save("tasks_ready")>> => s = "tasks_generating"
           /\ SeedLeft(t) => s \in {"prd_dialog", "prd_drafting"}
<1>1. ASSUME NEW n, t = <<Save(n)>> PROVE SavesMove(s, n, t)
  <2>1. t # <<>> /\ Head(t).op = "save" /\ Head(t).to = n
    BY <1>1, Ops
  <2>2. SavesMove(s, Head(t).to, t)
    BY <2>1, SaveCases
  <2>. QED BY <2>1, <2>2
<1>2. SeedLeft(t) => s \in {"prd_dialog", "prd_drafting"}
  <2>1. SeedLeft(t) => t # <<>> /\ Head(t).op = "seed"
    BY Begins DEF SeedLeft, First
  <2>. QED BY <2>1, SeedCases
<1>3. t = <<Save("mvp_scope_locking")>> => s \in {"prd_dialog", "prd_drafting"}
  BY <1>1 DEF SavesMove
<1>4. t = <<Save("prd_awaiting_approval")>> => s = "mvp_scope_locking"
  BY <1>1 DEF SavesMove
<1>5. t = <<Save("rfc_awaiting_approval")>> => s = "rfc_drafting"
  BY <1>1 DEF SavesMove
<1>6. t = <<Save("tasks_ready")>> => s = "tasks_generating"
  BY <1>1 DEF SavesMove
<1>. QED BY <1>2, <1>3, <1>4, <1>5, <1>6

LEMMA NoOpening ==
    ASSUME NEW s, NEW t \in Seq(Effect), InOrder(s, t),
           s \notin {"prd_drafting", "mvp_scope_locking", "rfc_drafting", "tasks_generating"},
           s = "prd_dialog" => t = <<>> \/ Head(t).op # "save"
    PROVE  Opening(s, t)
<1>1. s = "prd_dialog" => t # <<Save("mvp_scope_locking")>>
  BY Begins, Ops
<1>. QED BY <1>1, Openings DEF Opening

\* What the stages write, where the effects that rest on an approval are in S
LEMMA StageScripts ==
    ASSUME NEW S, Harmless \subseteq S, S \subseteq Effect, dag \in SUBSET Cycle,
           NEW p \in Process, Stages(p),
           EnterStage(p, "architect") => WriteRfc(0) \in S,
           EnterStage(p, "orchestrator") => WriteDag({0}) \in S,
           EnterStage(p, "extend_rfc") => WriteRfc(LastCycle(prd)) \in S,
           EnterStage(p, "extend_dag") => WriteDag(dag \union {LastCycle(rfc)}) \in S
    PROVE  /\ Running(p) /\ cmd[p].todo = <<>> /\ OnlyCommand
           /\ \E script \in Seq(S), next \in Stage \ {"off"} :
                 /\ Do(p, script, next)
                 /\ InOrder(cmd[p].proj.state, script) /\ Opening(cmd[p].proj.state, script)
                 /\ ~SeedLeft(script)
<1>. DEFINE s == cmd[p].proj.state
            Result == /\ Running(p) /\ cmd[p].todo = <<>> /\ OnlyCommand
                      /\ \E script \in Seq(S), next \in Stage \ {"off"} :
                            /\ Do(p, script, next)
                            /\ InOrder(s, script) /\ Opening(s, script) /\ ~SeedLeft(script)
<1>0. ASSUME NEW stage \in DOMAIN NextStage, AtStage(p, stage), OnlyCommand,
             NEW script \in Seq(S), NEW next \in Stage \ {"off"}, Do(p, script, next),
             InOrder(s, script), Opening(s, script), s # "prd_dialog" \/ script = <<>>
      PROVE  Result
  <2>1. stage # "off"
    BY DEF NextStage
  <2>2. Running(p) /\ cmd[p].todo = <<>>
    BY <1>0, <2>1 DEF AtStage, Running
  <2>3. ~SeedLeft(script)
    BY <1>0 DEF Opening, SeedLeft, First
  <2>. QED BY <1>0, <2>2, <2>3
<1>. SUFFICES Result
  OBVIOUS
<1>. HIDE DEF Result
<1>1. ASSUME NEW stage \in DOMAIN NextStage, PassStage(p, stage) \/ StopAtStage(p, stage) PROVE Result
  <2>1. NextStage[stage] \in Stage \ {"off"} /\ "end" \in Stage \ {"off"}
    BY DEF NextStage, Stage
  <2>2. <<>> \in Seq(S) /\ InOrder(s, <<>>)
    BY PlainTuples, SeqTuples DEF InOrder
  <2>3. Opening(s, <<>>)
    BY DEF Opening, SeedLeft, First
  <2>4. AtStage(p, stage) /\ OnlyCommand /\ (Do(p, <<>>, NextStage[stage]) \/ Do(p, <<>>, "end"))
    BY <1>1 DEF PassStage, StopAtStage
  <2>. QED BY <2>1, <2>2, <2>3, <2>4, <1>0
<1>2. CASE RunBabel(p)
  <2>1. PICK dialog \in DialogModes :
            Do(p, BabelScript(s, dialog), IF dialog THEN "end" ELSE "analyst")
    BY <1>2 DEF RunBabel
  <2>2. dialog \in BOOLEAN /\ s \in {"intake", "babel_processing"}
    BY <1>2, PlanningAssumption, DueStates DEF RunBabel, EnterStage
  <2>3. BabelScript(s, dialog) \in Seq(S) /\ InOrder(s, BabelScript(s, dialog))
    BY <2>2, BabelIs
  <2>4. (IF dialog THEN "end" ELSE "analyst") \in Stage \ {"off"}
    BY DEF Stage
  <2>5. Opening(s, BabelScript(s, dialog))
    BY <2>2, <2>3, NoOpening
  <2>6. AtStage(p, "babel") /\ OnlyCommand /\ "babel" \in DOMAIN NextStage
    BY <1>2 DEF RunBabel, EnterStage, NextStage
  <2>. QED BY <2>1, <2>2, <2>3, <2>4, <2>5, <2>6, <1>0
<1>3. CASE RunAnalyst(p)
  <2>1. s = "prd_drafting"
    BY <1>3, DueStates DEF RunAnalyst, EnterStage
  <2>2. AnalystScript \in Seq(S) /\ InOrder(s, AnalystScript) /\ First(AnalystScript, WritePrd(0))
    BY <2>1, AnalystIs, Tuples DEF AnalystScript
  <2>3. Opening(s, AnalystScript)
    BY <2>2, Begins, Ops DEF Opening, First
  <2>4. AtStage(p, "analyst") /\ OnlyCommand /\ "analyst" \in DOMAIN NextStage
    BY <1>3 DEF RunAnalyst, EnterStage, NextStage
  <2>. QED BY <1>3, <2>1, <2>2, <2>3, <2>4, <1>0 DEF RunAnalyst, Stage
<1>4. CASE RunArchitect(p)
  <2>. DEFINE cached == {"stack.json", "golden_path_inputs.json"} \subseteq files
  <2>1. PICK reclassed \in BOOLEAN :
            Do(p, ArchitectScript(s, cached, reclassed), "orchestrator")
    BY <1>4 DEF RunArchitect
  <2>2. s \in {"prd_approved", "rfc_drafting"} /\ cached \in BOOLEAN /\ WriteRfc(0) \in S
    BY <1>4, DueStates DEF RunArchitect, EnterStage
  <2>. DEFINE script == ArchitectScript(s, cached, reclassed)
  <2>. HIDE DEF cached
  <2>3. script \in Seq(S) /\ InOrder(s, script) /\ (s = "rfc_drafting" => DraftLeft(script))
    BY <2>2, ArchitectIs
  <2>. HIDE DEF script
  <2>4. Opening(s, script)
    <3>1. CASE s = "prd_approved"
      BY <2>3, <3>1, NoOpening
    <3>2. CASE s = "rfc_drafting"
      <4>1. Head(script).op \in {"rfc", "write"} \/ First(script, Save("rfc_drafting"))
        BY <2>3, <3>2, Begins DEF DraftLeft
      <4>2. script # <<Save("rfc_awaiting_approval")>>
        BY <4>1, Begins, Ops DEF First
      <4>. QED BY <2>3, <3>2, <4>2, Openings DEF Opening
    <3>. QED BY <2>2, <3>1, <3>2
  <2>5. AtStage(p, "architect") /\ OnlyCommand /\ "architect" \in DOMAIN NextStage
    BY <1>4 DEF RunArchitect, EnterStage, NextStage
  <2>6. "orchestrator" \in Stage \ {"off"}
    BY DEF Stage
  <2>. QED BY <2>1, <2>2, <2>3, <2>4, <2>5, <2>6, <1>0 DEF script
<1>5. CASE RunOrchestrator(p)
  <2>1. PICK valid \in BOOLEAN :
            Do(p, OrchestratorScript(s, valid), IF valid THEN "extend_rfc" ELSE "end")
    BY <1>5 DEF RunOrchestrator
  <2>2. s \in {"rfc_approved", "tasks_generating"} /\ WriteDag({0}) \in S
    BY <1>5, DueStates DEF RunOrchestrator, EnterStage
  <2>. DEFINE script == OrchestratorScript(s, valid)
  <2>3. script \in Seq(S) /\ InOrder(s, script) /\ (s = "tasks_generating" => DagLeft(script))
    BY <2>2, OrchestratorIs
  <2>. HIDE DEF script
  <2>4. Opening(s, script)
    <3>1. CASE s = "rfc_approved"
      BY <2>3, <3>1, NoOpening
    <3>2. CASE s = "tasks_generating"
      <4>1. Head(script).op = "dag" \/ Head(script) = Save("failed")
        BY <2>3, <3>2, Begins
      <4>2. script # <<Save("tasks_ready")>>
        BY <4>1, Begins, Ops
      <4>. QED BY <2>3, <3>2, <4>2, Openings DEF Opening
    <3>. QED BY <2>2, <3>1, <3>2
  <2>5. (IF valid THEN "extend_rfc" ELSE "end") \in Stage \ {"off"}
    BY DEF Stage
  <2>6. AtStage(p, "orchestrator") /\ OnlyCommand /\ "orchestrator" \in DOMAIN NextStage
    BY <1>5 DEF RunOrchestrator, EnterStage, NextStage
  <2>. QED BY <2>1, <2>2, <2>3, <2>4, <2>5, <2>6, <1>0 DEF script
<1>6. CASE RunExtendRfc(p)
  <2>1. PICK blocked \in {FALSE, MayBlock} : Do(p, ExtendRfcScript(LastCycle(prd), blocked), "extend_dag")
    BY <1>6 DEF RunExtendRfc
  <2>7. EnterStage(p, "extend_rfc") /\ WriteRfc(LastCycle(prd)) \in S /\ LastCycle(prd) > 0
    BY <1>6 DEF RunExtendRfc, EnterStage, Ready
  <2>8. LastCycle(prd) \in Cycle \ {0} /\ blocked \in BOOLEAN
    BY <2>7, PlanningAssumption, LastIs
  <2>2. s = "extend_prd_approved"
    BY <2>7, DueStates DEF EnterStage
  <2>. DEFINE script == ExtendRfcScript(LastCycle(prd), blocked)
  <2>3. script \in Seq(S) /\ InOrder(s, script)
    BY <2>2, <2>7, <2>8, ExtendRfcIs
  <2>. HIDE DEF script
  <2>4. Opening(s, script)
    BY <2>2, <2>3, NoOpening
  <2>5. AtStage(p, "extend_rfc") /\ OnlyCommand /\ "extend_rfc" \in DOMAIN NextStage
    BY <1>6 DEF RunExtendRfc, EnterStage, NextStage
  <2>6. "extend_dag" \in Stage \ {"off"}
    BY DEF Stage
  <2>. QED BY <2>1, <2>2, <2>3, <2>4, <2>5, <2>6, <1>0 DEF script
<1>7. CASE RunExtendDag(p)
  <2>1. PICK valid \in BOOLEAN : Do(p, ExtendDagScript(LastCycle(rfc), valid), "end")
    BY <1>7 DEF RunExtendDag
  <2>2. /\ LastCycle(rfc) \in Cycle /\ s = "extend_rfc_approved"
        /\ WriteDag(dag \union {LastCycle(rfc)}) \in S
    BY <1>7, LastIs, DueStates DEF RunExtendDag, EnterStage
  <2>. DEFINE script == ExtendDagScript(LastCycle(rfc), valid)
  <2>3. script \in Seq(S) /\ InOrder(s, script)
    BY <2>2, ExtendDagIs
  <2>. HIDE DEF script
  <2>4. Opening(s, script)
    BY <2>2, <2>3, NoOpening
  <2>5. AtStage(p, "extend_dag") /\ OnlyCommand /\ "extend_dag" \in DOMAIN NextStage
    BY <1>7 DEF RunExtendDag, EnterStage, NextStage
  <2>6. "end" \in Stage \ {"off"}
    BY DEF Stage
  <2>. QED BY <2>1, <2>2, <2>3, <2>4, <2>5, <2>6, <1>0 DEF script
<1>. QED BY <1>1, <1>2, <1>3, <1>4, <1>5, <1>6, <1>7 DEF Stages

\* What the commands that write no RFC and no tasks begin with
LEMMA StartScripts ==
    ASSUME TypeOK, NEW p \in Process, Starts(p)
    PROVE  \E stage \in {"babel", "end"}, script \in Seq(Harmless) :
              /\ Start(p, stage, script)
              /\ InOrder(disk.state, script)
              /\ Opening(disk.state, script)
              /\ SeedLeft(script) => Has(prd)
<1>. DEFINE s == disk.state
            Result == \E stage \in {"babel", "end"}, script \in Seq(Harmless) :
                /\ Start(p, stage, script)
                /\ InOrder(s, script) /\ Opening(s, script)
                /\ SeedLeft(script) => Has(prd)
<1>. SUFFICES Result
  OBVIOUS
<1>0. ASSUME NEW stage \in {"babel", "end"}, NEW script \in Seq(Harmless), Start(p, stage, script),
             InOrder(s, script), Opening(s, script), SeedLeft(script) => Has(prd)
      PROVE  Result
  BY <1>0
<1>. HIDE DEF Result
<1>a. Seq(Harmless) \subseteq Seq(Effect)
  BY HarmlessEffects
<1>1. CASE StartRun(p)
  <2>1. <<>> \in Seq(Harmless) /\ InOrder(s, <<>>)
    BY PlainTuples, SeqTuples DEF InOrder
  <2>2. Opening(s, <<>>) /\ ~SeedLeft(<<>>)
    BY DEF Opening, SeedLeft, First
  <2>. QED BY <1>0, <1>1, <2>1, <2>2 DEF StartRun
<1>2. CASE StartRefine(p)
  <2>. DEFINE script == RefineScript(s)
  <2>1. s \in Dialog /\ Start(p, "end", script)
    BY <1>2 DEF StartRefine
  <2>2. script \in Seq(Harmless) /\ InOrder(s, script)
    BY <2>1, RefineIs
  <2>3. s = "prd_dialog" => Head(script).op = "prd"
    BY Ops DEF RefineScript
  <2>. HIDE DEF script
  <2>4. Opening(s, script)
    BY <1>a, <2>1, <2>2, <2>3, NoOpening DEF Dialog
  <2>5. ~SeedLeft(script)
    BY <2>3, <2>4, Begins DEF Opening
  <2>. QED BY <1>0, <2>1, <2>2, <2>4, <2>5
<1>3. CASE StartLock(p)
  <2>. DEFINE script == LockScript(s)
  <2>1. s \in Dialog /\ Start(p, "end", script) /\ (s = "prd_dialog" => Has(prd))
    BY <1>3 DEF StartLock, LockReady, Dialog
  <2>2. script \in Seq(Harmless) /\ InOrder(s, script)
    BY <2>1, LockIs
  <2>3. s = "prd_dialog" => Head(script).op = "seed"
    BY Ops DEF LockScript, LockPrd
  <2>. HIDE DEF script
  <2>4. Opening(s, script)
    BY <1>a, <2>1, <2>2, <2>3, NoOpening DEF Dialog
  <2>. QED BY <1>0, <2>1, <2>2, <2>4 DEF Opening
<1>4. ASSUME NEW reset \in BOOLEAN, NEW edit \in BOOLEAN, NEW lock \in BOOLEAN,
             StartScope(p, reset, edit, lock)
      PROVE  Result
  <2>. DEFINE script == ScopeScript(reset, edit, lock)
  <2>1. s = "mvp_scope_locking" /\ Start(p, "end", script)
    BY <1>4 DEF StartScope
  <2>2. script \in Seq(Harmless) /\ InOrder(s, script) /\ ScopeLeft(script)
    BY <2>1, ScopeIs DEF TypeOK
  <2>. HIDE DEF script
  <2>3. script = <<>> \/ Head(script).op = "scope"
    BY <2>2, Begins
  <2>4. \A n : script # <<Save(n)>>
    BY <2>3, Begins, Ops
  <2>5. ~SeedLeft(script)
    BY <2>3, Begins DEF SeedLeft, First
  <2>. QED BY <1>0, <2>1, <2>2, <2>4, <2>5 DEF Opening
<1>5. CASE StartExtend(p)
  <2>1. PICK blocked \in {FALSE, MayBlock} : Start(p, "end", ExtendScript(LastCycle(prd) + 1, blocked))
    BY <1>5 DEF StartExtend
  <2>. DEFINE script == ExtendScript(LastCycle(prd) + 1, blocked)
  <2>2. blocked \in BOOLEAN /\ s = "done"
    BY <1>5, PlanningAssumption DEF StartExtend
  <2>3. LastCycle(prd) + 1 \in Cycle \ {0}
    <3>1. LastCycle(prd) \in Cycle /\ LastCycle(prd) < MaxCycle
      BY <1>5, LastIs DEF StartExtend
    <3>. QED BY <3>1, PlanningAssumption DEF Cycle
  <2>4. script \in Seq(Harmless) /\ InOrder(s, script)
    BY <2>2, <2>3, ExtendIs
  <2>. HIDE DEF script
  <2>5. Opening(s, script)
    BY <1>a, <2>2, <2>4, NoOpening
  <2>6. ~SeedLeft(script)
    BY <2>2, <2>5 DEF Opening
  <2>. QED BY <1>0, <2>1, <2>4, <2>5, <2>6 DEF script
<1>. QED BY <1>1, <1>2, <1>3, <1>4, <1>5 DEF Starts

LEMMA StageTypes ==
    ASSUME TypeOK, NEW p \in Process, Stages(p)
    PROVE  TypeOK'
<1>1. dag \in SUBSET Cycle /\ LastCycle(prd) \in Cycle /\ LastCycle(rfc) \in Cycle
  BY LastIs DEF TypeOK
<1>2. dag \union {LastCycle(rfc)} \in SUBSET Cycle /\ {0} \in SUBSET Cycle
  BY <1>1, ZeroCycle
<1>3. /\ WriteRfc(0) \in Effect /\ WriteDag({0}) \in Effect /\ WriteRfc(LastCycle(prd)) \in Effect
      /\ WriteDag(dag \union {LastCycle(rfc)}) \in Effect
  BY <1>1, <1>2, EffectTypes, ZeroCycle
<1>4. OnlyCommand /\ \E script \in Seq(Effect), next \in Stage : Do(p, script, next)
  BY <1>1, <1>3, StageScripts, HarmlessEffects
<1>. QED BY <1>4, DoTypes

LEMMA StartsTypes ==
    ASSUME TypeOK, NEW p \in Process, Starts(p)
    PROVE  TypeOK'
<1>1. Seq(Harmless) \subseteq Seq(Effect)
  BY HarmlessEffects
<1>. QED BY <1>1, StartScripts, StartTypes

LEMMA RestTypes ==
    ASSUME TypeOK, NEW p \in Process, cmd[p].todo # <<>>
    PROVE  /\ Head(cmd[p].todo) \in Effect /\ Tail(cmd[p].todo) \in Seq(Effect)
           /\ Rest(p) => cmd' \in [Process -> Cmd]
<1>1. cmd[p].todo \in Seq(Effect)
  BY CmdTypes
<1>2. Head(cmd[p].todo) \in Effect /\ Tail(cmd[p].todo) \in Seq(Effect)
  BY <1>1, Tails
<1>3. Rest(p) => cmd' \in [Process -> Cmd]
  BY <1>2 DEF Rest, TypeOK, Cmd
<1>. QED BY <1>2, <1>3

LEMMA WrittenTypes ==
    ASSUME NEW doc \in [Cycle -> Section], NEW c \in Cycle
    PROVE  Written(doc, c) \in [Cycle -> Section] /\ Approved(doc) \in [Cycle -> Section]
<1>1. Written(doc, c) \in [Cycle -> Section]
  BY DEF Written, Section
<1>2. Approved(doc) \in [Cycle -> Section]
  BY LastIs DEF Approved, Section
<1>. QED BY <1>1, <1>2

LEMMA EffectsTypes ==
    ASSUME TypeOK, NEW p \in Process, Effects(p)
    PROVE  TypeOK'
<1>. DEFINE e == Head(cmd[p].todo)
<1>1. /\ e \in Effect /\ Tail(cmd[p].todo) \in Seq(Effect)
      /\ Rest(p) => cmd' \in [Process -> Cmd]
  <2>1. cmd[p].todo # <<>>
    BY DEF Effects, DoSave, DoEnter, DoWrite, DoPrd, DoRfc, DoDag, DoSeed, DoScope, DoTurn, NextIs
  <2>. QED BY <2>1, RestTypes
<1>2. /\ e.op \in {"save", "enter"} => e.to \in ProjectState
      /\ e.op = "write" => e.file \in File
      /\ e.op \in {"prd", "rfc"} => e.cycle \in Cycle
      /\ e.op = "dag" => e.cycles \in SUBSET Cycle
      /\ e.op = "scope" => e.lock \in BOOLEAN
      /\ e.op = "turn" => e.dialog \in Dialog
  BY <1>1, EffectFields
<1>3. cmd[p] \in Cmd /\ cmd[p].proj \in Project
  BY DEF TypeOK, Cmd
<1>4. CASE DoSave(p)
  <2>. DEFINE now == [cmd[p].proj EXCEPT !.state = e.to]
  <2>1. e.op = "save" /\ disk' = now /\ cmd' = [cmd EXCEPT ![p].todo = Tail(@), ![p].proj = now]
    BY <1>4 DEF DoSave, NextIs
  <2>2. now \in Project
    BY <1>2, <1>3, <2>1 DEF Project
  <2>. HIDE DEF now, e
  <2>3. cmd' \in [Process -> Cmd]
    BY <1>1, <2>1, <2>2 DEF TypeOK, Cmd
  <2>. QED BY <1>4, <2>1, <2>2, <2>3 DEF TypeOK, DoSave
<1>5. CASE DoEnter(p)
  <2>1. e.op = "enter" /\ cmd' = [cmd EXCEPT ![p].todo = Tail(@), ![p].proj.state = e.to]
    BY <1>5 DEF DoEnter, NextIs
  <2>. DEFINE now == [cmd[p].proj EXCEPT !.state = e.to]
  <2>3. now \in Project
    BY <1>2, <1>3, <2>1 DEF Project
  <2>4. cmd' = [cmd EXCEPT ![p].todo = Tail(@), ![p].proj = now]
    <3>. HIDE DEF e
    <3>. QED BY <2>1
  <2>. HIDE DEF now, e
  <2>2. cmd' \in [Process -> Cmd]
    BY <1>1, <2>3, <2>4 DEF TypeOK, Cmd
  <2>. QED BY <1>5, <2>2 DEF TypeOK, DoEnter, OnlyCommand
<1>6. CASE DoWrite(p)
  BY <1>1, <1>2, <1>6 DEF TypeOK, DoWrite, NextIs
<1>7. CASE DoPrd(p)
  BY <1>1, <1>2, <1>7, WrittenTypes DEF TypeOK, DoPrd, NextIs
<1>8. CASE DoRfc(p)
  BY <1>1, <1>2, <1>8, WrittenTypes DEF TypeOK, DoRfc, NextIs
<1>9. CASE DoDag(p)
  BY <1>1, <1>2, <1>9 DEF TypeOK, DoDag, NextIs
<1>10. CASE DoSeed(p)
  BY <1>1, <1>10 DEF TypeOK, DoSeed, NextIs, File
<1>11. CASE DoScope(p)
  BY <1>1, <1>2, <1>11 DEF TypeOK, DoScope, NextIs, File
<1>12. CASE DoTurn(p)
  <2>1. e.dialog \in Dialog
    BY <1>2, <1>12 DEF DoTurn, NextIs
  <2>. HIDE DEF e
  <2>2. turns' \in [Dialog -> 0..TurnCap]
    <3>1. turns' = [turns EXCEPT ![e.dialog] = IF @ < TurnCap THEN @ + 1 ELSE @]
      BY <1>12 DEF DoTurn, e
    <3>2. turns \in [Dialog -> 0..TurnCap] /\ TurnCap \in Nat
      BY PlanningAssumption DEF TypeOK
    <3>. HIDE DEF Dialog
    <3>3. (IF turns[e.dialog] < TurnCap THEN turns[e.dialog] + 1 ELSE turns[e.dialog]) \in 0..TurnCap
      BY <2>1, <3>2
    <3>. QED BY <3>1, <3>2, <3>3
  <2>. QED BY <1>1, <1>12, <2>2 DEF TypeOK, DoTurn
<1>. QED BY <1>4, <1>5, <1>6, <1>7, <1>8, <1>9, <1>10, <1>11, <1>12 DEF Effects

LEMMA OperatorTypes ==
    ASSUME TypeOK, (\E m \in Moves : Advance(m)) \/ Archive \/ Unarchive \/ ExecuteTasks
    PROVE  TypeOK'
<1>. USE PlanningAssumption
<1>1. ASSUME NEW m \in Moves, Advance(m) PROVE TypeOK'
  <2>1. m[2] \in ProjectState
    OBVIOUS
  <2>2. disk' \in Project
    BY <1>1, <2>1 DEF Advance, TypeOK, Project
  <2>3. prd' \in [Cycle -> Section] /\ rfc' \in [Cycle -> Section]
    BY <1>1, WrittenTypes, ZeroCycle DEF Advance, TypeOK
  <2>4. moves' \in 0..MaxMoves
    BY <1>1 DEF Advance, TypeOK
  <2>. QED BY <1>1, <2>2, <2>3, <2>4 DEF Advance, TypeOK
<1>2. CASE Archive
  <2>1. disk' \in Project
    BY <1>2 DEF Archive, TypeOK, Project
  <2>2. moves' \in 0..MaxMoves
    BY <1>2 DEF Archive, TypeOK
  <2>. QED BY <1>2, <2>1, <2>2 DEF Archive, TypeOK
<1>3. CASE Unarchive
  <2>1. disk' \in Project
    BY <1>3 DEF Unarchive, TypeOK, Project
  <2>. QED BY <1>3, <2>1 DEF Unarchive, TypeOK
<1>4. CASE ExecuteTasks
  <2>1. disk' \in Project
    BY <1>4, States DEF ExecuteTasks, TypeOK, Project
  <2>. QED BY <1>4, <2>1 DEF ExecuteTasks, TypeOK
<1>. QED BY <1>1, <1>2, <1>3, <1>4

LEMMA TypeInit == Init => TypeOK
<1>. SUFFICES ASSUME Init PROVE TypeOK
  OBVIOUS
<1>1. disk \in Project
  <2>1. NewProject \in Project /\ [NewProject EXCEPT !.state = "prd_drafting"] \in Project
    BY States DEF NewProject, Project
  <2>. QED BY <2>1 DEF Init
<1>2. files \subseteq File
  BY Items DEF Init
<1>3. prd \in [Cycle -> Section] /\ rfc \in [Cycle -> Section]
  BY DEF Init, Section
<1>4. cmd \in [Process -> Cmd]
  BY OffTypes DEF Init
<1>5. turns \in [Dialog -> 0..TurnCap] /\ moves \in 0..MaxMoves /\ kills \in 0..MaxKills
  BY PlanningAssumption DEF Init
<1>. QED BY <1>1, <1>2, <1>3, <1>4, <1>5 DEF Init, TypeOK

LEMMA TypeStep ==
    ASSUME TypeOK, [Next]_vars
    PROVE  TypeOK'
<1>1. ASSUME NEW p \in Process, End(p) PROVE TypeOK'
  BY <1>1, OffTypes DEF End, OnlyCommand, TypeOK
<1>2. ASSUME NEW p \in Process, Kill(p) PROVE TypeOK'
  <2>1. kills' \in 0..MaxKills
    BY <1>2, PlanningAssumption DEF Kill, TypeOK
  <2>. QED BY <1>2, <2>1, OffTypes DEF Kill, TypeOK
<1>3. CASE UNCHANGED vars
  BY <1>3 DEF vars, TypeOK
<1>. QED BY <1>1, <1>2, <1>3, EffectsTypes, StageTypes, StartsTypes, OperatorTypes DEF Next, Command

(***************************************************************************)
(* Commands that follow one another                                        *)
(***************************************************************************)
\* What an effect does to the command and to state.json
LEMMA EffectIs ==
    ASSUME TypeOK, NEW p \in Process, Effects(p)
    PROVE  LET t == cmd[p].todo
               e == Head(t)
           IN  /\ t # <<>> /\ cmd'[p].stage = cmd[p].stage /\ cmd'[p].todo = Tail(t)
               /\ \A q \in Process \ {p} : cmd'[q] = cmd[q]
               /\ \/ /\ DoSave(p) /\ e.op = "save"
                     /\ disk' = [cmd[p].proj EXCEPT !.state = e.to] /\ cmd'[p].proj = disk'
                  \/ /\ DoEnter(p) /\ e.op = "enter"
                     /\ disk' = disk /\ cmd'[p].proj = [cmd[p].proj EXCEPT !.state = e.to]
                  \/ /\ e.op \notin {"save", "enter"}
                     /\ disk' = disk /\ cmd'[p].proj = cmd[p].proj
<1>. DEFINE t == cmd[p].todo
            e == Head(t)
<1>1. cmd \in [Process -> Cmd] /\ cmd[p] \in Cmd
  BY DEF TypeOK
<1>2. t # <<>>
  BY DEF Effects, DoSave, DoEnter, DoWrite, DoPrd, DoRfc, DoDag, DoSeed, DoScope, DoTurn, NextIs
<1>3. ASSUME Rest(p)
      PROVE  /\ cmd'[p].stage = cmd[p].stage /\ cmd'[p].todo = Tail(t) /\ cmd'[p].proj = cmd[p].proj
             /\ \A q \in Process \ {p} : cmd'[q] = cmd[q]
  BY <1>1, <1>3 DEF Rest, Cmd
<1>4. CASE DoSave(p)
  <2>. DEFINE now == [cmd[p].proj EXCEPT !.state = e.to]
  <2>1. e.op = "save" /\ disk' = now /\ cmd' = [cmd EXCEPT ![p].todo = Tail(@), ![p].proj = now]
    BY <1>4 DEF DoSave, NextIs
  <2>. HIDE DEF now
  <2>2. /\ cmd'[p].stage = cmd[p].stage /\ cmd'[p].todo = Tail(t) /\ cmd'[p].proj = now
        /\ \A q \in Process \ {p} : cmd'[q] = cmd[q]
    BY <1>1, <2>1 DEF Cmd
  <2>. QED BY <1>2, <1>4, <2>1, <2>2 DEF now
<1>5. CASE DoEnter(p)
  <2>. DEFINE now == [cmd[p].proj EXCEPT !.state = e.to]
  <2>1. e.op = "enter" /\ disk' = disk /\ cmd' = [cmd EXCEPT ![p].todo = Tail(@), ![p].proj = now]
    BY <1>5 DEF DoEnter, NextIs, OnlyCommand
  <2>. HIDE DEF now
  <2>2. /\ cmd'[p].stage = cmd[p].stage /\ cmd'[p].todo = Tail(t) /\ cmd'[p].proj = now
        /\ \A q \in Process \ {p} : cmd'[q] = cmd[q]
    BY <1>1, <2>1 DEF Cmd
  <2>. QED BY <1>2, <1>5, <2>1, <2>2 DEF now
<1>6. CASE DoWrite(p) \/ DoPrd(p) \/ DoRfc(p) \/ DoDag(p) \/ DoSeed(p) \/ DoScope(p) \/ DoTurn(p)
  <2>1. Rest(p) /\ disk' = disk /\ e.op \notin {"save", "enter"}
    BY <1>6 DEF DoWrite, DoPrd, DoRfc, DoDag, DoSeed, DoScope, DoTurn, NextIs
  <2>. QED BY <1>2, <1>3, <2>1
<1>. QED BY <1>4, <1>5, <1>6 DEF Effects

\* The state that a step leaves behind may follow the one before it.
Follows == disk'.state = disk.state \/ Saved(disk.state, disk'.state)

LEMMA EffectOrder ==
    ASSUME CommandInv, NEW p \in Process, Effects(p)
    PROVE  /\ Running(p) /\ (OneRunning /\ Idle /\ Pending)' /\ Follows
           /\ Head(cmd[p].todo).op = "save" => SavesMove(cmd[p].proj.state, disk'.state, cmd[p].todo)
           /\ Head(cmd[p].todo).op # "save" => cmd[p].proj = disk
<1>. DEFINE t == cmd[p].todo
            e == Head(t)
            s == cmd[p].proj.state
<1>1. /\ t # <<>> /\ cmd'[p].stage = cmd[p].stage /\ cmd'[p].todo = Tail(t)
      /\ \A q \in Process \ {p} : cmd'[q] = cmd[q]
  BY EffectIs DEF CommandInv
<1>2. Running(p)
  BY <1>1 DEF CommandInv, Idle
<1>3. t \in Seq(Effect) /\ cmd[p].proj \in Project /\ disk \in Project
  BY CmdTypes DEF CommandInv, TypeOK
<1>4. Loaded(cmd[p].proj, t) /\ InOrder(s, t)
  BY <1>2 DEF CommandInv, Pending
<1>5. e.op # "save" => cmd[p].proj = disk
  BY <1>4, Ops DEF Loaded, First
<1>6. \A q \in Process : Running(q)' => q = p
  BY <1>1, <1>2 DEF CommandInv, OneRunning, Running
<1>7. (OneRunning /\ Idle)'
  <2>1. \A q \in Process : ~Running(q)' => cmd'[q].todo = <<>>
    BY <1>1, <1>2 DEF CommandInv, Idle, Running
  <2>. QED BY <1>6, <2>1 DEF OneRunning, Idle
<1>8. CASE e.op = "save"
  <2>1. disk' = [cmd[p].proj EXCEPT !.state = e.to] /\ cmd'[p].proj = disk'
    BY <1>8, EffectIs DEF CommandInv
  <2>2. disk'.state = e.to
    BY <1>3, <2>1 DEF Project
  <2>3. SavesMove(s, e.to, t)
    BY <1>1, <1>3, <1>4, <1>8, SaveCases
  <2>4. InOrder(e.to, Tail(t)) /\ (e.to = s \/ Allowed(s, e.to))
    BY <1>3, <2>3, SavedOrder
  <2>5. Pending'
    BY <1>1, <1>6, <2>1, <2>2, <2>4 DEF Pending, Loaded
  <2>6. Follows
    <3>1. CASE cmd[p].proj = disk
      BY <2>2, <2>4, <3>1 DEF Follows, Saved
    <3>2. CASE disk.state = "done" /\ First(t, Save("extend_prd_dialog"))
      BY <2>2, <3>2, Ops DEF Follows, Saved, First
    <3>. QED BY <1>4, <3>1, <3>2 DEF Loaded
  <2>. QED BY <1>2, <1>7, <1>8, <2>2, <2>3, <2>5, <2>6
<1>9. CASE e.op = "enter"
  <2>1. disk' = disk /\ cmd'[p].proj = [cmd[p].proj EXCEPT !.state = e.to]
    BY <1>9, EffectIs DEF CommandInv
  <2>2. s = "done" /\ e.to = "extend_dialog" /\ ExtendLeft(Tail(t))
    BY <1>1, <1>3, <1>4, <1>9, EnterCases
  <2>3. First(Tail(t), Save("extend_prd_dialog"))
    BY <2>2 DEF ExtendLeft
  <2>4. cmd[p].proj = disk /\ cmd'[p].proj.state = "extend_dialog"
    BY <1>3, <1>5, <1>9, <2>1, <2>2 DEF Project
  <2>5. InOrder(cmd'[p].proj.state, Tail(t))
    BY <2>2, <2>4 DEF InOrder
  <2>6. Pending'
    BY <1>1, <1>6, <2>1, <2>2, <2>3, <2>4, <2>5 DEF Pending, Loaded
  <2>. QED BY <1>2, <1>5, <1>7, <1>9, <2>1, <2>6 DEF Follows
<1>10. CASE e.op \notin {"save", "enter"}
  <2>1. disk' = disk /\ cmd'[p].proj = cmd[p].proj
    BY <1>10, EffectIs DEF CommandInv
  <2>2. InOrder(s, Tail(t))
    BY <1>1, <1>3, <1>4, <1>10, OtherOrder
  <2>3. Pending'
    BY <1>1, <1>5, <1>6, <1>10, <2>1, <2>2 DEF Pending, Loaded
  <2>. QED BY <1>2, <1>5, <1>7, <1>10, <2>1, <2>3 DEF Follows
<1>. QED BY <1>8, <1>9, <1>10

LEMMA StageOrder ==
    ASSUME CommandInv, NEW p \in Process, Running(p), cmd[p].todo = <<>>, OnlyCommand,
           NEW script, NEW next \in Stage \ {"off"}, Do(p, script, next),
           InOrder(cmd[p].proj.state, script)
    PROVE  (OneRunning /\ Idle /\ Pending)' /\ disk' = disk /\ cmd[p].proj = disk
<1>1. /\ cmd'[p].stage = next /\ cmd'[p].todo = script /\ cmd'[p].proj = cmd[p].proj
      /\ \A q \in Process \ {p} : cmd'[q] = cmd[q]
  BY DEF CommandInv, TypeOK, Cmd, Do
<1>2. disk' = disk /\ cmd[p].proj = disk
  BY DEF OnlyCommand, CommandInv, Pending, Loaded, First
<1>3. \A q \in Process : Running(q)' => q = p
  BY <1>1 DEF CommandInv, OneRunning, Running
<1>4. OneRunning'
  BY <1>3 DEF OneRunning
<1>5. Idle'
  BY <1>1 DEF CommandInv, Idle, Running
<1>6. Pending'
  BY <1>1, <1>2, <1>3 DEF Pending, Loaded
<1>. QED BY <1>2, <1>4, <1>5, <1>6

LEMMA StartOrder ==
    ASSUME Overlap = FALSE, CommandInv, NEW p \in Process, NEW stage \in {"babel", "end"},
           NEW script, Start(p, stage, script), InOrder(disk.state, script)
    PROVE  (OneRunning /\ Idle /\ Pending)' /\ disk' = disk
<1>1. /\ cmd'[p] = [stage |-> stage, proj |-> disk, todo |-> script]
      /\ \A q \in Process \ {p} : cmd'[q] = cmd[q] /\ ~Running(q)
      /\ disk' = disk
  BY DEF CommandInv, TypeOK, Start, MayStart, OnlyCommand
<1>2. \A q \in Process : Running(q)' => q = p
  BY <1>1 DEF Running
<1>3. OneRunning'
  BY <1>2 DEF OneRunning
<1>4. Idle'
  BY <1>1 DEF CommandInv, Idle, Running
<1>5. Pending'
  BY <1>1, <1>2 DEF Pending, Loaded
<1>. QED BY <1>1, <1>3, <1>4, <1>5

LEMMA OffOrder ==
    ASSUME CommandInv, NEW p \in Process, cmd' = [cmd EXCEPT ![p] = Off], disk' = disk
    PROVE  (OneRunning /\ Idle /\ Pending)'
<1>1. cmd'[p] = Off /\ \A q \in Process \ {p} : cmd'[q] = cmd[q]
  BY DEF CommandInv, TypeOK
<1>2. Off.stage = "off" /\ Off.todo = <<>>
  BY DEF Off
<1>3. \A q \in Process : Running(q)' => q # p /\ Running(q)
  BY <1>1, <1>2 DEF Running
<1>4. OneRunning'
  BY <1>3 DEF CommandInv, OneRunning
<1>5. Idle'
  BY <1>1, <1>2 DEF CommandInv, Idle, Running
<1>6. Pending'
  BY <1>1, <1>3 DEF CommandInv, Pending, Loaded
<1>. QED BY <1>4, <1>5, <1>6

LEMMA QuietOrder ==
    ASSUME CommandInv, \A p \in Process : ~Running(p), cmd' = cmd
    PROVE  (OneRunning /\ Idle /\ Pending)'
<1>1. \A p \in Process : ~Running(p)'
  BY DEF Running
<1>2. Idle'
  BY DEF CommandInv, Idle, Running
<1>. QED BY <1>1, <1>2 DEF OneRunning, Pending

LEMMA OperatorOrder ==
    ASSUME Overlap = FALSE, CommandInv,
           (\E m \in Moves : Advance(m)) \/ Archive \/ Unarchive \/ ExecuteTasks
    PROVE  /\ \A p \in Process : ~Running(p)
           /\ cmd' = cmd /\ Follows
<1>1. (\A p \in Process : ~Running(p)) /\ cmd' = cmd
  BY DEF Advance, Archive, Unarchive, ExecuteTasks, Quiet
<1>2. disk \in Project
  BY DEF CommandInv, TypeOK
<1>3. ASSUME NEW m \in Moves, Advance(m) PROVE Follows
  BY <1>2, <1>3 DEF Advance, Follows, Saved, Project
<1>4. ASSUME Archive \/ Unarchive PROVE Follows
  <2>1. PICK b \in BOOLEAN : disk' = [disk EXCEPT !.archived = b]
    BY <1>4 DEF Archive, Unarchive
  <2>. QED BY <1>2, <2>1 DEF Follows, Project
<1>5. ASSUME ExecuteTasks PROVE Follows
  <2>1. CASE disk.state = "tasks_ready"
    <3>1. disk'.state = "executing"
      BY <1>2, <1>5, <2>1 DEF ExecuteTasks, Project
    <3>. QED BY <2>1, <3>1, CommandMoves DEF Follows, Saved
  <2>2. CASE disk.state = "executing"
    <3>1. disk'.state = "done"
      BY <1>2, <1>5, <2>2 DEF ExecuteTasks, Project
    <3>. QED BY <2>2, <3>1, CommandMoves DEF Follows, Saved
  <2>. QED BY <1>5, <2>1, <2>2 DEF ExecuteTasks
<1>. QED BY <1>1, <1>3, <1>4, <1>5

LEMMA OrderStep ==
    ASSUME Overlap = FALSE, CommandInv, [Next]_vars
    PROVE  CommandInv' /\ Follows
<1>. DEFINE Order == (OneRunning /\ Idle /\ Pending)' /\ Follows
<1>0. TypeOK /\ TypeOK'
  BY TypeStep DEF CommandInv
<1>1. ASSUME NEW p \in Process, Effects(p) PROVE Order
  BY <1>1, EffectOrder
<1>2. ASSUME NEW p \in Process, Stages(p) PROVE Order
  <2>1. dag \in SUBSET Cycle /\ LastCycle(prd) \in Cycle /\ LastCycle(rfc) \in Cycle
    BY <1>0, LastIs DEF TypeOK
  <2>2. dag \union {LastCycle(rfc)} \in SUBSET Cycle /\ {0} \in SUBSET Cycle
    BY <2>1, ZeroCycle
  <2>3. /\ WriteRfc(0) \in Effect /\ WriteDag({0}) \in Effect /\ WriteRfc(LastCycle(prd)) \in Effect
        /\ WriteDag(dag \union {LastCycle(rfc)}) \in Effect
    BY <2>1, <2>2, EffectTypes, ZeroCycle
  <2>4. /\ Running(p) /\ cmd[p].todo = <<>> /\ OnlyCommand
        /\ \E script \in Seq(Effect), next \in Stage \ {"off"} :
              Do(p, script, next) /\ InOrder(cmd[p].proj.state, script)
    BY <1>2, <2>1, <2>3, StageScripts, HarmlessEffects
  <2>. QED BY <2>4, StageOrder DEF Follows
<1>3. ASSUME NEW p \in Process, Starts(p) PROVE Order
  BY <1>0, <1>3, StartScripts, StartOrder DEF Follows
<1>4. ASSUME NEW p \in Process, End(p) \/ Kill(p) PROVE Order
  <2>1. cmd' = [cmd EXCEPT ![p] = Off] /\ disk' = disk
    BY <1>4 DEF End, Kill, OnlyCommand
  <2>. QED BY <2>1, OffOrder DEF Follows
<1>5. ASSUME (\E m \in Moves : Advance(m)) \/ Archive \/ Unarchive \/ ExecuteTasks PROVE Order
  <2>1. (\A p \in Process : ~Running(p)) /\ cmd' = cmd /\ Follows
    BY <1>5, OperatorOrder
  <2>2. (OneRunning /\ Idle /\ Pending)'
    BY <2>1, QuietOrder
  <2>. QED BY <2>1, <2>2
<1>6. ASSUME UNCHANGED vars PROVE Order
  <2>1. disk' = disk /\ cmd' = cmd
    BY <1>6 DEF vars
  <2>2. OneRunning' /\ Idle'
    BY <2>1 DEF CommandInv, OneRunning, Idle, Running
  <2>3. Pending'
    BY <2>1 DEF CommandInv, Pending, Loaded, Running
  <2>. QED BY <2>1, <2>2, <2>3 DEF Follows
<1>7. Order
  <2>. HIDE DEF Order
  <2>. QED BY <1>1, <1>2, <1>3, <1>4, <1>5, <1>6 DEF Next, Command
<1>. QED BY <1>0, <1>7 DEF CommandInv

LEMMA OrderInit == Init => CommandInv
<1>. SUFFICES ASSUME Init PROVE CommandInv
  OBVIOUS
<1>1. \A p \in Process : cmd[p] = Off
  BY DEF Init
<1>2. \A p \in Process : ~Running(p) /\ cmd[p].todo = <<>>
  BY <1>1 DEF Running, Off
<1>. QED BY <1>2, TypeInit DEF CommandInv, OneRunning, Idle, Pending

(***************************************************************************)
(* The first theorems                                                      *)
(***************************************************************************)
\* Every variable keeps its type, whether or not commands overlap.
THEOREM TypeCorrect == Spec => []TypeOK
<1>1. TypeOK /\ [Next]_vars => TypeOK'
  BY TypeStep
<1>. QED BY <1>1, TypeInit, PTL DEF Spec

\* Commands that do not overlap move state.json along TRANSITIONS only, for any
\* moves of the operator and wherever they are killed (Project.save).
THEOREM FollowsTable ==
    ASSUME Overlap = FALSE
    PROVE  Spec => StateFollowsTable
<1>1. CommandInv /\ [Next]_vars => CommandInv'
  BY OrderStep
<1>2. CommandInv /\ [Next]_vars => [disk'.state # disk.state => Saved(disk.state, disk'.state)]_vars
  BY OrderStep DEF Follows
<1>3. Spec => []CommandInv
  BY <1>1, OrderInit, PTL DEF Spec
<1>. QED BY <1>2, <1>3, PTL DEF Spec, StateFollowsTable

(***************************************************************************)
(* What the state on disk stands for                                       *)
(***************************************************************************)
\* The moves that vouch for no artifact, backwards
LEMMA Predecessors ==
    ASSUME NEW s \in ProjectState, NEW n \in ProjectState, Allowed(s, n), <<s, n>> \notin Skips
    PROVE  /\ n \in BeforeG1 => s \in BeforeG1 /\ n # "prd_awaiting_approval"
           /\ n = "mvp_scope_locking" => s = "prd_awaiting_approval"
           /\ n = "prd_approved" => s = "prd_awaiting_approval"
           /\ n = "rfc_drafting" => s \in {"prd_approved", "rfc_awaiting_approval"}
           /\ n # "rfc_awaiting_approval"
           /\ n = "rfc_approved" => s = "rfc_awaiting_approval"
           /\ n = "tasks_generating" => s \in {"rfc_approved", "extend_rfc_approved"}
           /\ n \in Planned \union Waiting => s \in Planned \union Waiting
           /\ n = "extend_prd_approved" => s = "extend_prd_awaiting_approval"
           /\ n = "extend_rfc_approved" => s = "extend_rfc_awaiting_approval"
           /\ n \in Extending => s \in {"done"} \union (Extending \ {"extend_rfc_approved"})
<1>1. s # "paused"
  BY DEF Skips
<1>2. n \in Transitions[s]
  BY DEF Allowed
<1>3. /\ n = "mvp_scope_locking" => s \notin {"prd_drafting", "prd_dialog"}
      /\ <<s, n>> # <<"mvp_scope_locking", "prd_awaiting_approval">>
      /\ <<s, n>> # <<"rfc_drafting", "rfc_awaiting_approval">>
      /\ <<s, n>> # <<"tasks_generating", "tasks_ready">>
  BY DEF Skips
<1>4. CASE s \in {"intake", "babel_processing", "intake_dialog", "stack_dialog", "prd_dialog",
                  "prd_drafting", "mvp_scope_locking", "prd_awaiting_approval"}
  BY <1>2, <1>3, <1>4, Rows DEF BeforeG1, Planned, Waiting, Extending
<1>5. CASE s \in {"prd_approved", "rfc_drafting", "rfc_awaiting_approval", "rfc_approved",
                  "tasks_generating", "failed", "extend_rfc_approved"}
  BY <1>2, <1>3, <1>5, Rows DEF BeforeG1, Planned, Waiting, Extending
<1>6. CASE s \in {"tasks_ready", "schema_awaiting_approval", "executing",
                  "budget_awaiting_approval", "deploy_awaiting_approval", "done"}
  BY <1>2, <1>6, Rows DEF BeforeG1, Planned, Waiting, Extending
<1>7. CASE s \in {"extend_dialog", "extend_prd_dialog", "extend_prd_awaiting_approval",
                  "extend_prd_approved", "extend_rfc_drafting", "extend_rfc_awaiting_approval"}
  BY <1>2, <1>7, Rows DEF BeforeG1, Planned, Waiting, Extending
<1>. QED BY <1>1, <1>4, <1>5, <1>6, <1>7, States

\* The last section of a document, and its approval
LEMMA SameLast ==
    ASSUME NEW a, NEW b, \A c \in Cycle : a[c] = "none" <=> b[c] = "none"
    PROVE  LastCycle(a) = LastCycle(b)
<1>1. /\ LastCycle(a) \in Cycle /\ LastCycle(b) \in Cycle
      /\ LastCycle(a) > 0 => a[LastCycle(a)] # "none"
      /\ LastCycle(b) > 0 => b[LastCycle(b)] # "none"
      /\ \A d \in Cycle : d > LastCycle(a) => a[d] = "none"
      /\ \A d \in Cycle : d > LastCycle(b) => b[d] = "none"
  BY LastIs
<1>. DEFINE x == LastCycle(a)
            y == LastCycle(b)
<1>. HIDE DEF x, y
<1>2. ~(x > y) /\ ~(y > x)
  BY <1>1, PlanningAssumption DEF x, y, Cycle
<1>3. x \in Nat /\ y \in Nat
  BY <1>1, PlanningAssumption DEF x, y, Cycle
<1>4. x = y
  BY <1>2, <1>3
<1>. QED BY <1>4 DEF x, y

LEMMA LastSection ==
    ASSUME NEW doc \in [Cycle -> Section], Has(doc)
    PROVE  /\ LastCycle(doc) \in Cycle /\ doc[LastCycle(doc)] # "none"
           /\ Approved(doc) \in [Cycle -> Section]
           /\ Approved(doc)[LastCycle(doc)] = "approved"
           /\ \A c \in Cycle \ {LastCycle(doc)} : Approved(doc)[c] = doc[c]
           /\ LastCycle(Approved(doc)) = LastCycle(doc)
           /\ (\A c \in Cycle : c > 0 => doc[c] = "none") => LastCycle(doc) = 0
<1>. DEFINE x == LastCycle(doc)
<1>1. x \in Cycle /\ (x > 0 => doc[x] # "none") /\ (x = 0 \/ x > 0)
  BY LastIs, PlanningAssumption DEF Cycle
<1>2. doc[x] # "none"
  BY <1>1 DEF Has
<1>3. Approved(doc) = [doc EXCEPT ![x] = "approved"]
  BY DEF Approved
<1>. HIDE DEF x
<1>4. /\ Approved(doc) \in [Cycle -> Section] /\ Approved(doc)[x] = "approved"
      /\ \A c \in Cycle \ {x} : Approved(doc)[c] = doc[c]
  BY <1>1, <1>3 DEF Section
<1>5. LastCycle(Approved(doc)) = x
  BY <1>1, <1>2, <1>4, SameLast DEF x
<1>6. (\A c \in Cycle : c > 0 => doc[c] = "none") => x = 0
  BY <1>1
<1>. QED BY <1>1, <1>2, <1>4, <1>5, <1>6 DEF x

Facts == GateOrder /\ ArtifactsBehindState /\ Backed

\* A state that stands for no more than the one before it, with the same artifacts
LEMMA SameFacts ==
    ASSUME Facts, disk'.state = disk.state, prd' = prd, rfc' = rfc, dag' = dag,
           files \subseteq files',
           disk.state \in {"prd_dialog", "prd_drafting", "mvp_scope_locking"} \/ locked' = locked
    PROVE  Facts'
<1>1. GateOrder'
  BY DEF Facts, GateOrder
<1>2. ArtifactsBehindState'
  BY DEF Facts, ArtifactsBehindState, FromG1, FromG2, Planned, Extending, Has
<1>3. Signed' = Signed /\ LastCycle(prd)' = LastCycle(prd) /\ LastCycle(rfc)' = LastCycle(rfc)
  BY DEF Signed
<1>4. Backed'
  BY <1>3 DEF Facts, Backed, Waiting, Extended, Has
<1>. QED BY <1>1, <1>2, <1>4 DEF Facts

\* What a save of a command puts on disk
LEMMA SaveFacts ==
    ASSUME Facts, NEW s, NEW t, Grounded(t), SavesMove(s, disk'.state, t),
           \/ s = disk.state
           \/ disk.state = "done" /\ s = "extend_dialog" /\ disk'.state = "extend_prd_dialog",
           UNCHANGED <<files, locked, prd, rfc, dag>>
    PROVE  Facts'
<1>. DEFINE n == disk'.state
<1>1. GateOrder'
  BY DEF Facts, GateOrder
<1>2. Signed' = Signed /\ LastCycle(prd)' = LastCycle(prd) /\ LastCycle(rfc)' = LastCycle(rfc)
  BY DEF Signed
<1>. SUFFICES ArtifactsBehindState' /\ Backed'
  BY <1>1 DEF Facts
<1>. USE DEF Facts, ArtifactsBehindState, Backed, FromG1, FromG2, Planned, Extending, Has, Extended,
             BeforeG1, FirstPass, Waiting
<1>3. CASE s \in {"intake", "babel_processing", "intake_dialog", "stack_dialog"}
  BY <1>2, <1>3 DEF SavesMove
<1>4. CASE s \in {"prd_dialog", "prd_drafting", "mvp_scope_locking"}
  BY <1>2, <1>4 DEF SavesMove, Grounded
<1>5. CASE s \in {"prd_approved", "rfc_drafting"}
  BY <1>2, <1>5 DEF SavesMove, Grounded
<1>6. CASE s = "rfc_approved"
  <2>1. s = disk.state /\ n = "tasks_generating"
    BY <1>6 DEF SavesMove
  <2>2. Signed = {0}
    BY <1>6, <2>1, ZeroCycle DEF Signed, Cycle
  <2>. QED BY <1>2, <1>6, <2>1, <2>2
<1>7. CASE s = "extend_rfc_approved"
  BY <1>2, <1>7 DEF SavesMove
<1>8. CASE s = "tasks_generating"
  BY <1>2, <1>8 DEF SavesMove, Grounded
<1>9. CASE s = "extend_dialog"
  BY <1>2, <1>9 DEF SavesMove
<1>10. CASE s \in {"extend_prd_dialog", "extend_prd_approved", "extend_rfc_drafting"}
  BY <1>2, <1>10 DEF SavesMove
<1>. QED BY <1>3, <1>4, <1>5, <1>6, <1>7, <1>8, <1>9, <1>10 DEF SavesMove

\* What Written does to a document
LEMMA WrittenIs ==
    ASSUME NEW doc \in [Cycle -> Section], NEW c \in Cycle
    PROVE  /\ c = 0 => /\ Written(doc, c)[0] = "draft"
                       /\ \A d \in Cycle \ {0} : Written(doc, c)[d] = "none"
           /\ c # 0 => /\ \A d \in Cycle \ {c} : Written(doc, c)[d] = doc[d]
                       /\ Written(doc, c)[c] = IF doc[c] = "none" THEN "draft" ELSE doc[c]
BY ZeroCycle DEF Written

LEMMA PrdFacts ==
    ASSUME TypeOK, Facts, NEW c \in Cycle, prd' = Written(prd, c),
           UNCHANGED <<disk, files, locked, rfc, dag>>,
           \/ disk.state \in {"prd_dialog", "prd_drafting"} /\ c = 0
           \/ disk.state = "extend_prd_dialog" /\ c # 0
    PROVE  Facts' /\ (c = 0 => Has(prd)')
<1>1. prd \in [Cycle -> Section] /\ Signed' = Signed
  BY DEF TypeOK, Signed
<1>. USE DEF Facts, GateOrder, ArtifactsBehindState, Backed, FromG1, FromG2, Planned, Extending, Has,
             Extended, BeforeG1, FirstPass, Waiting
<1>2. CASE disk.state \in {"prd_dialog", "prd_drafting"} /\ c = 0
  <2>1. prd'[0] = "draft" /\ \A d \in Cycle \ {0} : prd'[d] = "none"
    BY <1>1, <1>2, WrittenIs
  <2>2. GateOrder'
    BY <1>2, <2>1
  <2>3. ArtifactsBehindState' /\ Has(prd)'
    BY <1>2, <2>1
  <2>4. Backed'
    BY <1>1, <1>2, <2>1, PlanningAssumption DEF Cycle
  <2>. QED BY <2>2, <2>3, <2>4
<1>3. CASE disk.state = "extend_prd_dialog" /\ c # 0
  <2>1. /\ \A d \in Cycle \ {c} : prd'[d] = prd[d]
        /\ prd'[c] = IF prd[c] = "none" THEN "draft" ELSE prd[c]
    BY <1>1, <1>3, WrittenIs
  <2>2. GateOrder'
    BY <1>3, <2>1
  <2>3. ArtifactsBehindState'
    BY <1>3, <2>1, ZeroCycle
  <2>4. Backed'
    BY <1>1, <1>3
  <2>. QED BY <1>3, <2>2, <2>3, <2>4
<1>. QED BY <1>2, <1>3

LEMMA RfcFacts ==
    ASSUME TypeOK, Facts, NEW c \in Cycle, rfc' = Written(rfc, c), prd[c] = "approved",
           UNCHANGED <<disk, files, locked, prd, dag>>,
           \/ disk.state = "rfc_drafting" /\ c = 0
           \/ disk.state = "extend_rfc_drafting" /\ c # 0
    PROVE  Facts' /\ (c = 0 => Has(rfc)')
<1>1. rfc \in [Cycle -> Section]
  BY DEF TypeOK
<1>. USE DEF Facts, GateOrder, ArtifactsBehindState, Backed, FromG1, FromG2, Planned, Extending, Has,
             Extended, BeforeG1, FirstPass, Waiting
<1>2. CASE disk.state = "rfc_drafting" /\ c = 0
  <2>1. rfc'[0] = "draft" /\ \A d \in Cycle \ {0} : rfc'[d] = "none"
    BY <1>1, <1>2, WrittenIs
  <2>2. GateOrder'
    BY <1>2, <2>1
  <2>3. ArtifactsBehindState' /\ Has(rfc)'
    BY <1>2, <2>1
  <2>4. Backed'
    BY <1>2, <2>1, PlanningAssumption DEF Cycle
  <2>. QED BY <2>2, <2>3, <2>4
<1>3. CASE disk.state = "extend_rfc_drafting" /\ c # 0
  <2>1. /\ \A d \in Cycle \ {c} : rfc'[d] = rfc[d]
        /\ rfc'[c] = IF rfc[c] = "none" THEN "draft" ELSE rfc[c]
    BY <1>1, <1>3, WrittenIs
  <2>2. GateOrder'
    BY <1>3, <2>1
  <2>3. ArtifactsBehindState'
    BY <1>3, <2>1, ZeroCycle
  <2>4. \A d \in Cycle : rfc'[d] = "approved" <=> rfc[d] = "approved"
    BY <2>1
  <2>5. Signed' = Signed
    BY <2>4 DEF Signed
  <2>6. Backed'
    BY <1>3, <2>5
  <2>. QED BY <1>3, <2>2, <2>3, <2>6
<1>. QED BY <1>2, <1>3

LEMMA DagFacts ==
    ASSUME TypeOK, Facts, dag' = Signed, disk.state = "tasks_generating",
           UNCHANGED <<disk, files, locked, prd, rfc>>
    PROVE  Facts' /\ dag' # {} /\ Signed' = Signed
<1>1. Signed' = Signed
  BY DEF Signed
<1>. USE DEF Facts, GateOrder, ArtifactsBehindState, Backed, FromG1, FromG2, Planned, Extending, Has,
             Extended, BeforeG1, FirstPass, Waiting
<1>2. Signed # {}
  <2>1. CASE dag = {}
    BY <2>1
  <2>2. CASE dag # {}
    <3>1. PICK c \in dag : TRUE
      BY <2>2
    <3>. QED BY <3>1 DEF Signed, TypeOK
  <2>. QED BY <2>1, <2>2
<1>3. GateOrder'
  BY DEF Signed
<1>4. ArtifactsBehindState'
  OBVIOUS
<1>5. Backed'
  BY <1>1, <1>2
<1>. QED BY <1>1, <1>2, <1>3, <1>4, <1>5

(***************************************************************************)
(* What the rest of a script rests on                                      *)
(***************************************************************************)
LEMMA GroundedAre ==
    ASSUME \A p \in Process : \A t : Running(p)' /\ t = cmd'[p].todo => Grounded(t)'
    PROVE  (\A p \in Process : Running(p) => Grounded(cmd[p].todo))'
BY DEF Grounded

LEMMA SameJustified ==
    ASSUME prd' = prd, rfc' = rfc
    PROVE  Justified' = Justified
<1>1. Signed' = Signed
  BY DEF Signed
<1>. QED BY <1>1 DEF Justified

\* A rest that neither seeds the scope nor is the last save rests on nothing else.
LEMMA OpeningGrounded ==
    ASSUME NEW s, NEW t, Opening(s, t), SeedLeft(t) => Has(prd)', t \in Seq(Justified')
    PROVE  Grounded(t)'
BY DEF Opening, Grounded

LEMMA HarmlessSeq ==
    ASSUME NEW t \in Seq(Harmless)
    PROVE  t \in Seq(Justified')
<1>1. Harmless \subseteq Justified'
  BY DEF Harmless, Justified
<1>. QED BY <1>1

\* The last save
LEMMA LastGrounded ==
    ASSUME NEW n \in ProjectState, NEW t, t = <<Save(n)>>,
           n = "mvp_scope_locking" => Has(prd)' /\ "scope.json" \in files',
           n = "prd_awaiting_approval" => locked',
           n = "rfc_awaiting_approval" => Has(rfc)',
           n = "tasks_ready" => dag' = Signed' /\ dag' # {}
    PROVE  Grounded(t)'
<1>1. t \in Seq(Justified')
  BY HarmlessAre, SeqTuples, HarmlessSeq
<1>2. ~SeedLeft(t)
  BY Begins, Ops DEF SeedLeft, First
<1>3. \A m : t = <<Save(m)>> => m = n
  <2>1. ASSUME NEW m, t = <<Save(m)>> PROVE m = n
    <3>1. Head(<<Save(m)>>) = Save(m) /\ Head(<<Save(n)>>) = Save(n)
      OBVIOUS
    <3>2. Save(m).to = Save(n).to
      BY <2>1, <3>1
    <3>. QED BY <3>2, Ops
  <2>. QED BY <2>1
<1>. QED BY <1>1, <1>2, <1>3 DEF Grounded

LEMMA Rejoin ==
    ASSUME NEW S, NEW t \in Seq(Effect), t # <<>>, Head(t) \in S, Tail(t) \in Seq(S)
    PROVE  t \in Seq(S)
<1>1. \A i \in DOMAIN t : t[i] \in S
  <2>1. ASSUME NEW i \in DOMAIN t, i # 1 PROVE t[i] \in S
    <3>1. i - 1 \in DOMAIN Tail(t) /\ Tail(t)[i - 1] = t[i]
      BY <2>1
    <3>. QED BY <3>1
  <2>2. t[1] \in S
    BY Tails
  <2>. QED BY <2>1, <2>2
<1>. QED BY <1>1, Narrower

LEMMA PlainHarmless ==
    ASSUME NEW t \in Seq(Effect), Plain(t)
    PROVE  t \in Seq(Harmless) /\ \A s : Opening(s, t) /\ ~SeedLeft(t)
<1>1. \A i \in DOMAIN t : t[i] \in Harmless
  BY DEF Plain, Harmless
<1>2. t \in Seq(Harmless)
  BY <1>1, Narrower
<1>3. t = <<>> \/ Head(t).op \in {"write", "turn"}
  BY NotPlain
<1>4. ~SeedLeft(t)
  BY <1>3, Begins DEF SeedLeft, First
<1>5. ASSUME NEW n PROVE t # <<Save(n)>>
  <2>1. <<Save(n)>> # <<>> /\ Head(<<Save(n)>>).op = "save"
    BY Ops
  <2>. QED BY <1>3, <2>1
<1>. QED BY <1>2, <1>4, <1>5 DEF Opening

\* After a save the rest of the script begins anew.
LEMMA SavedOpening ==
    ASSUME NEW s, NEW n, NEW t \in Seq(Effect), t # <<>>, SavesMove(s, n, t)
    PROVE  Opening(n, Tail(t)) /\ ~SeedLeft(Tail(t))
<1>. DEFINE u == Tail(t)
<1>0. u \in Seq(Effect)
  BY Tails
<1>1. \A m : t = <<Save(m)>> => u = <<>>
  BY Tuples
<1>. HIDE DEF u
<1>. SUFFICES Opening(n, u) /\ ~SeedLeft(u)
  BY DEF u
<1>2. ASSUME u = <<>> \/ Head(u).op \notin {"save", "seed"} \/ Head(u) \in {Save("rfc_drafting"), Save("failed")}
      PROVE  Opening(n, u) /\ ~SeedLeft(u)
  BY <1>2, Begins, Ops DEF Opening, SeedLeft, First
<1>3. Plain(u) => u = <<>> \/ Head(u).op \in {"write", "turn"}
  BY <1>0, NotPlain
<1>4. DraftLeft(u) => Head(u).op \in {"rfc", "write"} \/ Head(u) = Save("rfc_drafting")
  BY Begins DEF DraftLeft, First
<1>5. DagLeft(u) => u = <<Save("failed")>> \/ Head(u).op = "dag"
  BY Begins
<1>6. Head(<<Save("failed")>>) = Save("failed")
  OBVIOUS
<1>7. \/ u = <<>> \/ Plain(u) \/ BabelLeft(u) \/ PrdLeft(u) \/ DraftLeft(u) \/ InputsLeft(u)
      \/ DagLeft(u) \/ ExtendPrdLeft(u) \/ ExtendRfcLeft(u)
  BY <1>1 DEF SavesMove, u
<1>8. BabelLeft(u) \/ PrdLeft(u) \/ InputsLeft(u) => Head(u).op \in {"write", "prd", "rfc"}
  BY Begins
<1>9. ExtendPrdLeft(u) \/ ExtendRfcLeft(u) => u = <<>> \/ Head(u).op \in {"prd", "rfc"}
  BY Begins
<1>. QED BY <1>2, <1>3, <1>4, <1>5, <1>6, <1>7, <1>8, <1>9

LEMMA EffectFacts ==
    ASSUME PlanningInv, NEW p \in Process, Effects(p)
    PROVE  Facts' /\ (\A q \in Process : Running(q) => Grounded(cmd[q].todo))'
<1>. DEFINE t == cmd[p].todo
            e == Head(t)
            s == cmd[p].proj.state
<1>1. /\ t # <<>> /\ cmd'[p].todo = Tail(t)
      /\ \A q \in Process \ {p} : cmd'[q] = cmd[q]
  BY EffectIs DEF PlanningInv, CommandInv
<1>2. /\ TypeOK /\ Facts /\ Running(p) /\ Loaded(cmd[p].proj, t) /\ InOrder(s, t) /\ Grounded(t)
      /\ t \in Seq(Effect) /\ disk \in Project /\ cmd[p].proj \in Project
      /\ e.op = "save" => SavesMove(s, disk'.state, t)
      /\ e.op # "save" => cmd[p].proj = disk
  BY EffectOrder, CmdTypes DEF PlanningInv, CommandInv, Pending, Facts, TypeOK
<1>3. e \in Effect /\ e \in Justified /\ Tail(t) \in Seq(Effect) /\ Tail(t) \in Seq(Justified)
  BY <1>1, <1>2, Tails DEF Grounded
<1>4. \A q \in Process : Running(q)' => q = p
  BY <1>1, <1>2 DEF PlanningInv, CommandInv, OneRunning, Running
<1>5. PICK u : u = Tail(t)
  OBVIOUS
<1>6. SUFFICES Facts' /\ Grounded(u)'
  BY <1>1, <1>4, <1>5, GroundedAre
<1>7. u \in Seq(Effect) /\ u \in Seq(Justified)
  BY <1>3, <1>5
<1>8. e.op # "save" => s = disk.state
  BY <1>2
<1>. HIDE DEF t, e, s
<1>9. CASE DoSave(p)
  <2>1. e.op = "save" /\ UNCHANGED <<files, locked, prd, rfc, dag>> /\ disk'.state = e.to
    BY <1>2, <1>9 DEF DoSave, NextIs, Project, e, t
  <2>2. \/ s = disk.state
        \/ disk.state = "done" /\ s = "extend_dialog" /\ disk'.state = "extend_prd_dialog"
    <3>1. CASE cmd[p].proj = disk
      BY <3>1 DEF s
    <3>2. CASE /\ cmd[p].proj = [disk EXCEPT !.state = "extend_dialog"] /\ disk.state = "done"
               /\ First(t, Save("extend_prd_dialog"))
      <4>1. s = "extend_dialog"
        BY <1>2, <3>2 DEF Project, s
      <4>2. disk'.state = "extend_prd_dialog"
        BY <2>1, <3>2, Ops DEF First, e
      <4>. QED BY <3>2, <4>1, <4>2
    <3>. QED BY <1>2, <3>1, <3>2 DEF Loaded
  <2>3. Facts'
    BY <1>2, <2>1, <2>2, SaveFacts
  <2>4. PICK n : n = disk'.state
    OBVIOUS
  <2>5. Opening(n, u) /\ ~SeedLeft(u)
    BY <1>1, <1>2, <1>5, <2>1, <2>4, SavedOpening DEF t
  <2>6. u \in Seq(Justified')
    BY <1>7, <2>1, SameJustified
  <2>. QED BY <2>3, <2>5, <2>6, OpeningGrounded
<1>10. CASE DoEnter(p)
  <2>1. e.op = "enter" /\ UNCHANGED <<disk, files, locked, prd, rfc, dag>>
    BY <1>10 DEF DoEnter, NextIs, OnlyCommand, e, t
  <2>2. ExtendLeft(u)
    BY <1>1, <1>2, <1>5, <2>1, EnterCases DEF e, t, s
  <2>3. Opening("extend_dialog", u) /\ ~SeedLeft(u)
    BY <2>2, Begins, Ops DEF ExtendLeft, Opening, SeedLeft, First
  <2>4. u \in Seq(Justified')
    BY <1>7, <2>1, SameJustified
  <2>. QED BY <1>2, <2>1, <2>3, <2>4, OpeningGrounded, SameFacts
<1>11. CASE DoWrite(p) \/ DoTurn(p)
  <2>1. /\ e.op \in {"write", "turn"} /\ UNCHANGED <<disk, locked, prd, rfc, dag>>
        /\ files \subseteq files'
    BY <1>11 DEF DoWrite, DoTurn, NextIs, e, t
  <2>2. Plain(u) \/ BabelEnd(u) \/ RfcLeft(u)
    BY <1>1, <1>2, <1>5, <2>1, WriteCases DEF e, t, s
  <2>3. Opening("intake", u) /\ ~SeedLeft(u)
    <3>1. CASE Plain(u)
      BY <1>7, <3>1, PlainHarmless
    <3>2. CASE BabelEnd(u) \/ RfcLeft(u)
      BY <3>2, Begins, Ops DEF BabelEnd, Opening, SeedLeft, First
    <3>. QED BY <2>2, <3>1, <3>2
  <2>4. u \in Seq(Justified')
    BY <1>7, <2>1, SameJustified
  <2>. QED BY <1>2, <2>1, <2>3, <2>4, OpeningGrounded, SameFacts
<1>12. CASE DoPrd(p)
  <2>1. e.op = "prd" /\ prd' = Written(prd, e.cycle) /\ UNCHANGED <<disk, files, locked, rfc, dag>>
    BY <1>12 DEF DoPrd, NextIs, e, t
  <2>2. \/ s = "prd_dialog" /\ e.cycle = 0 /\ Plain(u)
        \/ s = "prd_drafting" /\ e.cycle = 0 /\ SeedLeft(u)
        \/ s = "extend_prd_dialog" /\ e.cycle # 0 /\ u = <<Save("extend_prd_awaiting_approval")>>
    BY <1>1, <1>2, <1>5, <2>1, PrdCases DEF e, t, s
  <2>3. e.cycle \in Cycle
    BY <1>3, <2>1, EffectFields
  <2>4. Facts' /\ (e.cycle = 0 => Has(prd)')
    BY <1>2, <1>8, <2>1, <2>2, <2>3, PrdFacts
  <2>5. CASE Plain(u)
    BY <1>7, <2>4, <2>5, PlainHarmless, HarmlessSeq, OpeningGrounded
  <2>6. CASE e.cycle = 0 /\ SeedLeft(u)
    <3>1. u # <<>> /\ Head(u) = SeedScope /\ Tail(u) = <<Save("mvp_scope_locking")>>
      BY <2>6 DEF SeedLeft, First
    <3>2. u \in Seq(Harmless)
      BY <1>7, <3>1, Rejoin, HarmlessAre, States, SeqTuples
    <3>3. Opening("prd_dialog", u)
      BY <3>1, Begins, Ops DEF Opening
    <3>. QED BY <2>4, <2>6, <3>2, <3>3, HarmlessSeq, OpeningGrounded
  <2>7. CASE u = <<Save("extend_prd_awaiting_approval")>>
    BY <2>4, <2>7, LastGrounded, States
  <2>. QED BY <2>2, <2>5, <2>6, <2>7
<1>13. CASE DoRfc(p)
  <2>1. e.op = "rfc" /\ rfc' = Written(rfc, e.cycle) /\ UNCHANGED <<disk, files, locked, prd, dag>>
    BY <1>13 DEF DoRfc, NextIs, e, t
  <2>2. \/ s = "rfc_drafting" /\ e.cycle = 0 /\ u = <<Save("rfc_awaiting_approval")>>
        \/ s = "extend_rfc_drafting" /\ e.cycle # 0 /\ u = <<Save("extend_rfc_awaiting_approval")>>
    BY <1>1, <1>2, <1>5, <2>1, RfcCases DEF e, t, s
  <2>3. e.cycle \in Cycle /\ prd[e.cycle] = "approved"
    BY <1>3, <2>1, EffectFields DEF Justified
  <2>4. Facts' /\ (e.cycle = 0 => Has(rfc)')
    BY <1>2, <1>8, <2>1, <2>2, <2>3, RfcFacts
  <2>. QED BY <2>2, <2>4, LastGrounded, States
<1>14. CASE DoDag(p)
  <2>1. e.op = "dag" /\ dag' = e.cycles /\ UNCHANGED <<disk, files, locked, prd, rfc>>
    BY <1>14 DEF DoDag, NextIs, e, t
  <2>2. s = "tasks_generating" /\ u = <<Save("tasks_ready")>>
    BY <1>1, <1>2, <1>5, <2>1, DagCases DEF e, t, s
  <2>3. dag' = Signed
    BY <1>3, <2>1 DEF Justified
  <2>4. Facts' /\ dag' # {} /\ Signed' = Signed
    BY <1>2, <1>8, <2>1, <2>2, <2>3, DagFacts
  <2>. QED BY <2>2, <2>3, <2>4, LastGrounded, States
<1>15. CASE DoSeed(p)
  <2>1. /\ e.op = "seed" /\ UNCHANGED <<disk, prd, rfc, dag>>
        /\ files' = files \union {"scope.json"}
    BY <1>15 DEF DoSeed, NextIs, e, t
  <2>2. s \in {"prd_dialog", "prd_drafting"} /\ SeedLeft(t) /\ u = <<Save("mvp_scope_locking")>>
    BY <1>1, <1>2, <1>5, <2>1, SeedCases DEF e, t, s
  <2>3. Has(prd)'
    BY <1>2, <2>1, <2>2 DEF Grounded, Has
  <2>4. Facts'
    BY <1>2, <1>8, <2>1, <2>2, SameFacts
  <2>. QED BY <2>1, <2>2, <2>3, <2>4, LastGrounded, States
<1>16. CASE DoScope(p)
  <2>1. /\ e.op = "scope" /\ locked' = e.lock /\ UNCHANGED <<disk, prd, rfc, dag>>
        /\ files' = files \union {"scope.json"}
    BY <1>16 DEF DoScope, NextIs, e, t
  <2>2. s = "mvp_scope_locking" /\ (EditLeft(u) \/ (e = WriteScope(TRUE) /\ u = <<Save("prd_awaiting_approval")>>))
    BY <1>1, <1>2, <1>5, <2>1, ScopeCases DEF e, t, s
  <2>3. Facts'
    BY <1>2, <1>8, <2>1, <2>2, SameFacts
  <2>4. CASE EditLeft(u)
    <3>1. u = <<>> \/ Head(u).op = "scope"
      BY <2>4, Begins DEF ScopeLeft
    <3>2. Opening("intake", u) /\ ~SeedLeft(u)
      BY <3>1, Begins, Ops DEF Opening, SeedLeft, First
    <3>3. u \in Seq(Justified')
      BY <1>7, <2>1, SameJustified
    <3>. QED BY <2>3, <3>2, <3>3, OpeningGrounded
  <2>5. CASE e = WriteScope(TRUE) /\ u = <<Save("prd_awaiting_approval")>>
    <3>1. locked'
      BY <2>1, <2>5 DEF WriteScope
    <3>. QED BY <2>3, <2>5, <3>1, LastGrounded, States
  <2>. QED BY <2>2, <2>4, <2>5
<1>. QED BY <1>9, <1>10, <1>11, <1>12, <1>13, <1>14, <1>15, <1>16 DEF Effects

LEMMA StageFacts ==
    ASSUME PlanningInv, NEW p \in Process, Stages(p)
    PROVE  Facts' /\ (\A q \in Process : Running(q) => Grounded(cmd[q].todo))'
<1>. DEFINE s == cmd[p].proj.state
<1>0. CommandInv /\ TypeOK /\ Facts /\ dag \in SUBSET Cycle
  BY DEF PlanningInv, CommandInv, Facts, TypeOK
<1>1. Running(p) /\ cmd[p].todo = <<>>
  BY <1>0 DEF Stages, PassStage, StopAtStage, RunBabel, RunAnalyst, RunArchitect, RunOrchestrator,
              RunExtendRfc, RunExtendDag, EnterStage, AtStage, Running, NextStage
<1>2. s = disk.state
  BY <1>0, <1>1 DEF CommandInv, Pending, Loaded, First
<1>3. 0 \in Cycle /\ LastCycle(prd) \in Cycle /\ LastCycle(rfc) \in Cycle
  BY ZeroCycle, LastIs
<1>4. EnterStage(p, "architect") => WriteRfc(0) \in Justified
  <2>1. EnterStage(p, "architect") => prd[0] = "approved"
    BY <1>0, <1>2, DueStates DEF EnterStage, Facts, Backed, FirstPass
  <2>2. WriteRfc(0) \in Effect
    BY <1>3, EffectTypes
  <2>. QED BY <2>1, <2>2, Ops DEF Justified
<1>5. EnterStage(p, "orchestrator") => WriteDag({0}) \in Justified
  <2>1. EnterStage(p, "orchestrator") => s = "rfc_approved" \/ (s = "tasks_generating" /\ dag = {})
    BY DueStates DEF EnterStage
  <2>2. s = "rfc_approved" => rfc[0] = "approved" /\ \A c \in Cycle : c > 0 => rfc[c] = "none"
    BY <1>0, <1>2 DEF Facts, Backed, FirstPass, Extended
  <2>3. s = "rfc_approved" => Signed = {0}
    BY <1>3, <2>2 DEF Signed, Cycle
  <2>4. s = "tasks_generating" /\ dag = {} => Signed = {0}
    BY <1>0, <1>2 DEF Facts, Backed
  <2>5. {0} \in SUBSET Cycle
    BY <1>3
  <2>6. WriteDag({0}) \in Effect
    BY <2>5, EffectTypes
  <2>. QED BY <2>1, <2>3, <2>4, <2>6, Ops DEF Justified
<1>6. EnterStage(p, "extend_rfc") => WriteRfc(LastCycle(prd)) \in Justified
  <2>1. EnterStage(p, "extend_rfc") => prd[LastCycle(prd)] = "approved"
    BY <1>0, <1>2, DueStates DEF EnterStage, Facts, Backed
  <2>2. WriteRfc(LastCycle(prd)) \in Effect
    BY <1>3, EffectTypes
  <2>. QED BY <2>1, <2>2, Ops DEF Justified
<1>7. EnterStage(p, "extend_dag") => WriteDag(dag \union {LastCycle(rfc)}) \in Justified
  <2>1. EnterStage(p, "extend_dag") => Signed = dag \union {LastCycle(rfc)}
    BY <1>0, <1>2, DueStates DEF EnterStage, Facts, Backed
  <2>2. dag \union {LastCycle(rfc)} \in SUBSET Cycle
    BY <1>0, <1>3
  <2>3. WriteDag(dag \union {LastCycle(rfc)}) \in Effect
    BY <2>2, EffectTypes
  <2>. QED BY <2>1, <2>3, Ops DEF Justified
<1>8. Harmless \subseteq Justified /\ Justified \subseteq Effect
  BY DEF Harmless, Justified
<1>9. /\ OnlyCommand
      /\ \E script \in Seq(Justified), next \in Stage \ {"off"} :
            Do(p, script, next) /\ Opening(s, script) /\ ~SeedLeft(script)
  BY <1>0, <1>4, <1>5, <1>6, <1>7, <1>8, StageScripts
<1>10. PICK u \in Seq(Justified), next \in Stage \ {"off"} :
            Do(p, u, next) /\ Opening(s, u) /\ ~SeedLeft(u)
  BY <1>9
<1>11. cmd'[p].todo = u /\ \A q \in Process \ {p} : cmd'[q] = cmd[q]
  BY <1>0, <1>10 DEF TypeOK, Cmd, Do
<1>12. \A q \in Process : Running(q)' => q = p
  BY <1>0, <1>1, <1>11 DEF CommandInv, OneRunning, Running
<1>13. u \in Seq(Justified')
  BY <1>9, <1>10, SameJustified DEF OnlyCommand
<1>14. PICK n : n = s
  OBVIOUS
<1>15. Grounded(u)'
  BY <1>10, <1>13, <1>14, OpeningGrounded
<1>16. Facts'
  BY <1>0, <1>9, SameFacts DEF OnlyCommand
<1>. QED BY <1>11, <1>12, <1>15, <1>16, GroundedAre

LEMMA StartFacts ==
    ASSUME Overlap = FALSE, PlanningInv, NEW p \in Process, Starts(p)
    PROVE  Facts' /\ (\A q \in Process : Running(q) => Grounded(cmd[q].todo))'
<1>0. CommandInv /\ TypeOK /\ Facts
  BY DEF PlanningInv, CommandInv, Facts
<1>1. PICK stage \in {"babel", "end"}, u \in Seq(Harmless) :
          Start(p, stage, u) /\ Opening(disk.state, u) /\ (SeedLeft(u) => Has(prd))
  BY <1>0, StartScripts
<1>2. /\ cmd'[p].todo = u
      /\ \A q \in Process \ {p} : cmd'[q] = cmd[q] /\ ~Running(q)
      /\ OnlyCommand
  BY <1>0, <1>1 DEF TypeOK, Start, MayStart
<1>3. \A q \in Process : Running(q)' => q = p
  BY <1>2 DEF Running
<1>4. PICK n : n = disk.state
  OBVIOUS
<1>5. SeedLeft(u) => Has(prd)'
  BY <1>1, <1>2 DEF OnlyCommand, Has
<1>6. Grounded(u)'
  BY <1>1, <1>4, <1>5, HarmlessSeq, OpeningGrounded
<1>7. Facts'
  BY <1>0, <1>2, SameFacts DEF OnlyCommand
<1>. QED BY <1>2, <1>3, <1>6, <1>7, GroundedAre

\* `ortim advance` without a move that vouches for an artifact
LEMMA AdvanceFacts ==
    ASSUME Moves \intersect Skips = {}, TypeOK, Facts, NEW m \in Moves, Advance(m)
    PROVE  Facts'
<1>. DEFINE s == m[1]
            n == m[2]
<1>1. /\ m = <<s, n>> /\ s \in ProjectState /\ n \in ProjectState /\ m \notin Skips
      /\ Allowed(s, n)
  BY PlanningAssumption DEF Advance
<1>2. disk.state = s /\ disk'.state = n /\ UNCHANGED <<files, locked, dag>>
  BY <1>1 DEF Advance, TypeOK, Project
<1>3. /\ prd' = prd \/ (n \in {"prd_approved", "extend_prd_approved"} /\ prd' = Approved(prd))
      /\ rfc' = rfc \/ (n \in {"rfc_approved", "extend_rfc_approved"} /\ rfc' = Approved(rfc))
  BY DEF Advance
<1>4. /\ n \in {"prd_approved", "extend_prd_approved"} /\ m \in Approvals => prd' = Approved(prd)
      /\ n \in {"rfc_approved", "extend_rfc_approved"} /\ m \in Approvals => rfc' = Approved(rfc)
  BY DEF Advance
<1>5. /\ n \in BeforeG1 => s \in BeforeG1 /\ n # "prd_awaiting_approval"
      /\ n = "mvp_scope_locking" => s = "prd_awaiting_approval"
      /\ n = "prd_approved" => s = "prd_awaiting_approval"
      /\ n = "rfc_drafting" => s \in {"prd_approved", "rfc_awaiting_approval"}
      /\ n # "rfc_awaiting_approval"
      /\ n = "rfc_approved" => s = "rfc_awaiting_approval"
      /\ n = "tasks_generating" => s \in {"rfc_approved", "extend_rfc_approved"}
      /\ n \in Planned \union Waiting => s \in Planned \union Waiting
      /\ n = "extend_prd_approved" => s = "extend_prd_awaiting_approval"
      /\ n = "extend_rfc_approved" => s = "extend_rfc_awaiting_approval"
      /\ n \in Extending => s \in {"done"} \union (Extending \ {"extend_rfc_approved"})
  BY <1>1, Predecessors
<1>6. prd \in [Cycle -> Section] /\ rfc \in [Cycle -> Section]
  BY DEF TypeOK
<1>7. s \in BeforeG1 => dag = {}
  BY <1>2 DEF Facts, Backed, GateOrder, TypeOK
<1>. HIDE DEF s, n
<1>. USE DEF Facts
<1>8. CASE n = "prd_approved"
  <2>1. s = "prd_awaiting_approval" /\ prd' = Approved(prd) /\ rfc' = rfc
    BY <1>1, <1>3, <1>4, <1>5, <1>8 DEF Approvals
  <2>2. Has(prd) /\ \A c \in Cycle : c > 0 => prd[c] = "none"
    BY <1>2, <2>1 DEF ArtifactsBehindState, FromG1, Backed, BeforeG1, Extended
  <2>3. LastCycle(prd) = 0
    BY <1>6, <2>2, LastSection
  <2>4. /\ prd'[0] = "approved"
        /\ \A c \in Cycle \ {0} : prd'[c] = prd[c]
    BY <1>6, <2>1, <2>2, <2>3, LastSection
  <2>5. (\A c \in Cycle : rfc[c] = "none") /\ dag = {}
    BY <1>2, <1>7, <2>1 DEF Backed, BeforeG1
  <2>6. GateOrder'
    BY <1>2, <2>1, <2>5 DEF GateOrder
  <2>7. ArtifactsBehindState'
    BY <1>2, <1>8, <2>1, <2>4
       DEF ArtifactsBehindState, FromG1, FromG2, Planned, Extending, Has
  <2>8. Backed'
    <3>1. \A c \in Cycle : ~Extended(c)'
      BY <2>1, <2>2, <2>4, <2>5 DEF Extended
    <3>. QED BY <1>2, <1>8, <2>4, <2>5, <3>1
             DEF Backed, BeforeG1, FirstPass, Planned, Extending, Waiting, Extended
  <2>. QED BY <2>6, <2>7, <2>8
<1>9. CASE n = "rfc_approved"
  <2>1. s = "rfc_awaiting_approval" /\ rfc' = Approved(rfc) /\ prd' = prd
    BY <1>1, <1>3, <1>4, <1>5, <1>9 DEF Approvals
  <2>2. Has(rfc) /\ prd[0] = "approved" /\ dag = {} /\ \A c \in Cycle : c > 0 => rfc[c] = "none" /\ prd[c] = "none"
    BY <1>2, <2>1 DEF ArtifactsBehindState, FromG2, Backed, FirstPass, Extended
  <2>3. LastCycle(rfc) = 0
    BY <1>6, <2>2, LastSection
  <2>4. /\ rfc'[0] = "approved"
        /\ \A c \in Cycle \ {0} : rfc'[c] = rfc[c]
    BY <1>6, <2>1, <2>2, <2>3, LastSection
  <2>5. \A c \in Cycle : c # 0 => c > 0
    BY PlanningAssumption DEF Cycle
  <2>6. GateOrder'
    BY <1>2, <2>1, <2>2, <2>4, <2>5 DEF GateOrder
  <2>7. ArtifactsBehindState'
    BY <1>2, <1>9, <2>1, <2>4
       DEF ArtifactsBehindState, FromG1, FromG2, Planned, Extending, Has
  <2>8. Backed'
    <3>1. \A c \in Cycle : ~Extended(c)'
      BY <2>1, <2>2, <2>4 DEF Extended
    <3>. QED BY <1>2, <1>9, <2>1, <2>2, <2>4, <3>1
             DEF Backed, BeforeG1, FirstPass, Planned, Extending, Waiting, Extended
  <2>. QED BY <2>6, <2>7, <2>8
<1>10. CASE n = "extend_prd_approved"
  <2>1. s = "extend_prd_awaiting_approval" /\ prd' = Approved(prd) /\ rfc' = rfc
    BY <1>1, <1>3, <1>4, <1>5, <1>10 DEF Approvals
  <2>2. Has(prd) /\ Signed' = Signed /\ dag = Signed
    BY <1>2, <2>1 DEF ArtifactsBehindState, Extending, Backed, Signed
  <2>3. /\ prd'[LastCycle(prd)] = "approved" /\ LastCycle(prd)' = LastCycle(prd)
        /\ \A c \in Cycle \ {LastCycle(prd)} : prd'[c] = prd[c]
    BY <1>6, <2>1, <2>2, LastSection
  <2>4. GateOrder'
    BY <1>2, <2>1, <2>3 DEF GateOrder
  <2>5. ArtifactsBehindState'
    <3>1. Has(prd)'
      BY <2>2, <2>3, ZeroCycle DEF Has
    <3>. QED BY <1>2, <1>10, <2>1, <3>1
             DEF ArtifactsBehindState, FromG1, FromG2, Planned, Extending, Has
  <2>6. Backed'
    BY <1>2, <1>10, <2>2, <2>3
       DEF Backed, BeforeG1, FirstPass, Planned, Extending, Waiting
  <2>. QED BY <2>4, <2>5, <2>6
<1>11. CASE n = "extend_rfc_approved"
  <2>1. s = "extend_rfc_awaiting_approval" /\ rfc' = Approved(rfc) /\ prd' = prd
    BY <1>1, <1>3, <1>4, <1>5, <1>11 DEF Approvals
  <2>2. Has(rfc) /\ dag = Signed
    BY <1>2, <2>1 DEF ArtifactsBehindState, Extending, Backed
  <2>3. /\ rfc'[LastCycle(rfc)] = "approved" /\ LastCycle(rfc)' = LastCycle(rfc)
        /\ LastCycle(rfc) \in Cycle /\ rfc[LastCycle(rfc)] # "none"
        /\ \A c \in Cycle \ {LastCycle(rfc)} : rfc'[c] = rfc[c]
    BY <1>6, <2>1, <2>2, LastSection
  <2>4. GateOrder'
    BY <1>2, <2>1, <2>3 DEF GateOrder
  <2>5. ArtifactsBehindState'
    <3>1. Has(rfc)'
      BY <2>2, <2>3, ZeroCycle DEF Has
    <3>. QED BY <1>2, <1>11, <2>1, <3>1
             DEF ArtifactsBehindState, FromG1, FromG2, Planned, Extending, Has
  <2>6. Signed' = dag' \union {LastCycle(rfc)'}
    BY <1>2, <2>2, <2>3 DEF Signed
  <2>7. Backed'
    BY <1>2, <1>11, <2>6
       DEF Backed, BeforeG1, FirstPass, Planned, Extending, Waiting
  <2>. QED BY <2>4, <2>5, <2>7
<1>12. CASE n \notin {"prd_approved", "rfc_approved", "extend_prd_approved", "extend_rfc_approved"}
  <2>1. prd' = prd /\ rfc' = rfc
    BY <1>3, <1>12
  <2>2. Signed' = Signed /\ LastCycle(prd)' = LastCycle(prd) /\ LastCycle(rfc)' = LastCycle(rfc)
    BY <2>1 DEF Signed
  <2>3. GateOrder'
    BY <1>2, <2>1 DEF GateOrder
  <2>. SUFFICES (ArtifactsBehindState /\ Backed)'
    BY <2>3
  <2>. USE DEF ArtifactsBehindState, Backed, FromG1, FromG2, Planned, Extending, Has, Extended,
               BeforeG1, FirstPass, Waiting
  <2>4. CASE n \in BeforeG1
    BY <1>2, <1>5, <2>1, <2>2, <2>4
  <2>5. CASE n = "rfc_drafting"
    BY <1>2, <1>5, <2>1, <2>2, <2>5
  <2>6. CASE n = "tasks_generating"
    <3>1. CASE s = "rfc_approved"
      <4>1. Signed = {0}
        BY <1>2, <3>1, ZeroCycle DEF Signed, Cycle
      <4>. QED BY <1>2, <2>1, <2>2, <2>6, <3>1, <4>1
    <3>2. CASE s = "extend_rfc_approved"
      BY <1>2, <2>1, <2>2, <2>6, <3>2
    <3>. QED BY <1>5, <2>6, <3>1, <3>2
  <2>7. CASE n \in Planned \union Waiting
    BY <1>2, <1>5, <2>1, <2>2, <2>7
  <2>8. CASE n \in Extending
    BY <1>2, <1>5, <1>12, <2>1, <2>2, <2>8
  <2>9. CASE n \in {"paused", "failed"}
    BY <1>2, <2>9
  <2>. QED BY <1>1, <1>5, <1>12, <2>4, <2>5, <2>6, <2>7, <2>8, <2>9, States
<1>. QED BY <1>8, <1>9, <1>10, <1>11, <1>12

LEMMA OperatorFacts ==
    ASSUME Moves \intersect Skips = {}, TypeOK, Facts,
           (\E m \in Moves : Advance(m)) \/ Archive \/ Unarchive \/ ExecuteTasks
    PROVE  Facts'
<1>0. disk \in Project
  BY DEF TypeOK
<1>1. CASE \E m \in Moves : Advance(m)
  BY <1>1, AdvanceFacts
<1>2. CASE Archive \/ Unarchive
  <2>1. /\ UNCHANGED <<files, locked, prd, rfc, dag>>
        /\ \E b \in BOOLEAN : disk' = [disk EXCEPT !.archived = b]
    BY <1>2 DEF Archive, Unarchive
  <2>2. disk'.state = disk.state
    BY <1>0, <2>1 DEF Project
  <2>. QED BY <2>1, <2>2, SameFacts
<1>3. CASE ExecuteTasks
  <2>1. UNCHANGED <<files, locked, prd, rfc, dag>>
    BY <1>3 DEF ExecuteTasks
  <2>2. \/ disk.state = "tasks_ready" /\ disk'.state = "executing"
        \/ disk.state = "executing" /\ disk'.state = "done"
    BY <1>0, <1>3 DEF ExecuteTasks, Project
  <2>3. Signed' = Signed
    BY <2>1 DEF Signed
  <2>4. GateOrder'
    BY <2>1 DEF Facts, GateOrder
  <2>5. ArtifactsBehindState' /\ Backed'
    BY <2>1, <2>2, <2>3
       DEF Facts, ArtifactsBehindState, Backed, FromG1, FromG2, Planned, Extending, Has, Extended,
           BeforeG1, FirstPass, Waiting
  <2>. QED BY <2>4, <2>5 DEF Facts
<1>. QED BY <1>1, <1>2, <1>3

LEMMA PlanningStep ==
    ASSUME Overlap = FALSE, Moves \intersect Skips = {}, PlanningInv, [Next]_vars
    PROVE  PlanningInv'
<1>. DEFINE Grounds == (\A q \in Process : Running(q) => Grounded(cmd[q].todo))'
            Result == Facts' /\ Grounds
<1>0. CommandInv /\ TypeOK /\ Facts /\ CommandInv'
  BY OrderStep DEF PlanningInv, CommandInv, Facts
<1>1. ASSUME NEW p \in Process, Effects(p) PROVE Result
  BY <1>1, EffectFacts
<1>2. ASSUME NEW p \in Process, Stages(p) PROVE Result
  BY <1>2, StageFacts
<1>3. ASSUME NEW p \in Process, Starts(p) PROVE Result
  BY <1>3, StartFacts
<1>4. ASSUME \A q \in Process : Running(q)' => Running(q) /\ cmd'[q] = cmd[q],
             UNCHANGED <<disk, files, locked, prd, rfc, dag>>
      PROVE  Result
  <2>1. Facts'
    BY <1>0, <1>4, SameFacts
  <2>2. ASSUME NEW q \in Process, NEW t, Running(q)', t = cmd'[q].todo PROVE Grounded(t)'
    <3>1. Grounded(t)
      <4>1. t = cmd[q].todo /\ Grounded(cmd[q].todo)
        BY <1>4, <2>2 DEF PlanningInv
      <4>. QED BY <4>1 DEF Grounded
    <3>2. Justified' = Justified
      BY <1>4, SameJustified
    <3>3. Signed' = Signed
      BY <1>4 DEF Signed
    <3>. QED BY <1>4, <3>1, <3>2, <3>3 DEF Grounded, Has
  <2>3. Grounds
    BY <2>2, GroundedAre
  <2>. QED BY <2>1, <2>3
<1>5. ASSUME NEW p \in Process, End(p) \/ Kill(p) PROVE Result
  <2>1. cmd' = [cmd EXCEPT ![p] = Off] /\ UNCHANGED <<disk, files, locked, prd, rfc, dag>>
    BY <1>5 DEF End, Kill, OnlyCommand
  <2>2. cmd'[p].stage = "off" /\ \A q \in Process \ {p} : cmd'[q] = cmd[q]
    BY <1>0, <2>1 DEF TypeOK, Off
  <2>3. \A q \in Process : Running(q)' => Running(q) /\ cmd'[q] = cmd[q]
    BY <2>2 DEF Running
  <2>. QED BY <1>4, <2>1, <2>3
<1>6. ASSUME (\E m \in Moves : Advance(m)) \/ Archive \/ Unarchive \/ ExecuteTasks PROVE Result
  <2>1. (\A p \in Process : ~Running(p)) /\ cmd' = cmd
    BY <1>0, <1>6, OperatorOrder
  <2>2. \A p \in Process : ~Running(p)'
    BY <2>1 DEF Running
  <2>3. Grounds
    BY <2>2
  <2>. QED BY <1>0, <1>6, <2>3, OperatorFacts
<1>7. ASSUME UNCHANGED vars PROVE Result
  BY <1>4, <1>7 DEF vars, Running
<1>8. Result
  <2>. HIDE DEF Result
  <2>. QED BY <1>1, <1>2, <1>3, <1>5, <1>6, <1>7 DEF Next, Command
<1>. QED BY <1>0, <1>8 DEF PlanningInv, Facts

LEMMA PlanningInit == Init => PlanningInv
<1>. SUFFICES ASSUME Init PROVE PlanningInv
  OBVIOUS
<1>1. CommandInv
  BY OrderInit
<1>2. \A p \in Process : ~Running(p)
  BY DEF Init, Running, Off
<1>3. disk.state \in {"intake", "prd_drafting"} /\ dag = {}
  BY DEF Init, NewProject
<1>4. \A c \in Cycle : prd[c] = "none" /\ rfc[c] = "none"
  BY DEF Init
<1>5. GateOrder
  BY <1>3, <1>4 DEF GateOrder
<1>6. ArtifactsBehindState /\ Backed
  BY <1>3, <1>4 DEF ArtifactsBehindState, Backed, FromG1, FromG2, Planned, Extending, Has, Extended,
                    BeforeG1, FirstPass, Waiting
<1>. QED BY <1>1, <1>2, <1>5, <1>6 DEF PlanningInv

LEMMA InductiveInvariant ==
    ASSUME Overlap = FALSE, Moves \intersect Skips = {}
    PROVE  Spec => []PlanningInv
<1>1. PlanningInv /\ [Next]_vars => PlanningInv'
  BY PlanningStep
<1>. QED BY <1>1, PlanningInit, PTL DEF Spec

(***************************************************************************)
(* The gates, and the artifacts behind the state                           *)
(***************************************************************************)
\* Whatever is killed and wherever, a section of RFC.md rests on an approved section
\* of PRD.md, and tasks on an approved section of RFC.md (planning.py: run, extend).
THEOREM GatesHold ==
    ASSUME Overlap = FALSE, Moves \intersect Skips = {}
    PROVE  Spec => []GateOrder
<1>1. PlanningInv => GateOrder
  BY DEF PlanningInv
<1>. QED BY <1>1, InductiveInvariant, PTL

\* The state on disk never promises an artifact that is not there (Project.save comes
\* after the writes of every command).
THEOREM ArtifactsStand ==
    ASSUME Overlap = FALSE, Moves \intersect Skips = {}
    PROVE  Spec => []ArtifactsBehindState
<1>1. PlanningInv => ArtifactsBehindState
  BY DEF PlanningInv
<1>. QED BY <1>1, InductiveInvariant, PTL

\* Nobody executes before what was approved in RFC.md has its tasks (_run_orchestrator,
\* _run_extend_orchestrator).
THEOREM ApprovedHasTasks ==
    ASSUME Overlap = FALSE, Moves \intersect Skips = {}
    PROVE  Spec => []ApprovedIsPlanned
<1>1. PlanningInv => ApprovedIsPlanned
  BY DEF PlanningInv, Backed, ApprovedIsPlanned, Signed
<1>. QED BY <1>1, InductiveInvariant, PTL

==============================================================================
