------------------------- MODULE NodeReleaseProofs -------------------------
(***************************************************************************)
(* Proofs about NodeRelease.                                                *)
(*                                                                         *)
(* What the properties need to know of an operation is how far it is, so    *)
(* the first part is about the plans: what remains of one is its end, and   *)
(* hence, mode by mode, which steps remain when a given one is next         *)
(* (the lemmas ...Ahead and At...).                                         *)
(*                                                                         *)
(* Base is the type invariant with what a request's own variables say of    *)
(* each other; it is inductive for any number of requests.  Inv adds, for   *)
(* one operation at a time,                                                 *)
(*   Aims       how the configuration an operation works towards, the one   *)
(*              it began with and the one on record are related;            *)
(*   Switching  what is done on the way to a release is done for it;        *)
(*   UnitInv, ReadInv, RowInv, PortInv                                      *)
(*              the properties in the middle of an operation: what is not   *)
(*              as the configuration says is a step that remains.           *)
(*                                                                         *)
(* The lemmas are named for the action and the invariant: LinkInv says      *)
(* that Link keeps Inv.                                                     *)
(***************************************************************************)
EXTENDS NodeRelease, SequenceTheorems, TLAPS

\* The plans one by one.
LEMMA Plans ==
    /\ Plan["idle"] = <<>>
    /\ Plan["adopt"] = <<"config">>
    /\ Plan["deploy"] = <<"link", "unit", "config", "row", "reload", "start", "wait">>
    /\ Plan["revert"] = <<"link", "unit", "config", "reload", "start">>
    /\ Plan["clear"] = <<"stop", "remove", "reload", "config", "fail">>
    /\ Plan["rollback"] = <<"link", "unit", "config", "reload", "start", "wait", "mark">>
    /\ Plan["update"] = <<"port", "unit", "reload", "start", "wait", "config">>
    /\ Plan["restore"] = <<"port", "unit", "reload", "start">>
  BY DEF Plan

LEMMA Modes ==
    Mode = {"idle", "adopt", "deploy", "revert", "clear", "rollback", "update", "restore"}
  BY DEF Mode, Plan

LEMMA PlanIsSteps == ASSUME NEW m \in Mode PROVE Plan[m] \in Seq(StepName)
<1>1. <<>> \in Seq(StepName) /\ <<"config">> \in Seq(StepName)
  BY DEF StepName
<1>2. <<"link", "unit", "config", "row", "reload", "start", "wait">> \in Seq(StepName)
  BY DEF StepName
<1>3. <<"link", "unit", "config", "reload", "start">> \in Seq(StepName)
  BY DEF StepName
<1>4. <<"stop", "remove", "reload", "config", "fail">> \in Seq(StepName)
  BY DEF StepName
<1>5. <<"link", "unit", "config", "reload", "start", "wait", "mark">> \in Seq(StepName)
  BY DEF StepName
<1>6. <<"port", "unit", "reload", "start", "wait", "config">> \in Seq(StepName)
  BY DEF StepName
<1>7. <<"port", "unit", "reload", "start">> \in Seq(StepName)
  BY DEF StepName
<1>. QED BY <1>1, <1>2, <1>3, <1>4, <1>5, <1>6, <1>7, Modes, Plans

LEMMA MoreThanOne == \A n \in Nat : /\ n > 1 => n # 1
                                    /\ n # 0 /\ n # 1 => n > 1
  OBVIOUS

Owed(q, step) == step \in Remaining(q)

StepsOf(list) == {list[i] : i \in DOMAIN list}

\* No plan has a step twice.
LEMMA PlanIsInjective ==
    ASSUME NEW m \in Mode, NEW i \in 1..Len(Plan[m]), NEW j \in 1..Len(Plan[m]),
           Plan[m][i] = Plan[m][j]
    PROVE  i = j
<1>1. CASE m = "idle"
  <2>1. Plan[m] = <<>>
    BY <1>1, Plans
  <2>. QED BY <2>1
<1>2. CASE m = "adopt"
  <2>1. Plan[m] = <<"config">>
    BY <1>2, Plans
  <2>2. Len(Plan[m]) = 1
    BY <2>1
  <2>. QED BY <2>1, <2>2
<1>3. CASE m = "deploy"
  <2>1. Plan[m] = <<"link", "unit", "config", "row", "reload", "start", "wait">>
    BY <1>3, Plans
  <2>2. Len(Plan[m]) = 7
    BY <2>1
  <2>. QED BY <2>1, <2>2
<1>4. CASE m = "revert"
  <2>1. Plan[m] = <<"link", "unit", "config", "reload", "start">>
    BY <1>4, Plans
  <2>2. Len(Plan[m]) = 5
    BY <2>1
  <2>. QED BY <2>1, <2>2
<1>5. CASE m = "clear"
  <2>1. Plan[m] = <<"stop", "remove", "reload", "config", "fail">>
    BY <1>5, Plans
  <2>2. Len(Plan[m]) = 5
    BY <2>1
  <2>. QED BY <2>1, <2>2
<1>6. CASE m = "rollback"
  <2>1. Plan[m] = <<"link", "unit", "config", "reload", "start", "wait", "mark">>
    BY <1>6, Plans
  <2>2. Len(Plan[m]) = 7
    BY <2>1
  <2>. QED BY <2>1, <2>2
<1>7. CASE m = "update"
  <2>1. Plan[m] = <<"port", "unit", "reload", "start", "wait", "config">>
    BY <1>7, Plans
  <2>2. Len(Plan[m]) = 6
    BY <2>1
  <2>. QED BY <2>1, <2>2
<1>8. CASE m = "restore"
  <2>1. Plan[m] = <<"port", "unit", "reload", "start">>
    BY <1>8, Plans
  <2>2. Len(Plan[m]) = 4
    BY <2>1
  <2>. QED BY <2>1, <2>2
<1>. QED BY Modes, <1>1, <1>2, <1>3, <1>4, <1>5, <1>6, <1>7, <1>8

\* All steps of each plan.
LEMMA AllSteps ==
    /\ StepsOf(Plan["idle"]) = {}
    /\ StepsOf(Plan["adopt"]) = {"config"}
    /\ StepsOf(Plan["deploy"]) = {"link", "unit", "config", "row", "reload", "start", "wait"}
    /\ StepsOf(Plan["revert"]) = {"link", "unit", "config", "reload", "start"}
    /\ StepsOf(Plan["clear"]) = {"stop", "remove", "reload", "config", "fail"}
    /\ StepsOf(Plan["rollback"]) = {"link", "unit", "config", "reload", "start", "wait", "mark"}
    /\ StepsOf(Plan["update"]) = {"port", "unit", "reload", "start", "wait", "config"}
    /\ StepsOf(Plan["restore"]) = {"port", "unit", "reload", "start"}
<1>1. StepsOf(Plan["idle"]) = {}
  BY Plans DEF StepsOf
<1>2. StepsOf(Plan["adopt"]) = {"config"}
  <2>1. DOMAIN Plan["adopt"] = {1}
    BY Plans
  <2>2. Plan["adopt"][1] = "config"
    BY Plans
  <2>. QED BY <2>1, <2>2 DEF StepsOf
<1>3. StepsOf(Plan["deploy"]) = {"link", "unit", "config", "row", "reload", "start", "wait"}
  <2>1. DOMAIN Plan["deploy"] = {1, 2, 3, 4, 5, 6, 7}
    BY Plans
  <2>2. /\ Plan["deploy"][1] = "link" /\ Plan["deploy"][2] = "unit" /\ Plan["deploy"][3] = "config"
        /\ Plan["deploy"][4] = "row" /\ Plan["deploy"][5] = "reload" /\ Plan["deploy"][6] = "start"
        /\ Plan["deploy"][7] = "wait"
    BY Plans
  <2>. QED BY <2>1, <2>2 DEF StepsOf
<1>4. StepsOf(Plan["revert"]) = {"link", "unit", "config", "reload", "start"}
  <2>1. DOMAIN Plan["revert"] = {1, 2, 3, 4, 5}
    BY Plans
  <2>2. /\ Plan["revert"][1] = "link" /\ Plan["revert"][2] = "unit" /\ Plan["revert"][3] = "config"
        /\ Plan["revert"][4] = "reload" /\ Plan["revert"][5] = "start"
    BY Plans
  <2>. QED BY <2>1, <2>2 DEF StepsOf
<1>5. StepsOf(Plan["clear"]) = {"stop", "remove", "reload", "config", "fail"}
  <2>1. DOMAIN Plan["clear"] = {1, 2, 3, 4, 5}
    BY Plans
  <2>2. /\ Plan["clear"][1] = "stop" /\ Plan["clear"][2] = "remove" /\ Plan["clear"][3] = "reload"
        /\ Plan["clear"][4] = "config" /\ Plan["clear"][5] = "fail"
    BY Plans
  <2>. QED BY <2>1, <2>2 DEF StepsOf
<1>6. StepsOf(Plan["rollback"]) = {"link", "unit", "config", "reload", "start", "wait", "mark"}
  <2>1. DOMAIN Plan["rollback"] = {1, 2, 3, 4, 5, 6, 7}
    BY Plans
  <2>2. /\ Plan["rollback"][1] = "link" /\ Plan["rollback"][2] = "unit" /\ Plan["rollback"][3] = "config"
        /\ Plan["rollback"][4] = "reload" /\ Plan["rollback"][5] = "start" /\ Plan["rollback"][6] = "wait"
        /\ Plan["rollback"][7] = "mark"
    BY Plans
  <2>. QED BY <2>1, <2>2 DEF StepsOf
<1>7. StepsOf(Plan["update"]) = {"port", "unit", "reload", "start", "wait", "config"}
  <2>1. DOMAIN Plan["update"] = {1, 2, 3, 4, 5, 6}
    BY Plans
  <2>2. /\ Plan["update"][1] = "port" /\ Plan["update"][2] = "unit" /\ Plan["update"][3] = "reload"
        /\ Plan["update"][4] = "start" /\ Plan["update"][5] = "wait" /\ Plan["update"][6] = "config"
    BY Plans
  <2>. QED BY <2>1, <2>2 DEF StepsOf
<1>8. StepsOf(Plan["restore"]) = {"port", "unit", "reload", "start"}
  <2>1. DOMAIN Plan["restore"] = {1, 2, 3, 4}
    BY Plans
  <2>2. /\ Plan["restore"][1] = "port" /\ Plan["restore"][2] = "unit" /\ Plan["restore"][3] = "reload"
        /\ Plan["restore"][4] = "start"
    BY Plans
  <2>. QED BY <2>1, <2>2 DEF StepsOf
<1>. QED BY <1>1, <1>2, <1>3, <1>4, <1>5, <1>6, <1>7, <1>8

\* A list begins with all of its plan,
LEMMA AllOfIt == ASSUME NEW m \in Mode PROVE SubSeq(Plan[m], 0 + 1, Len(Plan[m])) = Plan[m]
  BY PlanIsSteps, SubSeqFull

\* and ends with nothing.
LEMMA NothingOfIt ==
    ASSUME NEW m \in Mode PROVE SubSeq(Plan[m], Len(Plan[m]) + 1, Len(Plan[m])) = <<>>
  BY PlanIsSteps, SubSeqEmpty

\* The steps of a plan from the k-th on.
Ahead(m, k) == {Plan[m][j] : j \in k..Len(Plan[m])}

\* What is left of a plan from its k-th step on.
LEMMA EndOfPlan ==
    ASSUME NEW m \in Mode, NEW k \in 1..Len(Plan[m]), NEW l,
           l = SubSeq(Plan[m], k, Len(Plan[m]))
    PROVE  /\ l # <<>> /\ Head(l) = Plan[m][k]
           /\ Tail(l) = SubSeq(Plan[m], k + 1, Len(Plan[m]))
           /\ Len(l) = Len(Plan[m]) - k + 1
           /\ StepsOf(l) = Ahead(m, k)
<1>. DEFINE p == Plan[m]
<1>. DEFINE n == Len(p)
<1>1. p \in Seq(StepName) /\ n \in Nat /\ k \in 1..n /\ l = SubSeq(p, k, n)
  BY PlanIsSteps
<1>2. n \in k..n
  BY <1>1
<1>. HIDE DEF p
<1>3. Head(l) = p[k] /\ Tail(l) = SubSeq(p, k + 1, n)
  BY <1>1, <1>2, HeadTailOfSubSeq
<1>4. \A i \in k..n : p[i] \in StepName
  BY <1>1
<1>5. /\ Len(l) = n - k + 1
      /\ \A i \in 1..(n - k + 1) : l[i] = p[k + i - 1]
      /\ l \in Seq(StepName)
  <2>. HIDE DEF n
  <2>1. k \in Int /\ n \in Int /\ k <= n
    BY <1>1
  <2>. QED BY <1>1, <1>4, <2>1, SubSeqProperties
<1>6. DOMAIN l = 1..(n - k + 1) /\ l # <<>>
  <2>1. DOMAIN l = 1..Len(l)
    BY <1>5
  <2>2. Len(l) > 0
    BY <1>1, <1>5
  <2>3. l # <<>>
    <3>1. Len(<<>>) = 0
      OBVIOUS
    <3>2. Len(l) # 0
      BY <2>2
    <3>. QED BY <3>1, <3>2, Zenon
  <2>4. DOMAIN l = 1..(n - k + 1)
    BY <1>5, <2>1
  <2>. QED BY <2>3, <2>4
<1>7. StepsOf(l) = {p[j] : j \in k..n}
  <2>1. ASSUME NEW i \in 1..(n - k + 1) PROVE k + i - 1 \in k..n
    BY <1>1
  <2>2. ASSUME NEW j \in k..n PROVE j - k + 1 \in 1..(n - k + 1) /\ k + (j - k + 1) - 1 = j
    BY <1>1
  <2>3. StepsOf(l) = {l[i] : i \in 1..(n - k + 1)}
    BY <1>6 DEF StepsOf
  <2>4. ASSUME NEW x \in StepsOf(l) PROVE x \in {p[j] : j \in k..n}
    BY ZenonT(60), <1>5, <2>1, <2>3
  <2>5. ASSUME NEW j \in k..n PROVE p[j] \in StepsOf(l)
    <3>1. l[j - k + 1] = p[j]
      BY <1>5, <2>2
    <3>. QED BY <2>2, <2>3, <3>1
  <2>. QED BY <2>4, <2>5
<1>8. StepsOf(l) = Ahead(m, k)
  BY <1>7 DEF p, Ahead
<1>. QED BY <1>3, <1>5, <1>6, <1>8 DEF p

\* When its first step is done, the others remain.
LEMMA TailOfPlan ==
    ASSUME NEW m \in Mode, NEW k \in 1..Len(Plan[m]), NEW l,
           l = SubSeq(Plan[m], k, Len(Plan[m]))
    PROVE  /\ StepsOf(Tail(l)) = StepsOf(l) \ {Head(l)}
           /\ Tail(l) = <<>> <=> Len(l) = 1
<1>. DEFINE n == Len(Plan[m])
<1>1. n \in Nat /\ n # 0
  BY PlanIsSteps
<1>2. /\ Len(l) = n - k + 1 /\ Head(l) = Plan[m][k]
      /\ StepsOf(l) = Ahead(m, k)
      /\ Tail(l) = SubSeq(Plan[m], k + 1, n)
  BY EndOfPlan
<1>3. CASE k = n
  <2>1. Tail(l) = <<>>
    BY <1>2, <1>3, NothingOfIt
  <2>2. StepsOf(<<>>) = {}
    BY DEF StepsOf
  <2>3. k..n = {k}
    BY <1>1, <1>3
  <2>4. StepsOf(l) = {Head(l)}
    BY <1>2, <2>3 DEF Ahead
  <2>5. StepsOf(Tail(l)) = StepsOf(l) \ {Head(l)}
    BY <2>1, <2>2, <2>4
  <2>6. Len(l) = 1
    BY <1>1, <1>2, <1>3
  <2>. QED BY <2>1, <2>5, <2>6
<1>4. CASE k # n
  <2>1. k + 1 \in 1..n
    BY <1>1, <1>4
  <2>2. Tail(l) # <<>> /\ StepsOf(Tail(l)) = Ahead(m, k + 1)
    BY <1>2, <2>1, EndOfPlan
  <2>3. \A j \in k..n : j = k \/ j \in (k + 1)..n
    BY <1>1
  <2>4. \A j \in (k + 1)..n : j \in k..n /\ j # k /\ j \in 1..n
    BY <1>1
  <2>5. \A j \in (k + 1)..n : Plan[m][j] # Plan[m][k]
    BY <2>4, PlanIsInjective
  <2>6. StepsOf(Tail(l)) = StepsOf(l) \ {Head(l)}
    BY <1>2, <2>2, <2>3, <2>4, <2>5 DEF Ahead
  <2>7. Len(l) # 1
    BY <1>1, <1>2, <1>4
  <2>. QED BY <2>2, <2>6, <2>7
<1>. QED BY <1>3, <1>4

\* What remains is always the end of the plan.
LEMMA Where ==
    ASSUME TypeOK, NEW q \in Request
    PROVE  /\ mode[q] \in Mode
           /\ Remaining(q) = StepsOf(todo[q])
           /\ todo[q] # <<>> => \E k \in 1..Len(Plan[mode[q]]) :
                /\ todo[q] = SubSeq(Plan[mode[q]], k, Len(Plan[mode[q]]))
                /\ Head(todo[q]) = Plan[mode[q]][k]
                /\ Len(todo[q]) = Len(Plan[mode[q]]) - k + 1
                /\ StepsOf(todo[q]) = Ahead(mode[q], k)
<1>1. mode[q] \in Mode
  BY DEF TypeOK
<1>2. Remaining(q) = StepsOf(todo[q])
  BY DEF Remaining, StepsOf
<1>. DEFINE n == Len(Plan[mode[q]])
<1>3. n \in Nat
  BY <1>1, PlanIsSteps
<1>4. PICK k \in 0..n : todo[q] = SubSeq(Plan[mode[q]], k + 1, n)
  BY DEF TypeOK
<1>5. k = n => todo[q] = <<>>
  BY <1>1, <1>4, NothingOfIt
<1>6. k # n => k + 1 \in 1..n
  BY <1>3
<1>7. ASSUME NEW j \in 1..n, todo[q] = SubSeq(Plan[mode[q]], j, n)
      PROVE  /\ Head(todo[q]) = Plan[mode[q]][j]
             /\ Len(todo[q]) = n - j + 1
             /\ StepsOf(todo[q]) = Ahead(mode[q], j)
  <2>. DEFINE m == mode[q]
  <2>. DEFINE l == todo[q]
  <2>1. m \in Mode /\ j \in 1..Len(Plan[m]) /\ l = SubSeq(Plan[m], j, Len(Plan[m]))
    BY <1>1, <1>7
  <2>. HIDE DEF m, l, n
  <2>2. /\ Head(l) = Plan[m][j]
        /\ Len(l) = Len(Plan[m]) - j + 1
        /\ StepsOf(l) = Ahead(m, j)
    BY <2>1, EndOfPlan
  <2>. QED BY <2>2 DEF m, l, n
<1>. QED BY <1>1, <1>2, <1>4, <1>5, <1>6, <1>7

\* In each mode: what remains when step s is next.
LEMMA AdoptAhead ==
    ASSUME TypeOK, NEW q \in Request, mode[q] = "adopt", todo[q] # <<>>
    PROVE  LET s == Head(todo[q]) IN
           \/ /\ s = "config" /\ Len(todo[q]) = 1 /\ todo[q] = Plan["adopt"]
              /\ Remaining(q) = {"config"}
<1>1. /\ Len(Plan["adopt"]) = 1
      /\ Plan["adopt"][1] = "config"
  BY Plans
<1>2. PICK k \in 1..Len(Plan["adopt"]) :
        /\ todo[q] = SubSeq(Plan["adopt"], k, Len(Plan["adopt"]))
        /\ Head(todo[q]) = Plan["adopt"][k]
        /\ Len(todo[q]) = Len(Plan["adopt"]) - k + 1
        /\ StepsOf(todo[q]) = Ahead("adopt", k)
  BY Where
<1>3. Remaining(q) = StepsOf(todo[q]) /\ "adopt" \in Mode
  BY Where
<1>4. /\ Head(todo[q]) = Plan["adopt"][k] /\ Len(todo[q]) = Len(Plan["adopt"]) - k + 1
      /\ StepsOf(todo[q]) = Ahead("adopt", k)
  BY <1>2
<1>5. k = 1 => todo[q] = Plan["adopt"]
  BY <1>2, <1>3, AllOfIt
<1>6. k # 1 => todo[q] # Plan["adopt"]
  BY <1>1, <1>2, <1>4
<1>7. CASE k = 1
  <2>1. k..Len(Plan["adopt"]) = {1}
    BY <1>1, <1>7
  <2>2. Ahead("adopt", k) = {"config"}
    <3>1. Ahead("adopt", k) = {Plan["adopt"][j] : j \in {1}}
      BY <2>1 DEF Ahead
    <3>. QED BY <1>1, <3>1
  <2>. QED BY <1>1, <1>3, <1>4, <1>5, <1>6, <1>7, <2>2
<1>. QED
  <2>1. k = 1
    BY <1>1, <1>2
  <2>. QED BY <2>1, <1>7

LEMMA DeployAhead ==
    ASSUME TypeOK, NEW q \in Request, mode[q] = "deploy", todo[q] # <<>>
    PROVE  LET s == Head(todo[q]) IN
           \/ /\ s = "link" /\ Len(todo[q]) > 1 /\ todo[q] = Plan["deploy"]
              /\ Remaining(q) = {"link", "unit", "config", "row", "reload", "start", "wait"}
           \/ /\ s = "unit" /\ Len(todo[q]) > 1 /\ todo[q] # Plan["deploy"]
              /\ Remaining(q) = {"unit", "config", "row", "reload", "start", "wait"}
           \/ /\ s = "config" /\ Len(todo[q]) > 1 /\ todo[q] # Plan["deploy"]
              /\ Remaining(q) = {"config", "row", "reload", "start", "wait"}
           \/ /\ s = "row" /\ Len(todo[q]) > 1 /\ todo[q] # Plan["deploy"]
              /\ Remaining(q) = {"row", "reload", "start", "wait"}
           \/ /\ s = "reload" /\ Len(todo[q]) > 1 /\ todo[q] # Plan["deploy"]
              /\ Remaining(q) = {"reload", "start", "wait"}
           \/ /\ s = "start" /\ Len(todo[q]) > 1 /\ todo[q] # Plan["deploy"]
              /\ Remaining(q) = {"start", "wait"}
           \/ /\ s = "wait" /\ Len(todo[q]) = 1 /\ todo[q] # Plan["deploy"]
              /\ Remaining(q) = {"wait"}
<1>1. /\ Len(Plan["deploy"]) = 7
      /\ Plan["deploy"][1] = "link" /\ Plan["deploy"][2] = "unit" /\ Plan["deploy"][3] = "config"
      /\ Plan["deploy"][4] = "row" /\ Plan["deploy"][5] = "reload" /\ Plan["deploy"][6] = "start"
      /\ Plan["deploy"][7] = "wait"
  BY Plans
<1>2. PICK k \in 1..Len(Plan["deploy"]) :
        /\ todo[q] = SubSeq(Plan["deploy"], k, Len(Plan["deploy"]))
        /\ Head(todo[q]) = Plan["deploy"][k]
        /\ Len(todo[q]) = Len(Plan["deploy"]) - k + 1
        /\ StepsOf(todo[q]) = Ahead("deploy", k)
  BY Where
<1>3. Remaining(q) = StepsOf(todo[q]) /\ "deploy" \in Mode
  BY Where
<1>4. /\ Head(todo[q]) = Plan["deploy"][k] /\ Len(todo[q]) = Len(Plan["deploy"]) - k + 1
      /\ StepsOf(todo[q]) = Ahead("deploy", k)
  BY <1>2
<1>5. k = 1 => todo[q] = Plan["deploy"]
  BY <1>2, <1>3, AllOfIt
<1>6. k # 1 => todo[q] # Plan["deploy"]
  BY <1>1, <1>2, <1>4
<1>7. CASE k = 1
  <2>1. k..Len(Plan["deploy"]) = {1, 2, 3, 4, 5, 6, 7}
    BY <1>1, <1>7
  <2>2. Ahead("deploy", k) = {"link", "unit", "config", "row", "reload", "start", "wait"}
    <3>1. Ahead("deploy", k) = {Plan["deploy"][j] : j \in {1, 2, 3, 4, 5, 6, 7}}
      BY <2>1 DEF Ahead
    <3>. QED BY <1>1, <3>1
  <2>. QED BY <1>1, <1>3, <1>4, <1>5, <1>6, <1>7, <2>2
<1>8. CASE k = 2
  <2>1. k..Len(Plan["deploy"]) = {2, 3, 4, 5, 6, 7}
    BY <1>1, <1>8
  <2>2. Ahead("deploy", k) = {"unit", "config", "row", "reload", "start", "wait"}
    <3>1. Ahead("deploy", k) = {Plan["deploy"][j] : j \in {2, 3, 4, 5, 6, 7}}
      BY <2>1 DEF Ahead
    <3>. QED BY <1>1, <3>1
  <2>. QED BY <1>1, <1>3, <1>4, <1>5, <1>6, <1>8, <2>2
<1>9. CASE k = 3
  <2>1. k..Len(Plan["deploy"]) = {3, 4, 5, 6, 7}
    BY <1>1, <1>9
  <2>2. Ahead("deploy", k) = {"config", "row", "reload", "start", "wait"}
    <3>1. Ahead("deploy", k) = {Plan["deploy"][j] : j \in {3, 4, 5, 6, 7}}
      BY <2>1 DEF Ahead
    <3>. QED BY <1>1, <3>1
  <2>. QED BY <1>1, <1>3, <1>4, <1>5, <1>6, <1>9, <2>2
<1>10. CASE k = 4
  <2>1. k..Len(Plan["deploy"]) = {4, 5, 6, 7}
    BY <1>1, <1>10
  <2>2. Ahead("deploy", k) = {"row", "reload", "start", "wait"}
    <3>1. Ahead("deploy", k) = {Plan["deploy"][j] : j \in {4, 5, 6, 7}}
      BY <2>1 DEF Ahead
    <3>. QED BY <1>1, <3>1
  <2>. QED BY <1>1, <1>3, <1>4, <1>5, <1>6, <1>10, <2>2
<1>11. CASE k = 5
  <2>1. k..Len(Plan["deploy"]) = {5, 6, 7}
    BY <1>1, <1>11
  <2>2. Ahead("deploy", k) = {"reload", "start", "wait"}
    <3>1. Ahead("deploy", k) = {Plan["deploy"][j] : j \in {5, 6, 7}}
      BY <2>1 DEF Ahead
    <3>. QED BY <1>1, <3>1
  <2>. QED BY <1>1, <1>3, <1>4, <1>5, <1>6, <1>11, <2>2
<1>12. CASE k = 6
  <2>1. k..Len(Plan["deploy"]) = {6, 7}
    BY <1>1, <1>12
  <2>2. Ahead("deploy", k) = {"start", "wait"}
    <3>1. Ahead("deploy", k) = {Plan["deploy"][j] : j \in {6, 7}}
      BY <2>1 DEF Ahead
    <3>. QED BY <1>1, <3>1
  <2>. QED BY <1>1, <1>3, <1>4, <1>5, <1>6, <1>12, <2>2
<1>13. CASE k = 7
  <2>1. k..Len(Plan["deploy"]) = {7}
    BY <1>1, <1>13
  <2>2. Ahead("deploy", k) = {"wait"}
    <3>1. Ahead("deploy", k) = {Plan["deploy"][j] : j \in {7}}
      BY <2>1 DEF Ahead
    <3>. QED BY <1>1, <3>1
  <2>. QED BY <1>1, <1>3, <1>4, <1>5, <1>6, <1>13, <2>2
<1>. QED
  <2>1. k = 1 \/ k = 2 \/ k = 3 \/ k = 4 \/ k = 5 \/ k = 6 \/ k = 7
    BY <1>1, <1>2
  <2>. QED BY <2>1, <1>7, <1>8, <1>9, <1>10, <1>11, <1>12, <1>13

LEMMA RevertAhead ==
    ASSUME TypeOK, NEW q \in Request, mode[q] = "revert", todo[q] # <<>>
    PROVE  LET s == Head(todo[q]) IN
           \/ /\ s = "link" /\ Len(todo[q]) > 1 /\ todo[q] = Plan["revert"]
              /\ Remaining(q) = {"link", "unit", "config", "reload", "start"}
           \/ /\ s = "unit" /\ Len(todo[q]) > 1 /\ todo[q] # Plan["revert"]
              /\ Remaining(q) = {"unit", "config", "reload", "start"}
           \/ /\ s = "config" /\ Len(todo[q]) > 1 /\ todo[q] # Plan["revert"]
              /\ Remaining(q) = {"config", "reload", "start"}
           \/ /\ s = "reload" /\ Len(todo[q]) > 1 /\ todo[q] # Plan["revert"]
              /\ Remaining(q) = {"reload", "start"}
           \/ /\ s = "start" /\ Len(todo[q]) = 1 /\ todo[q] # Plan["revert"]
              /\ Remaining(q) = {"start"}
<1>1. /\ Len(Plan["revert"]) = 5
      /\ Plan["revert"][1] = "link" /\ Plan["revert"][2] = "unit" /\ Plan["revert"][3] = "config"
      /\ Plan["revert"][4] = "reload" /\ Plan["revert"][5] = "start"
  BY Plans
<1>2. PICK k \in 1..Len(Plan["revert"]) :
        /\ todo[q] = SubSeq(Plan["revert"], k, Len(Plan["revert"]))
        /\ Head(todo[q]) = Plan["revert"][k]
        /\ Len(todo[q]) = Len(Plan["revert"]) - k + 1
        /\ StepsOf(todo[q]) = Ahead("revert", k)
  BY Where
<1>3. Remaining(q) = StepsOf(todo[q]) /\ "revert" \in Mode
  BY Where
<1>4. /\ Head(todo[q]) = Plan["revert"][k] /\ Len(todo[q]) = Len(Plan["revert"]) - k + 1
      /\ StepsOf(todo[q]) = Ahead("revert", k)
  BY <1>2
<1>5. k = 1 => todo[q] = Plan["revert"]
  BY <1>2, <1>3, AllOfIt
<1>6. k # 1 => todo[q] # Plan["revert"]
  BY <1>1, <1>2, <1>4
<1>7. CASE k = 1
  <2>1. k..Len(Plan["revert"]) = {1, 2, 3, 4, 5}
    BY <1>1, <1>7
  <2>2. Ahead("revert", k) = {"link", "unit", "config", "reload", "start"}
    <3>1. Ahead("revert", k) = {Plan["revert"][j] : j \in {1, 2, 3, 4, 5}}
      BY <2>1 DEF Ahead
    <3>. QED BY <1>1, <3>1
  <2>. QED BY <1>1, <1>3, <1>4, <1>5, <1>6, <1>7, <2>2
<1>8. CASE k = 2
  <2>1. k..Len(Plan["revert"]) = {2, 3, 4, 5}
    BY <1>1, <1>8
  <2>2. Ahead("revert", k) = {"unit", "config", "reload", "start"}
    <3>1. Ahead("revert", k) = {Plan["revert"][j] : j \in {2, 3, 4, 5}}
      BY <2>1 DEF Ahead
    <3>. QED BY <1>1, <3>1
  <2>. QED BY <1>1, <1>3, <1>4, <1>5, <1>6, <1>8, <2>2
<1>9. CASE k = 3
  <2>1. k..Len(Plan["revert"]) = {3, 4, 5}
    BY <1>1, <1>9
  <2>2. Ahead("revert", k) = {"config", "reload", "start"}
    <3>1. Ahead("revert", k) = {Plan["revert"][j] : j \in {3, 4, 5}}
      BY <2>1 DEF Ahead
    <3>. QED BY <1>1, <3>1
  <2>. QED BY <1>1, <1>3, <1>4, <1>5, <1>6, <1>9, <2>2
<1>10. CASE k = 4
  <2>1. k..Len(Plan["revert"]) = {4, 5}
    BY <1>1, <1>10
  <2>2. Ahead("revert", k) = {"reload", "start"}
    <3>1. Ahead("revert", k) = {Plan["revert"][j] : j \in {4, 5}}
      BY <2>1 DEF Ahead
    <3>. QED BY <1>1, <3>1
  <2>. QED BY <1>1, <1>3, <1>4, <1>5, <1>6, <1>10, <2>2
<1>11. CASE k = 5
  <2>1. k..Len(Plan["revert"]) = {5}
    BY <1>1, <1>11
  <2>2. Ahead("revert", k) = {"start"}
    <3>1. Ahead("revert", k) = {Plan["revert"][j] : j \in {5}}
      BY <2>1 DEF Ahead
    <3>. QED BY <1>1, <3>1
  <2>. QED BY <1>1, <1>3, <1>4, <1>5, <1>6, <1>11, <2>2
<1>. QED
  <2>1. k = 1 \/ k = 2 \/ k = 3 \/ k = 4 \/ k = 5
    BY <1>1, <1>2
  <2>. QED BY <2>1, <1>7, <1>8, <1>9, <1>10, <1>11

LEMMA ClearAhead ==
    ASSUME TypeOK, NEW q \in Request, mode[q] = "clear", todo[q] # <<>>
    PROVE  LET s == Head(todo[q]) IN
           \/ /\ s = "stop" /\ Len(todo[q]) > 1 /\ todo[q] = Plan["clear"]
              /\ Remaining(q) = {"stop", "remove", "reload", "config", "fail"}
           \/ /\ s = "remove" /\ Len(todo[q]) > 1 /\ todo[q] # Plan["clear"]
              /\ Remaining(q) = {"remove", "reload", "config", "fail"}
           \/ /\ s = "reload" /\ Len(todo[q]) > 1 /\ todo[q] # Plan["clear"]
              /\ Remaining(q) = {"reload", "config", "fail"}
           \/ /\ s = "config" /\ Len(todo[q]) > 1 /\ todo[q] # Plan["clear"]
              /\ Remaining(q) = {"config", "fail"}
           \/ /\ s = "fail" /\ Len(todo[q]) = 1 /\ todo[q] # Plan["clear"]
              /\ Remaining(q) = {"fail"}
<1>1. /\ Len(Plan["clear"]) = 5
      /\ Plan["clear"][1] = "stop" /\ Plan["clear"][2] = "remove" /\ Plan["clear"][3] = "reload"
      /\ Plan["clear"][4] = "config" /\ Plan["clear"][5] = "fail"
  BY Plans
<1>2. PICK k \in 1..Len(Plan["clear"]) :
        /\ todo[q] = SubSeq(Plan["clear"], k, Len(Plan["clear"]))
        /\ Head(todo[q]) = Plan["clear"][k]
        /\ Len(todo[q]) = Len(Plan["clear"]) - k + 1
        /\ StepsOf(todo[q]) = Ahead("clear", k)
  BY Where
<1>3. Remaining(q) = StepsOf(todo[q]) /\ "clear" \in Mode
  BY Where
<1>4. /\ Head(todo[q]) = Plan["clear"][k] /\ Len(todo[q]) = Len(Plan["clear"]) - k + 1
      /\ StepsOf(todo[q]) = Ahead("clear", k)
  BY <1>2
<1>5. k = 1 => todo[q] = Plan["clear"]
  BY <1>2, <1>3, AllOfIt
<1>6. k # 1 => todo[q] # Plan["clear"]
  BY <1>1, <1>2, <1>4
<1>7. CASE k = 1
  <2>1. k..Len(Plan["clear"]) = {1, 2, 3, 4, 5}
    BY <1>1, <1>7
  <2>2. Ahead("clear", k) = {"stop", "remove", "reload", "config", "fail"}
    <3>1. Ahead("clear", k) = {Plan["clear"][j] : j \in {1, 2, 3, 4, 5}}
      BY <2>1 DEF Ahead
    <3>. QED BY <1>1, <3>1
  <2>. QED BY <1>1, <1>3, <1>4, <1>5, <1>6, <1>7, <2>2
<1>8. CASE k = 2
  <2>1. k..Len(Plan["clear"]) = {2, 3, 4, 5}
    BY <1>1, <1>8
  <2>2. Ahead("clear", k) = {"remove", "reload", "config", "fail"}
    <3>1. Ahead("clear", k) = {Plan["clear"][j] : j \in {2, 3, 4, 5}}
      BY <2>1 DEF Ahead
    <3>. QED BY <1>1, <3>1
  <2>. QED BY <1>1, <1>3, <1>4, <1>5, <1>6, <1>8, <2>2
<1>9. CASE k = 3
  <2>1. k..Len(Plan["clear"]) = {3, 4, 5}
    BY <1>1, <1>9
  <2>2. Ahead("clear", k) = {"reload", "config", "fail"}
    <3>1. Ahead("clear", k) = {Plan["clear"][j] : j \in {3, 4, 5}}
      BY <2>1 DEF Ahead
    <3>. QED BY <1>1, <3>1
  <2>. QED BY <1>1, <1>3, <1>4, <1>5, <1>6, <1>9, <2>2
<1>10. CASE k = 4
  <2>1. k..Len(Plan["clear"]) = {4, 5}
    BY <1>1, <1>10
  <2>2. Ahead("clear", k) = {"config", "fail"}
    <3>1. Ahead("clear", k) = {Plan["clear"][j] : j \in {4, 5}}
      BY <2>1 DEF Ahead
    <3>. QED BY <1>1, <3>1
  <2>. QED BY <1>1, <1>3, <1>4, <1>5, <1>6, <1>10, <2>2
<1>11. CASE k = 5
  <2>1. k..Len(Plan["clear"]) = {5}
    BY <1>1, <1>11
  <2>2. Ahead("clear", k) = {"fail"}
    <3>1. Ahead("clear", k) = {Plan["clear"][j] : j \in {5}}
      BY <2>1 DEF Ahead
    <3>. QED BY <1>1, <3>1
  <2>. QED BY <1>1, <1>3, <1>4, <1>5, <1>6, <1>11, <2>2
<1>. QED
  <2>1. k = 1 \/ k = 2 \/ k = 3 \/ k = 4 \/ k = 5
    BY <1>1, <1>2
  <2>. QED BY <2>1, <1>7, <1>8, <1>9, <1>10, <1>11

LEMMA RollbackAhead ==
    ASSUME TypeOK, NEW q \in Request, mode[q] = "rollback", todo[q] # <<>>
    PROVE  LET s == Head(todo[q]) IN
           \/ /\ s = "link" /\ Len(todo[q]) > 1 /\ todo[q] = Plan["rollback"]
              /\ Remaining(q) = {"link", "unit", "config", "reload", "start", "wait", "mark"}
           \/ /\ s = "unit" /\ Len(todo[q]) > 1 /\ todo[q] # Plan["rollback"]
              /\ Remaining(q) = {"unit", "config", "reload", "start", "wait", "mark"}
           \/ /\ s = "config" /\ Len(todo[q]) > 1 /\ todo[q] # Plan["rollback"]
              /\ Remaining(q) = {"config", "reload", "start", "wait", "mark"}
           \/ /\ s = "reload" /\ Len(todo[q]) > 1 /\ todo[q] # Plan["rollback"]
              /\ Remaining(q) = {"reload", "start", "wait", "mark"}
           \/ /\ s = "start" /\ Len(todo[q]) > 1 /\ todo[q] # Plan["rollback"]
              /\ Remaining(q) = {"start", "wait", "mark"}
           \/ /\ s = "wait" /\ Len(todo[q]) > 1 /\ todo[q] # Plan["rollback"]
              /\ Remaining(q) = {"wait", "mark"}
           \/ /\ s = "mark" /\ Len(todo[q]) = 1 /\ todo[q] # Plan["rollback"]
              /\ Remaining(q) = {"mark"}
<1>1. /\ Len(Plan["rollback"]) = 7
      /\ Plan["rollback"][1] = "link" /\ Plan["rollback"][2] = "unit" /\ Plan["rollback"][3] = "config"
      /\ Plan["rollback"][4] = "reload" /\ Plan["rollback"][5] = "start" /\ Plan["rollback"][6] = "wait"
      /\ Plan["rollback"][7] = "mark"
  BY Plans
<1>2. PICK k \in 1..Len(Plan["rollback"]) :
        /\ todo[q] = SubSeq(Plan["rollback"], k, Len(Plan["rollback"]))
        /\ Head(todo[q]) = Plan["rollback"][k]
        /\ Len(todo[q]) = Len(Plan["rollback"]) - k + 1
        /\ StepsOf(todo[q]) = Ahead("rollback", k)
  BY Where
<1>3. Remaining(q) = StepsOf(todo[q]) /\ "rollback" \in Mode
  BY Where
<1>4. /\ Head(todo[q]) = Plan["rollback"][k] /\ Len(todo[q]) = Len(Plan["rollback"]) - k + 1
      /\ StepsOf(todo[q]) = Ahead("rollback", k)
  BY <1>2
<1>5. k = 1 => todo[q] = Plan["rollback"]
  BY <1>2, <1>3, AllOfIt
<1>6. k # 1 => todo[q] # Plan["rollback"]
  BY <1>1, <1>2, <1>4
<1>7. CASE k = 1
  <2>1. k..Len(Plan["rollback"]) = {1, 2, 3, 4, 5, 6, 7}
    BY <1>1, <1>7
  <2>2. Ahead("rollback", k) = {"link", "unit", "config", "reload", "start", "wait", "mark"}
    <3>1. Ahead("rollback", k) = {Plan["rollback"][j] : j \in {1, 2, 3, 4, 5, 6, 7}}
      BY <2>1 DEF Ahead
    <3>. QED BY <1>1, <3>1
  <2>. QED BY <1>1, <1>3, <1>4, <1>5, <1>6, <1>7, <2>2
<1>8. CASE k = 2
  <2>1. k..Len(Plan["rollback"]) = {2, 3, 4, 5, 6, 7}
    BY <1>1, <1>8
  <2>2. Ahead("rollback", k) = {"unit", "config", "reload", "start", "wait", "mark"}
    <3>1. Ahead("rollback", k) = {Plan["rollback"][j] : j \in {2, 3, 4, 5, 6, 7}}
      BY <2>1 DEF Ahead
    <3>. QED BY <1>1, <3>1
  <2>. QED BY <1>1, <1>3, <1>4, <1>5, <1>6, <1>8, <2>2
<1>9. CASE k = 3
  <2>1. k..Len(Plan["rollback"]) = {3, 4, 5, 6, 7}
    BY <1>1, <1>9
  <2>2. Ahead("rollback", k) = {"config", "reload", "start", "wait", "mark"}
    <3>1. Ahead("rollback", k) = {Plan["rollback"][j] : j \in {3, 4, 5, 6, 7}}
      BY <2>1 DEF Ahead
    <3>. QED BY <1>1, <3>1
  <2>. QED BY <1>1, <1>3, <1>4, <1>5, <1>6, <1>9, <2>2
<1>10. CASE k = 4
  <2>1. k..Len(Plan["rollback"]) = {4, 5, 6, 7}
    BY <1>1, <1>10
  <2>2. Ahead("rollback", k) = {"reload", "start", "wait", "mark"}
    <3>1. Ahead("rollback", k) = {Plan["rollback"][j] : j \in {4, 5, 6, 7}}
      BY <2>1 DEF Ahead
    <3>. QED BY <1>1, <3>1
  <2>. QED BY <1>1, <1>3, <1>4, <1>5, <1>6, <1>10, <2>2
<1>11. CASE k = 5
  <2>1. k..Len(Plan["rollback"]) = {5, 6, 7}
    BY <1>1, <1>11
  <2>2. Ahead("rollback", k) = {"start", "wait", "mark"}
    <3>1. Ahead("rollback", k) = {Plan["rollback"][j] : j \in {5, 6, 7}}
      BY <2>1 DEF Ahead
    <3>. QED BY <1>1, <3>1
  <2>. QED BY <1>1, <1>3, <1>4, <1>5, <1>6, <1>11, <2>2
<1>12. CASE k = 6
  <2>1. k..Len(Plan["rollback"]) = {6, 7}
    BY <1>1, <1>12
  <2>2. Ahead("rollback", k) = {"wait", "mark"}
    <3>1. Ahead("rollback", k) = {Plan["rollback"][j] : j \in {6, 7}}
      BY <2>1 DEF Ahead
    <3>. QED BY <1>1, <3>1
  <2>. QED BY <1>1, <1>3, <1>4, <1>5, <1>6, <1>12, <2>2
<1>13. CASE k = 7
  <2>1. k..Len(Plan["rollback"]) = {7}
    BY <1>1, <1>13
  <2>2. Ahead("rollback", k) = {"mark"}
    <3>1. Ahead("rollback", k) = {Plan["rollback"][j] : j \in {7}}
      BY <2>1 DEF Ahead
    <3>. QED BY <1>1, <3>1
  <2>. QED BY <1>1, <1>3, <1>4, <1>5, <1>6, <1>13, <2>2
<1>. QED
  <2>1. k = 1 \/ k = 2 \/ k = 3 \/ k = 4 \/ k = 5 \/ k = 6 \/ k = 7
    BY <1>1, <1>2
  <2>. QED BY <2>1, <1>7, <1>8, <1>9, <1>10, <1>11, <1>12, <1>13

LEMMA UpdateAhead ==
    ASSUME TypeOK, NEW q \in Request, mode[q] = "update", todo[q] # <<>>
    PROVE  LET s == Head(todo[q]) IN
           \/ /\ s = "port" /\ Len(todo[q]) > 1 /\ todo[q] = Plan["update"]
              /\ Remaining(q) = {"port", "unit", "reload", "start", "wait", "config"}
           \/ /\ s = "unit" /\ Len(todo[q]) > 1 /\ todo[q] # Plan["update"]
              /\ Remaining(q) = {"unit", "reload", "start", "wait", "config"}
           \/ /\ s = "reload" /\ Len(todo[q]) > 1 /\ todo[q] # Plan["update"]
              /\ Remaining(q) = {"reload", "start", "wait", "config"}
           \/ /\ s = "start" /\ Len(todo[q]) > 1 /\ todo[q] # Plan["update"]
              /\ Remaining(q) = {"start", "wait", "config"}
           \/ /\ s = "wait" /\ Len(todo[q]) > 1 /\ todo[q] # Plan["update"]
              /\ Remaining(q) = {"wait", "config"}
           \/ /\ s = "config" /\ Len(todo[q]) = 1 /\ todo[q] # Plan["update"]
              /\ Remaining(q) = {"config"}
<1>1. /\ Len(Plan["update"]) = 6
      /\ Plan["update"][1] = "port" /\ Plan["update"][2] = "unit" /\ Plan["update"][3] = "reload"
      /\ Plan["update"][4] = "start" /\ Plan["update"][5] = "wait" /\ Plan["update"][6] = "config"
  BY Plans
<1>2. PICK k \in 1..Len(Plan["update"]) :
        /\ todo[q] = SubSeq(Plan["update"], k, Len(Plan["update"]))
        /\ Head(todo[q]) = Plan["update"][k]
        /\ Len(todo[q]) = Len(Plan["update"]) - k + 1
        /\ StepsOf(todo[q]) = Ahead("update", k)
  BY Where
<1>3. Remaining(q) = StepsOf(todo[q]) /\ "update" \in Mode
  BY Where
<1>4. /\ Head(todo[q]) = Plan["update"][k] /\ Len(todo[q]) = Len(Plan["update"]) - k + 1
      /\ StepsOf(todo[q]) = Ahead("update", k)
  BY <1>2
<1>5. k = 1 => todo[q] = Plan["update"]
  BY <1>2, <1>3, AllOfIt
<1>6. k # 1 => todo[q] # Plan["update"]
  BY <1>1, <1>2, <1>4
<1>7. CASE k = 1
  <2>1. k..Len(Plan["update"]) = {1, 2, 3, 4, 5, 6}
    BY <1>1, <1>7
  <2>2. Ahead("update", k) = {"port", "unit", "reload", "start", "wait", "config"}
    <3>1. Ahead("update", k) = {Plan["update"][j] : j \in {1, 2, 3, 4, 5, 6}}
      BY <2>1 DEF Ahead
    <3>. QED BY <1>1, <3>1
  <2>. QED BY <1>1, <1>3, <1>4, <1>5, <1>6, <1>7, <2>2
<1>8. CASE k = 2
  <2>1. k..Len(Plan["update"]) = {2, 3, 4, 5, 6}
    BY <1>1, <1>8
  <2>2. Ahead("update", k) = {"unit", "reload", "start", "wait", "config"}
    <3>1. Ahead("update", k) = {Plan["update"][j] : j \in {2, 3, 4, 5, 6}}
      BY <2>1 DEF Ahead
    <3>. QED BY <1>1, <3>1
  <2>. QED BY <1>1, <1>3, <1>4, <1>5, <1>6, <1>8, <2>2
<1>9. CASE k = 3
  <2>1. k..Len(Plan["update"]) = {3, 4, 5, 6}
    BY <1>1, <1>9
  <2>2. Ahead("update", k) = {"reload", "start", "wait", "config"}
    <3>1. Ahead("update", k) = {Plan["update"][j] : j \in {3, 4, 5, 6}}
      BY <2>1 DEF Ahead
    <3>. QED BY <1>1, <3>1
  <2>. QED BY <1>1, <1>3, <1>4, <1>5, <1>6, <1>9, <2>2
<1>10. CASE k = 4
  <2>1. k..Len(Plan["update"]) = {4, 5, 6}
    BY <1>1, <1>10
  <2>2. Ahead("update", k) = {"start", "wait", "config"}
    <3>1. Ahead("update", k) = {Plan["update"][j] : j \in {4, 5, 6}}
      BY <2>1 DEF Ahead
    <3>. QED BY <1>1, <3>1
  <2>. QED BY <1>1, <1>3, <1>4, <1>5, <1>6, <1>10, <2>2
<1>11. CASE k = 5
  <2>1. k..Len(Plan["update"]) = {5, 6}
    BY <1>1, <1>11
  <2>2. Ahead("update", k) = {"wait", "config"}
    <3>1. Ahead("update", k) = {Plan["update"][j] : j \in {5, 6}}
      BY <2>1 DEF Ahead
    <3>. QED BY <1>1, <3>1
  <2>. QED BY <1>1, <1>3, <1>4, <1>5, <1>6, <1>11, <2>2
<1>12. CASE k = 6
  <2>1. k..Len(Plan["update"]) = {6}
    BY <1>1, <1>12
  <2>2. Ahead("update", k) = {"config"}
    <3>1. Ahead("update", k) = {Plan["update"][j] : j \in {6}}
      BY <2>1 DEF Ahead
    <3>. QED BY <1>1, <3>1
  <2>. QED BY <1>1, <1>3, <1>4, <1>5, <1>6, <1>12, <2>2
<1>. QED
  <2>1. k = 1 \/ k = 2 \/ k = 3 \/ k = 4 \/ k = 5 \/ k = 6
    BY <1>1, <1>2
  <2>. QED BY <2>1, <1>7, <1>8, <1>9, <1>10, <1>11, <1>12

LEMMA RestoreAhead ==
    ASSUME TypeOK, NEW q \in Request, mode[q] = "restore", todo[q] # <<>>
    PROVE  LET s == Head(todo[q]) IN
           \/ /\ s = "port" /\ Len(todo[q]) > 1 /\ todo[q] = Plan["restore"]
              /\ Remaining(q) = {"port", "unit", "reload", "start"}
           \/ /\ s = "unit" /\ Len(todo[q]) > 1 /\ todo[q] # Plan["restore"]
              /\ Remaining(q) = {"unit", "reload", "start"}
           \/ /\ s = "reload" /\ Len(todo[q]) > 1 /\ todo[q] # Plan["restore"]
              /\ Remaining(q) = {"reload", "start"}
           \/ /\ s = "start" /\ Len(todo[q]) = 1 /\ todo[q] # Plan["restore"]
              /\ Remaining(q) = {"start"}
<1>1. /\ Len(Plan["restore"]) = 4
      /\ Plan["restore"][1] = "port" /\ Plan["restore"][2] = "unit" /\ Plan["restore"][3] = "reload"
      /\ Plan["restore"][4] = "start"
  BY Plans
<1>2. PICK k \in 1..Len(Plan["restore"]) :
        /\ todo[q] = SubSeq(Plan["restore"], k, Len(Plan["restore"]))
        /\ Head(todo[q]) = Plan["restore"][k]
        /\ Len(todo[q]) = Len(Plan["restore"]) - k + 1
        /\ StepsOf(todo[q]) = Ahead("restore", k)
  BY Where
<1>3. Remaining(q) = StepsOf(todo[q]) /\ "restore" \in Mode
  BY Where
<1>4. /\ Head(todo[q]) = Plan["restore"][k] /\ Len(todo[q]) = Len(Plan["restore"]) - k + 1
      /\ StepsOf(todo[q]) = Ahead("restore", k)
  BY <1>2
<1>5. k = 1 => todo[q] = Plan["restore"]
  BY <1>2, <1>3, AllOfIt
<1>6. k # 1 => todo[q] # Plan["restore"]
  BY <1>1, <1>2, <1>4
<1>7. CASE k = 1
  <2>1. k..Len(Plan["restore"]) = {1, 2, 3, 4}
    BY <1>1, <1>7
  <2>2. Ahead("restore", k) = {"port", "unit", "reload", "start"}
    <3>1. Ahead("restore", k) = {Plan["restore"][j] : j \in {1, 2, 3, 4}}
      BY <2>1 DEF Ahead
    <3>. QED BY <1>1, <3>1
  <2>. QED BY <1>1, <1>3, <1>4, <1>5, <1>6, <1>7, <2>2
<1>8. CASE k = 2
  <2>1. k..Len(Plan["restore"]) = {2, 3, 4}
    BY <1>1, <1>8
  <2>2. Ahead("restore", k) = {"unit", "reload", "start"}
    <3>1. Ahead("restore", k) = {Plan["restore"][j] : j \in {2, 3, 4}}
      BY <2>1 DEF Ahead
    <3>. QED BY <1>1, <3>1
  <2>. QED BY <1>1, <1>3, <1>4, <1>5, <1>6, <1>8, <2>2
<1>9. CASE k = 3
  <2>1. k..Len(Plan["restore"]) = {3, 4}
    BY <1>1, <1>9
  <2>2. Ahead("restore", k) = {"reload", "start"}
    <3>1. Ahead("restore", k) = {Plan["restore"][j] : j \in {3, 4}}
      BY <2>1 DEF Ahead
    <3>. QED BY <1>1, <3>1
  <2>. QED BY <1>1, <1>3, <1>4, <1>5, <1>6, <1>9, <2>2
<1>10. CASE k = 4
  <2>1. k..Len(Plan["restore"]) = {4}
    BY <1>1, <1>10
  <2>2. Ahead("restore", k) = {"start"}
    <3>1. Ahead("restore", k) = {Plan["restore"][j] : j \in {4}}
      BY <2>1 DEF Ahead
    <3>. QED BY <1>1, <3>1
  <2>. QED BY <1>1, <1>3, <1>4, <1>5, <1>6, <1>10, <2>2
<1>. QED
  <2>1. k = 1 \/ k = 2 \/ k = 3 \/ k = 4
    BY <1>1, <1>2
  <2>. QED BY <2>1, <1>7, <1>8, <1>9, <1>10

LEMMA NothingAhead ==
    ASSUME TypeOK, NEW q \in Request, mode[q] = "idle"
    PROVE  todo[q] = <<>> /\ Remaining(q) = {}
<1>1. todo[q] = <<>>
  <2>1. Len(Plan["idle"]) = 0
    BY Plans
  <2>. QED BY <2>1, Where
<1>. QED BY <1>1 DEF Remaining

\* The same the other way round: the modes in which a step is next.
LEMMA AtConfig ==
    ASSUME TypeOK, NEW q \in Request, At(q, "config")
    PROVE  \/ /\ mode[q] = "adopt" /\ Len(todo[q]) = 1 /\ todo[q] = Plan["adopt"]
              /\ Remaining(q) = {"config"}
           \/ /\ mode[q] = "deploy" /\ Len(todo[q]) > 1 /\ todo[q] # Plan["deploy"]
              /\ Remaining(q) = {"config", "row", "reload", "start", "wait"}
           \/ /\ mode[q] = "revert" /\ Len(todo[q]) > 1 /\ todo[q] # Plan["revert"]
              /\ Remaining(q) = {"config", "reload", "start"}
           \/ /\ mode[q] = "clear" /\ Len(todo[q]) > 1 /\ todo[q] # Plan["clear"]
              /\ Remaining(q) = {"config", "fail"}
           \/ /\ mode[q] = "rollback" /\ Len(todo[q]) > 1 /\ todo[q] # Plan["rollback"]
              /\ Remaining(q) = {"config", "reload", "start", "wait", "mark"}
           \/ /\ mode[q] = "update" /\ Len(todo[q]) = 1 /\ todo[q] # Plan["update"]
              /\ Remaining(q) = {"config"}
<1>1. todo[q] # <<>> /\ Head(todo[q]) = "config"
  BY DEF At
<1>2. mode[q] \in Mode /\ mode[q] # "idle"
  BY <1>1, NothingAhead DEF TypeOK
<1>. QED BY <1>1, <1>2, Modes, AdoptAhead, DeployAhead, RevertAhead, ClearAhead,
            RollbackAhead, UpdateAhead, RestoreAhead

LEMMA AtLink ==
    ASSUME TypeOK, NEW q \in Request, At(q, "link")
    PROVE  \/ /\ mode[q] = "deploy" /\ Len(todo[q]) > 1 /\ todo[q] = Plan["deploy"]
              /\ Remaining(q) = {"link", "unit", "config", "row", "reload", "start", "wait"}
           \/ /\ mode[q] = "revert" /\ Len(todo[q]) > 1 /\ todo[q] = Plan["revert"]
              /\ Remaining(q) = {"link", "unit", "config", "reload", "start"}
           \/ /\ mode[q] = "rollback" /\ Len(todo[q]) > 1 /\ todo[q] = Plan["rollback"]
              /\ Remaining(q) = {"link", "unit", "config", "reload", "start", "wait", "mark"}
<1>1. todo[q] # <<>> /\ Head(todo[q]) = "link"
  BY DEF At
<1>2. mode[q] \in Mode /\ mode[q] # "idle"
  BY <1>1, NothingAhead DEF TypeOK
<1>. QED BY <1>1, <1>2, Modes, AdoptAhead, DeployAhead, RevertAhead, ClearAhead,
            RollbackAhead, UpdateAhead, RestoreAhead

LEMMA AtUnit ==
    ASSUME TypeOK, NEW q \in Request, At(q, "unit")
    PROVE  \/ /\ mode[q] = "deploy" /\ Len(todo[q]) > 1 /\ todo[q] # Plan["deploy"]
              /\ Remaining(q) = {"unit", "config", "row", "reload", "start", "wait"}
           \/ /\ mode[q] = "revert" /\ Len(todo[q]) > 1 /\ todo[q] # Plan["revert"]
              /\ Remaining(q) = {"unit", "config", "reload", "start"}
           \/ /\ mode[q] = "rollback" /\ Len(todo[q]) > 1 /\ todo[q] # Plan["rollback"]
              /\ Remaining(q) = {"unit", "config", "reload", "start", "wait", "mark"}
           \/ /\ mode[q] = "update" /\ Len(todo[q]) > 1 /\ todo[q] # Plan["update"]
              /\ Remaining(q) = {"unit", "reload", "start", "wait", "config"}
           \/ /\ mode[q] = "restore" /\ Len(todo[q]) > 1 /\ todo[q] # Plan["restore"]
              /\ Remaining(q) = {"unit", "reload", "start"}
<1>1. todo[q] # <<>> /\ Head(todo[q]) = "unit"
  BY DEF At
<1>2. mode[q] \in Mode /\ mode[q] # "idle"
  BY <1>1, NothingAhead DEF TypeOK
<1>. QED BY <1>1, <1>2, Modes, AdoptAhead, DeployAhead, RevertAhead, ClearAhead,
            RollbackAhead, UpdateAhead, RestoreAhead

LEMMA AtRow ==
    ASSUME TypeOK, NEW q \in Request, At(q, "row")
    PROVE  \/ /\ mode[q] = "deploy" /\ Len(todo[q]) > 1 /\ todo[q] # Plan["deploy"]
              /\ Remaining(q) = {"row", "reload", "start", "wait"}
<1>1. todo[q] # <<>> /\ Head(todo[q]) = "row"
  BY DEF At
<1>2. mode[q] \in Mode /\ mode[q] # "idle"
  BY <1>1, NothingAhead DEF TypeOK
<1>. QED BY <1>1, <1>2, Modes, AdoptAhead, DeployAhead, RevertAhead, ClearAhead,
            RollbackAhead, UpdateAhead, RestoreAhead

LEMMA AtReload ==
    ASSUME TypeOK, NEW q \in Request, At(q, "reload")
    PROVE  \/ /\ mode[q] = "deploy" /\ Len(todo[q]) > 1 /\ todo[q] # Plan["deploy"]
              /\ Remaining(q) = {"reload", "start", "wait"}
           \/ /\ mode[q] = "revert" /\ Len(todo[q]) > 1 /\ todo[q] # Plan["revert"]
              /\ Remaining(q) = {"reload", "start"}
           \/ /\ mode[q] = "clear" /\ Len(todo[q]) > 1 /\ todo[q] # Plan["clear"]
              /\ Remaining(q) = {"reload", "config", "fail"}
           \/ /\ mode[q] = "rollback" /\ Len(todo[q]) > 1 /\ todo[q] # Plan["rollback"]
              /\ Remaining(q) = {"reload", "start", "wait", "mark"}
           \/ /\ mode[q] = "update" /\ Len(todo[q]) > 1 /\ todo[q] # Plan["update"]
              /\ Remaining(q) = {"reload", "start", "wait", "config"}
           \/ /\ mode[q] = "restore" /\ Len(todo[q]) > 1 /\ todo[q] # Plan["restore"]
              /\ Remaining(q) = {"reload", "start"}
<1>1. todo[q] # <<>> /\ Head(todo[q]) = "reload"
  BY DEF At
<1>2. mode[q] \in Mode /\ mode[q] # "idle"
  BY <1>1, NothingAhead DEF TypeOK
<1>. QED BY <1>1, <1>2, Modes, AdoptAhead, DeployAhead, RevertAhead, ClearAhead,
            RollbackAhead, UpdateAhead, RestoreAhead

LEMMA AtStart ==
    ASSUME TypeOK, NEW q \in Request, At(q, "start")
    PROVE  \/ /\ mode[q] = "deploy" /\ Len(todo[q]) > 1 /\ todo[q] # Plan["deploy"]
              /\ Remaining(q) = {"start", "wait"}
           \/ /\ mode[q] = "revert" /\ Len(todo[q]) = 1 /\ todo[q] # Plan["revert"]
              /\ Remaining(q) = {"start"}
           \/ /\ mode[q] = "rollback" /\ Len(todo[q]) > 1 /\ todo[q] # Plan["rollback"]
              /\ Remaining(q) = {"start", "wait", "mark"}
           \/ /\ mode[q] = "update" /\ Len(todo[q]) > 1 /\ todo[q] # Plan["update"]
              /\ Remaining(q) = {"start", "wait", "config"}
           \/ /\ mode[q] = "restore" /\ Len(todo[q]) = 1 /\ todo[q] # Plan["restore"]
              /\ Remaining(q) = {"start"}
<1>1. todo[q] # <<>> /\ Head(todo[q]) = "start"
  BY DEF At
<1>2. mode[q] \in Mode /\ mode[q] # "idle"
  BY <1>1, NothingAhead DEF TypeOK
<1>. QED BY <1>1, <1>2, Modes, AdoptAhead, DeployAhead, RevertAhead, ClearAhead,
            RollbackAhead, UpdateAhead, RestoreAhead

LEMMA AtWait ==
    ASSUME TypeOK, NEW q \in Request, At(q, "wait")
    PROVE  \/ /\ mode[q] = "deploy" /\ Len(todo[q]) = 1 /\ todo[q] # Plan["deploy"]
              /\ Remaining(q) = {"wait"}
           \/ /\ mode[q] = "rollback" /\ Len(todo[q]) > 1 /\ todo[q] # Plan["rollback"]
              /\ Remaining(q) = {"wait", "mark"}
           \/ /\ mode[q] = "update" /\ Len(todo[q]) > 1 /\ todo[q] # Plan["update"]
              /\ Remaining(q) = {"wait", "config"}
<1>1. todo[q] # <<>> /\ Head(todo[q]) = "wait"
  BY DEF At
<1>2. mode[q] \in Mode /\ mode[q] # "idle"
  BY <1>1, NothingAhead DEF TypeOK
<1>. QED BY <1>1, <1>2, Modes, AdoptAhead, DeployAhead, RevertAhead, ClearAhead,
            RollbackAhead, UpdateAhead, RestoreAhead

LEMMA AtStop ==
    ASSUME TypeOK, NEW q \in Request, At(q, "stop")
    PROVE  \/ /\ mode[q] = "clear" /\ Len(todo[q]) > 1 /\ todo[q] = Plan["clear"]
              /\ Remaining(q) = {"stop", "remove", "reload", "config", "fail"}
<1>1. todo[q] # <<>> /\ Head(todo[q]) = "stop"
  BY DEF At
<1>2. mode[q] \in Mode /\ mode[q] # "idle"
  BY <1>1, NothingAhead DEF TypeOK
<1>. QED BY <1>1, <1>2, Modes, AdoptAhead, DeployAhead, RevertAhead, ClearAhead,
            RollbackAhead, UpdateAhead, RestoreAhead

LEMMA AtRemove ==
    ASSUME TypeOK, NEW q \in Request, At(q, "remove")
    PROVE  \/ /\ mode[q] = "clear" /\ Len(todo[q]) > 1 /\ todo[q] # Plan["clear"]
              /\ Remaining(q) = {"remove", "reload", "config", "fail"}
<1>1. todo[q] # <<>> /\ Head(todo[q]) = "remove"
  BY DEF At
<1>2. mode[q] \in Mode /\ mode[q] # "idle"
  BY <1>1, NothingAhead DEF TypeOK
<1>. QED BY <1>1, <1>2, Modes, AdoptAhead, DeployAhead, RevertAhead, ClearAhead,
            RollbackAhead, UpdateAhead, RestoreAhead

LEMMA AtFail ==
    ASSUME TypeOK, NEW q \in Request, At(q, "fail")
    PROVE  \/ /\ mode[q] = "clear" /\ Len(todo[q]) = 1 /\ todo[q] # Plan["clear"]
              /\ Remaining(q) = {"fail"}
<1>1. todo[q] # <<>> /\ Head(todo[q]) = "fail"
  BY DEF At
<1>2. mode[q] \in Mode /\ mode[q] # "idle"
  BY <1>1, NothingAhead DEF TypeOK
<1>. QED BY <1>1, <1>2, Modes, AdoptAhead, DeployAhead, RevertAhead, ClearAhead,
            RollbackAhead, UpdateAhead, RestoreAhead

LEMMA AtMark ==
    ASSUME TypeOK, NEW q \in Request, At(q, "mark")
    PROVE  \/ /\ mode[q] = "rollback" /\ Len(todo[q]) = 1 /\ todo[q] # Plan["rollback"]
              /\ Remaining(q) = {"mark"}
<1>1. todo[q] # <<>> /\ Head(todo[q]) = "mark"
  BY DEF At
<1>2. mode[q] \in Mode /\ mode[q] # "idle"
  BY <1>1, NothingAhead DEF TypeOK
<1>. QED BY <1>1, <1>2, Modes, AdoptAhead, DeployAhead, RevertAhead, ClearAhead,
            RollbackAhead, UpdateAhead, RestoreAhead

LEMMA AtPort ==
    ASSUME TypeOK, NEW q \in Request, At(q, "port")
    PROVE  \/ /\ mode[q] = "update" /\ Len(todo[q]) > 1 /\ todo[q] = Plan["update"]
              /\ Remaining(q) = {"port", "unit", "reload", "start", "wait", "config"}
           \/ /\ mode[q] = "restore" /\ Len(todo[q]) > 1 /\ todo[q] = Plan["restore"]
              /\ Remaining(q) = {"port", "unit", "reload", "start"}
<1>1. todo[q] # <<>> /\ Head(todo[q]) = "port"
  BY DEF At
<1>2. mode[q] \in Mode /\ mode[q] # "idle"
  BY <1>1, NothingAhead DEF TypeOK
<1>. QED BY <1>1, <1>2, Modes, AdoptAhead, DeployAhead, RevertAhead, ClearAhead,
            RollbackAhead, UpdateAhead, RestoreAhead

\* What remains are steps.
LEMMA StepTypes ==
    ASSUME TypeOK, NEW q \in Request
    PROVE  /\ Remaining(q) \subseteq StepName
           /\ todo[q] # <<>> => Head(todo[q]) \in StepName
<1>1. CASE todo[q] = <<>>
  BY <1>1 DEF Remaining
<1>2. CASE todo[q] # <<>>
  <2>1. PICK k \in 1..Len(Plan[mode[q]]) :
          /\ Head(todo[q]) = Plan[mode[q]][k]
          /\ StepsOf(todo[q]) = Ahead(mode[q], k)
    BY <1>2, Where
  <2>2. Plan[mode[q]] \in Seq(StepName) /\ Len(Plan[mode[q]]) \in Nat
    BY PlanIsSteps, Where
  <2>3. \A j \in 1..Len(Plan[mode[q]]) : Plan[mode[q]][j] \in StepName
    BY <2>2
  <2>4. Ahead(mode[q], k) \subseteq StepName
    BY <2>1, <2>2, <2>3 DEF Ahead
  <2>. QED BY <2>1, <2>3, <2>4, Where
<1>. QED BY <1>1, <1>2

\* The rest of a list is the end of a plan, too.
Suffix(q) == \E k \in 0..Len(Plan[mode[q]]) :
    todo[q] = SubSeq(Plan[mode[q]], k + 1, Len(Plan[mode[q]]))

\* Each of the ways todo[q] changes leaves the end of a plan: a step is done,
LEMMA TailIsSuffix ==
    ASSUME TypeOK, NEW q \in Request, todo[q] # <<>>,
           mode'[q] = mode[q], todo'[q] = Tail(todo[q])
    PROVE  /\ Suffix(q)'
           /\ Remaining(q)' = Remaining(q) \ {Head(todo[q])}
           /\ Len(todo[q]) > 1 => todo'[q] # <<>>
<1>. DEFINE m == mode[q]
<1>. DEFINE n == Len(Plan[m])
<1>. DEFINE l == todo[q]
<1>1. PICK k \in 1..n : l = SubSeq(Plan[m], k, n)
  BY Where
<1>2. m \in Mode /\ n \in Nat
  BY Where, PlanIsSteps
<1>3. Tail(l) = SubSeq(Plan[m], k + 1, n)
  <2>. HIDE DEF m, l
  <2>. QED BY <1>1, <1>2, EndOfPlan
<1>4. StepsOf(Tail(l)) = StepsOf(l) \ {Head(l)} /\ (Tail(l) = <<>> <=> Len(l) = 1)
  <2>. HIDE DEF m, l
  <2>. QED BY <1>1, <1>2, TailOfPlan
<1>5. Suffix(q)'
  <2>1. k \in 0..n
    BY <1>2
  <2>. QED BY <1>3, <2>1 DEF Suffix
<1>6. Remaining(q)' = StepsOf(todo'[q]) /\ Remaining(q) = StepsOf(todo[q])
  BY DEF Remaining, StepsOf
<1>7. Remaining(q)' = Remaining(q) \ {Head(todo[q])}
  BY <1>4, <1>6
<1>8. Len(todo[q]) > 1 => todo'[q] # <<>>
  <2>1. Len(todo[q]) > 1 => Len(todo[q]) # 1
    <3>1. todo[q] \in Seq(StepName)
      BY DEF TypeOK
    <3>2. Len(todo[q]) \in Nat
      BY <3>1
    <3>. QED BY <3>2, MoreThanOne, Zenon
  <2>. QED BY <1>4, <2>1, Zenon
<1>. QED BY <1>5, <1>7, <1>8

\* a plan is begun,
LEMMA WholeIsSuffix ==
    ASSUME NEW q \in Request, NEW m \in Mode, mode'[q] = m, todo'[q] = Plan[m]
    PROVE  Suffix(q)' /\ Remaining(q)' = StepsOf(Plan[m])
<1>1. 0 \in 0..Len(Plan[m])
  BY PlanIsSteps
<1>2. Remaining(q)' = StepsOf(todo'[q])
  BY DEF Remaining, StepsOf
<1>. QED BY <1>1, <1>2, AllOfIt DEF Suffix

\* a request is over, or
LEMMA IdleIsSuffix ==
    ASSUME NEW q \in Request, mode'[q] = "idle", todo'[q] = <<>>
    PROVE  Suffix(q)' /\ Remaining(q)' = {}
<1>1. "idle" \in Mode /\ todo'[q] = Plan["idle"] /\ StepsOf(Plan["idle"]) = {}
  BY Modes, Plans, AllSteps
<1>. QED BY <1>1, WholeIsSuffix

\* an update without an active release goes on with the last step of its plan.
LEMMA ConfigIsSuffix ==
    ASSUME NEW q \in Request, mode'[q] = "update", todo'[q] = <<"config">>
    PROVE  Suffix(q)' /\ Remaining(q)' = {"config"} /\ todo'[q] # <<>>
<1>. DEFINE l == SubSeq(Plan["update"], 6, Len(Plan["update"]))
<1>1. "update" \in Mode /\ Len(Plan["update"]) = 6 /\ Plan["update"][6] = "config"
  BY Modes, Plans
<1>2. 6 \in 1..Len(Plan["update"]) /\ 5 \in 0..Len(Plan["update"])
  BY <1>1
<1>3. l # <<>> /\ Head(l) = Plan["update"][6] /\ Len(l) = Len(Plan["update"]) - 6 + 1
  BY <1>1, <1>2, EndOfPlan
<1>4. l \in Seq(StepName)
  BY <1>1, <1>2, PlanIsSteps, SubSeqProperties
<1>. HIDE DEF l
<1>5. Len(l) = 1 /\ l[1] = "config"
  BY <1>1, <1>3, <1>4
<1>6. <<"config">> \in Seq(StepName) /\ Len(<<"config">>) = 1 /\ <<"config">>[1] = "config"
  BY DEF StepName
<1>7. \A i \in 1..Len(l) : l[i] = <<"config">>[i]
  BY <1>5, <1>6
<1>8. l = <<"config">>
  BY <1>4, <1>5, <1>6, <1>7, SeqEqual
<1>9. Suffix(q)'
  <2>1. todo'[q] = SubSeq(Plan["update"], 5 + 1, Len(Plan["update"]))
    <3>1. 5 + 1 = 6
      OBVIOUS
    <3>. QED BY <1>8, <3>1, Zenon DEF l
  <2>2. \E k \in 0..Len(Plan["update"]) :
          todo'[q] = SubSeq(Plan["update"], k + 1, Len(Plan["update"]))
    BY <1>2, <2>1
  <2>. QED BY <2>2 DEF Suffix
<1>10. Remaining(q)' = {"config"}
  <2>1. DOMAIN todo'[q] = {1}
    OBVIOUS
  <2>. QED BY <2>1 DEF Remaining
<1>. QED BY <1>9, <1>10

-----------------------------------------------------------------------------
\* What a request knows of its own work.
Sound(q) ==
    /\ Suffix(q)
    /\ next[q] = None <=> mode[q] = "idle"
    /\ mode[q] \in {"deploy", "rollback", "revert"} => next[q].active # None
    /\ mode[q] # "idle" => todo[q] # <<>>
    /\ mode[q] \notin {"idle", "adopt"} => before[q] # None
    /\ mode[q] = "update" =>
         /\ next[q].active = before[q].active
         /\ ~Owed(q, "port") /\ Owed(q, "wait") => next[q].active # None
    /\ mode[q] = "restore" => next[q] = before[q] /\ next[q].active # None

\* The type invariant with it is inductive.
Base == TypeOK /\ \A q \in Request : Sound(q)

\* Sound is about q alone.
LEMMA OthersKept ==
    ASSUME NEW r \in Request, Sound(r),
           mode'[r] = mode[r], todo'[r] = todo[r], next'[r] = next[r], before'[r] = before[r]
    PROVE  Sound(r)'
<1>1. Remaining(r)' = Remaining(r)
  BY DEF Remaining
<1>. QED BY <1>1 DEF Sound, Suffix, Owed

LEMMA IdleIsSound ==
    ASSUME NEW r \in Request, mode'[r] = "idle", todo'[r] = <<>>, next'[r] = None
    PROVE  Sound(r)'
  BY IdleIsSuffix DEF Sound

\* What a step on the list of q changes.
Tailed(q) ==
    /\ todo' = [todo EXCEPT ![q] = Tail(@)]
    /\ UNCHANGED <<mode, next, before, expired, answer>>

LEMMA TailedIsSound ==
    ASSUME Base, NEW q \in Request, todo[q] # <<>>, Len(todo[q]) > 1, Tailed(q),
           mode[q] = "update" /\ Head(todo[q]) = "port" => next[q].active # None
    PROVE  /\ \A r \in Request : Sound(r)'
           /\ Remaining(q)' = Remaining(q) \ {Head(todo[q])}
           /\ todo' \in [Request -> Seq(StepName)]
<1>1. todo'[q] = Tail(todo[q]) /\ todo' \in [Request -> Seq(StepName)]
  BY DEF Base, TypeOK, Tailed
<1>2. \A r \in Request : r # q => todo'[r] = todo[r]
  BY DEF Base, TypeOK, Tailed
<1>3. mode' = mode /\ next' = next /\ before' = before
  BY DEF Tailed
<1>4. Suffix(q)' /\ Remaining(q)' = Remaining(q) \ {Head(todo[q])} /\ todo'[q] # <<>>
  BY <1>1, <1>3, TailIsSuffix DEF Base
<1>5. Sound(q)'
  BY <1>3, <1>4 DEF Base, Sound, Owed
<1>6. \A r \in Request : r # q => Sound(r)'
  BY <1>2, <1>3, OthersKept DEF Base
<1>. QED BY <1>1, <1>4, <1>5, <1>6

\* A request is over.
Over(q) ==
    /\ mode' = [mode EXCEPT ![q] = "idle"] /\ todo' = [todo EXCEPT ![q] = <<>>]
    /\ next' = [next EXCEPT ![q] = None] /\ before' = [before EXCEPT ![q] = None]
    /\ expired' = [expired EXCEPT ![q] = FALSE]

LEMMA OverIsSound ==
    ASSUME Base, NEW q \in Request, Over(q)
    PROVE  /\ \A r \in Request : Sound(r)'
           /\ Remaining(q)' = {}
           /\ mode'[q] = "idle" /\ next'[q] = None /\ before'[q] = None
           /\ todo' \in [Request -> Seq(StepName)]
           /\ mode' \in [Request -> Mode]
           /\ next' \in [Request -> Config \cup {None}]
           /\ before' \in [Request -> Config \cup {None}]
           /\ expired' \in [Request -> BOOLEAN]
<1>1. /\ todo'[q] = <<>> /\ mode'[q] = "idle" /\ next'[q] = None /\ before'[q] = None
      /\ \A r \in Request : r # q => /\ todo'[r] = todo[r] /\ mode'[r] = mode[r]
                                     /\ next'[r] = next[r] /\ before'[r] = before[r]
  BY DEF Base, TypeOK, Over
<1>2. todo' \in [Request -> Seq(StepName)]
  <2>1. <<>> \in Seq(StepName)
    OBVIOUS
  <2>. QED BY <2>1 DEF Base, TypeOK, Over
<1>3. /\ mode' \in [Request -> Mode]
      /\ next' \in [Request -> Config \cup {None}]
      /\ before' \in [Request -> Config \cup {None}]
      /\ expired' \in [Request -> BOOLEAN]
  BY Modes DEF Base, TypeOK, Over
<1>4. Sound(q)'
  BY <1>1, IdleIsSound
<1>5. \A r \in Request : r # q => Sound(r)'
  BY <1>1, OthersKept DEF Base
<1>6. Remaining(q)' = {}
  BY <1>1, IdleIsSuffix
<1>. QED BY <1>1, <1>2, <1>3, <1>4, <1>5, <1>6

\* A request begins a plan, or turns to another.
Takes(q, m, n) ==
    /\ mode' = [mode EXCEPT ![q] = m]
    /\ todo' = [todo EXCEPT ![q] = Plan[m]]
    /\ next' = [next EXCEPT ![q] = n]

LEMMA TakesIsSound ==
    ASSUME Base, NEW q \in Request, NEW m \in Mode \ {"idle"}, NEW n \in Config, Takes(q, m, n),
           \/ before' = before
           \/ before' = [before EXCEPT ![q] = config],
           m \in {"deploy", "rollback", "revert"} => n.active # None,
           m # "adopt" => before'[q] # None,
           m = "update" => n.active = before'[q].active,
           m = "restore" => n = before'[q] /\ n.active # None
    PROVE  /\ \A r \in Request : Sound(r)'
           /\ Remaining(q)' = StepsOf(Plan[m])
           /\ mode'[q] = m /\ next'[q] = n
           /\ todo' \in [Request -> Seq(StepName)]
           /\ mode' \in [Request -> Mode]
           /\ next' \in [Request -> Config \cup {None}]
           /\ before' \in [Request -> Config \cup {None}]
<1>1. /\ todo'[q] = Plan[m] /\ mode'[q] = m /\ next'[q] = n
      /\ \A r \in Request : r # q => /\ todo'[r] = todo[r] /\ mode'[r] = mode[r]
                                     /\ next'[r] = next[r] /\ before'[r] = before[r]
  BY DEF Base, TypeOK, Takes
<1>2. todo' \in [Request -> Seq(StepName)]
  BY PlanIsSteps DEF Base, TypeOK, Takes
<1>3. /\ mode' \in [Request -> Mode]
      /\ next' \in [Request -> Config \cup {None}]
      /\ before' \in [Request -> Config \cup {None}]
  BY DEF Base, TypeOK, Takes
<1>4. Suffix(q)' /\ Remaining(q)' = StepsOf(Plan[m])
  BY <1>1, WholeIsSuffix
<1>5. Plan[m] # <<>>
  <2>1. Len(Plan["adopt"]) = 1 /\ Len(Plan["deploy"]) = 7 /\ Len(Plan["revert"]) = 5
        /\ Len(Plan["clear"]) = 5 /\ Len(Plan["rollback"]) = 7 /\ Len(Plan["update"]) = 6
        /\ Len(Plan["restore"]) = 4
    BY Plans
  <2>2. Len(Plan["adopt"]) # 0 /\ Len(Plan["deploy"]) # 0 /\ Len(Plan["revert"]) # 0
        /\ Len(Plan["clear"]) # 0 /\ Len(Plan["rollback"]) # 0 /\ Len(Plan["update"]) # 0
        /\ Len(Plan["restore"]) # 0
    BY <2>1
  <2>3. Len(Plan[m]) # 0
    <3>1. m \in {"adopt", "deploy", "revert", "clear", "rollback", "update", "restore"}
      BY Modes
    <3>. QED BY <2>2, <3>1, Zenon
  <2>4. Len(<<>>) = 0
    OBVIOUS
  <2>. QED BY <2>3, <2>4, Zenon
<1>6. n # None
  BY NodeReleaseAssumption DEF Config
<1>7. Sound(q)'
  <2>1. m = "update" => "port" \in Remaining(q)'
    BY <1>4, AllSteps
  <2>. QED BY <1>1, <1>4, <1>5, <1>6, <2>1 DEF Sound, Owed
<1>8. \A r \in Request : r # q => Sound(r)'
  BY <1>1, OthersKept DEF Base
<1>. QED BY <1>1, <1>2, <1>3, <1>4, <1>7, <1>8

-----------------------------------------------------------------------------
\* The conjuncts of Base about the requests' own variables.
Locality == /\ todo' \in [Request -> Seq(StepName)]
            /\ mode' \in [Request -> Mode]
            /\ next' \in [Request -> Config \cup {None}]
            /\ before' \in [Request -> Config \cup {None}]
            /\ expired' \in [Request -> BOOLEAN]
            /\ answer' \in [Request -> {"none", "ok", "error"}]
            /\ undone' \subseteq StepName
            /\ \A r \in Request : Sound(r)'

\* The steps of NodeRelease in these terms.
LEMMA ProceedSound ==
    ASSUME Base, NEW q \in Request, todo[q] # <<>>, NEW good, Proceed(q, good),
           mode[q] = "update" /\ Head(todo[q]) = "port" => next[q].active # None
    PROVE  /\ Locality
           /\ Len(todo[q]) > 1 => Tailed(q) /\ undone' = undone \ good
           /\ Len(todo[q]) = 1 => Over(q) /\ undone' = undone \ (good \cup Healed(q))
                                  /\ answer'[q] = IF mode[q] \in Undoing THEN "error" ELSE "ok"
<1>1. Len(todo[q]) \in Nat /\ Len(todo[q]) # 0 /\ (Len(todo[q]) > 1 => Len(todo[q]) # 1)
  <2>1. todo[q] \in Seq(StepName)
    BY DEF Base, TypeOK
  <2>2. Len(todo[q]) \in Nat
    BY <2>1
  <2>3. Len(todo[q]) # 0
    BY <2>1
  <2>. QED BY <2>2, <2>3, MoreThanOne, Zenon
<1>2. CASE Len(todo[q]) > 1
  <2>1. Tailed(q) /\ undone' = undone \ good
    BY <1>1, <1>2, Zenon DEF Proceed, Tailed
  <2>2. /\ \A r \in Request : Sound(r)'
        /\ todo' \in [Request -> Seq(StepName)]
    BY <1>2, <2>1, TailedIsSound
  <2>3. Locality
    BY <2>1, <2>2 DEF Locality, Base, TypeOK, Tailed
  <2>. QED BY <1>1, <1>2, <2>1, <2>3, Zenon
<1>3. CASE ~(Len(todo[q]) > 1)
  <2>1. /\ Len(todo[q]) = 1
        /\ Finish(q, IF mode[q] \in Undoing THEN "error" ELSE "ok")
        /\ undone' = undone \ (good \cup Healed(q))
    BY <1>1, <1>3 DEF Proceed
  <2>2. Over(q)
    BY <2>1 DEF Over, Finish
  <2>3. answer' = [answer EXCEPT ![q] = IF mode[q] \in Undoing THEN "error" ELSE "ok"]
    BY <2>1 DEF Finish
  <2>4. Locality
    BY <2>1, <2>2, <2>3, OverIsSound DEF Locality, Base, TypeOK
  <2>. QED BY <1>1, <1>3, <2>1, <2>2, <2>3, <2>4 DEF Base, TypeOK
<1>. QED BY <1>2, <1>3

LEMMA LeftUndoneIsSteps ==
    ASSUME TypeOK, NEW q \in Request PROVE LeftUndone(q) \subseteq StepName
  BY StepTypes DEF LeftUndone, StepName

LEMMA StopSound ==
    ASSUME Base, NEW q \in Request, Stop(q)
    PROVE  Locality /\ Over(q) /\ answer'[q] = "error" /\ undone' = undone \cup LeftUndone(q)
<1>1. Over(q)
  BY DEF Over, Stop, Finish
<1>2. answer' = [answer EXCEPT ![q] = "error"] /\ undone' = undone \cup LeftUndone(q)
  BY DEF Stop, Finish
<1>3. undone' \subseteq StepName
  BY <1>2, LeftUndoneIsSteps DEF Base, TypeOK
<1>4. answer' \in [Request -> {"none", "ok", "error"}] /\ answer'[q] = "error"
  BY <1>2 DEF Base, TypeOK
<1>. QED BY <1>1, <1>2, <1>3, <1>4, OverIsSound DEF Locality

LEMMA SkipSound ==
    ASSUME Base, NEW q \in Request, todo[q] # <<>>, Skip(q), mode[q] # "update"
    PROVE  /\ Locality
           /\ undone' = undone \cup {Head(todo[q])}
           /\ Len(todo[q]) > 1 => Tailed(q)
           /\ Len(todo[q]) = 1 => Over(q) /\ answer'[q] = "error"
<1>1. Len(todo[q]) \in Nat /\ Len(todo[q]) # 0 /\ (Len(todo[q]) > 1 => Len(todo[q]) # 1)
  <2>1. todo[q] \in Seq(StepName)
    BY DEF Base, TypeOK
  <2>2. Len(todo[q]) \in Nat
    BY <2>1
  <2>3. Len(todo[q]) # 0
    BY <2>1
  <2>. QED BY <2>2, <2>3, MoreThanOne, Zenon
<1>2. undone' = undone \cup {Head(todo[q])} /\ undone' \subseteq StepName
  BY StepTypes DEF Skip, Base, TypeOK
<1>3. CASE Len(todo[q]) > 1
  <2>1. Tailed(q)
    BY <1>1, <1>3, Zenon DEF Skip, Tailed
  <2>2. /\ \A r \in Request : Sound(r)'
        /\ todo' \in [Request -> Seq(StepName)]
    BY <1>3, <2>1, TailedIsSound
  <2>3. Locality
    BY <1>2, <2>1, <2>2 DEF Locality, Base, TypeOK, Tailed
  <2>. QED BY <1>1, <1>3, <1>2, <2>1, <2>3, Zenon
<1>4. CASE ~(Len(todo[q]) > 1)
  <2>1. Len(todo[q]) = 1 /\ Finish(q, "error")
    BY <1>1, <1>4 DEF Skip
  <2>2. Over(q)
    BY <2>1 DEF Over, Finish
  <2>3. answer' = [answer EXCEPT ![q] = "error"]
    BY <2>1 DEF Finish
  <2>4. Locality
    BY <1>2, <2>2, <2>3, OverIsSound DEF Locality, Base, TypeOK
  <2>. QED BY <1>1, <1>4, <1>2, <2>1, <2>2, <2>3, <2>4 DEF Base, TypeOK
<1>. QED BY <1>3, <1>4

LEMMA TurnSound ==
    ASSUME Base, NEW q \in Request, NEW m \in Undoing, NEW n \in Config, Turn(q, m, n),
           before[q] # None,
           m = "revert" => n.active # None,
           m = "restore" => n = before[q] /\ n.active # None
    PROVE  Locality /\ Takes(q, m, n) /\ before' = before
<1>1. Takes(q, m, n) /\ before' = before /\ m \in Mode \ {"idle"}
  BY Modes DEF Takes, Turn, Undoing
<1>2. m # "adopt" /\ m # "update" /\ m # "deploy" /\ m # "rollback"
  BY DEF Undoing
<1>3. /\ \A r \in Request : Sound(r)'
      /\ todo' \in [Request -> Seq(StepName)]
      /\ mode' \in [Request -> Mode]
      /\ next' \in [Request -> Config \cup {None}]
      /\ before' \in [Request -> Config \cup {None}]
  BY <1>1, <1>2, TakesIsSound
<1>4. expired' = expired /\ answer' = answer /\ undone' = undone
  BY DEF Turn
<1>. QED BY <1>1, <1>3, <1>4 DEF Locality, Base, TypeOK

\* The configurations a failed deploy turns to.
Back(q) == [active |-> before[q].active, previous |-> next[q].active, port |-> next[q].port]
Away(q) == [active |-> None, previous |-> next[q].active, port |-> next[q].port]

\* What comes of a step that fails.
LEMMA NotDoneCases ==
    ASSUME Base, NEW q \in Request, todo[q] # <<>>, NotDone(q)
    PROVE  /\ Locality
           /\ \/ /\ \/ mode[q] \in {"adopt", "rollback", "revert", "deploy"}
                    \/ mode[q] = "update" /\ Head(todo[q]) \in {"port", "config"}
                    \/ mode[q] = "clear" /\ Head(todo[q]) = "config"
                 /\ mode[q] = "deploy" =>
                      \/ Head(todo[q]) \in {"link", "unit", "config", "row"}
                      \/ /\ before[q].active # None /\ rows[before[q].active] = "none"
                         /\ Head(todo[q]) \in {"reload", "start", "wait"}
                 /\ Over(q) /\ answer'[q] = "error" /\ undone' = undone \cup LeftUndone(q)
              \/ /\ mode[q] = "deploy" /\ Head(todo[q]) \in {"reload", "start", "wait"}
                 /\ before' = before /\ undone' = undone
                 /\ \/ before[q].active = None /\ Takes(q, "clear", Away(q))
                    \/ /\ before[q].active # None /\ rows[before[q].active] # "none"
                       /\ Takes(q, "revert", Back(q))
              \/ /\ mode[q] = "update" /\ Head(todo[q]) \in {"unit", "reload", "start", "wait"}
                 /\ before' = before /\ undone' = undone
                 /\ Takes(q, "restore", before[q])
              \/ /\ \/ mode[q] = "restore"
                    \/ mode[q] = "clear" /\ Head(todo[q]) # "config"
                 /\ undone' = undone \cup {Head(todo[q])}
                 /\ Len(todo[q]) > 1 => Tailed(q)
                 /\ Len(todo[q]) = 1 => Over(q) /\ answer'[q] = "error"
<1>1. /\ mode[q] \in Mode /\ Sound(q)
      /\ next[q] \in Config \cup {None} /\ before[q] \in Config \cup {None}
  BY DEF Base, TypeOK
<1>2. CASE /\ \/ mode[q] \in {"adopt", "rollback", "revert"}
              \/ mode[q] = "deploy" /\ Head(todo[q]) \in {"link", "unit", "config", "row"}
              \/ mode[q] = "update" /\ Head(todo[q]) \in {"port", "config"}
              \/ mode[q] = "clear" /\ Head(todo[q]) = "config"
           /\ Stop(q)
  <2>1. Locality /\ Over(q) /\ answer'[q] = "error" /\ undone' = undone \cup LeftUndone(q)
    BY <1>2, StopSound
  <2>. QED BY <1>2, <2>1
<1>3. CASE /\ mode[q] = "deploy" /\ Head(todo[q]) \in {"reload", "start", "wait"}
           /\ before[q].active = None /\ Turn(q, "clear", Away(q))
  <2>1. Away(q) \in Config /\ before[q] # None /\ "clear" \in Undoing
    BY <1>1, <1>3 DEF Away, Config, Sound, Undoing
  <2>2. Locality /\ Takes(q, "clear", Away(q)) /\ before' = before
    BY <1>3, <2>1, TurnSound
  <2>. QED BY <1>3, <2>2 DEF Turn
<1>4. CASE /\ mode[q] = "deploy" /\ Head(todo[q]) \in {"reload", "start", "wait"}
           /\ before[q].active # None /\ rows[before[q].active] # "none"
           /\ Turn(q, "revert", Back(q))
  <2>1. Back(q) \in Config /\ before[q] # None /\ "revert" \in Undoing /\ Back(q).active # None
    BY <1>1, <1>4 DEF Back, Config, Sound, Undoing
  <2>2. Locality /\ Takes(q, "revert", Back(q)) /\ before' = before
    BY <1>4, <2>1, TurnSound
  <2>. QED BY <1>4, <2>2 DEF Turn
<1>5. CASE /\ mode[q] = "deploy" /\ Head(todo[q]) \in {"reload", "start", "wait"}
           /\ before[q].active # None /\ rows[before[q].active] = "none" /\ Stop(q)
  <2>1. Locality /\ Over(q) /\ answer'[q] = "error" /\ undone' = undone \cup LeftUndone(q)
    BY <1>5, StopSound
  <2>. QED BY <1>5, <2>1
<1>6. CASE /\ mode[q] = "update" /\ Head(todo[q]) \in {"unit", "reload", "start", "wait"}
           /\ Turn(q, "restore", before[q])
  <2>1. "port" \notin Remaining(q) /\ "wait" \in Remaining(q)
    BY <1>6, UpdateAhead DEF Base
  <2>2. before[q] \in Config /\ before[q] # None /\ before[q].active # None /\ "restore" \in Undoing
    BY <1>1, <1>6, <2>1 DEF Sound, Undoing, Owed
  <2>3. Locality /\ Takes(q, "restore", before[q]) /\ before' = before
    BY <1>6, <2>2, TurnSound
  <2>. QED BY <1>6, <2>3 DEF Turn
<1>7. CASE /\ \/ mode[q] = "restore"
              \/ mode[q] = "clear" /\ Head(todo[q]) # "config"
           /\ Skip(q)
  <2>1. /\ Locality
        /\ undone' = undone \cup {Head(todo[q])}
        /\ Len(todo[q]) > 1 => Tailed(q)
        /\ Len(todo[q]) = 1 => Over(q) /\ answer'[q] = "error"
    BY <1>7, SkipSound
  <2>. QED BY <1>7, <2>1
<1>8. \/ /\ \/ mode[q] \in {"adopt", "rollback", "revert"}
            \/ mode[q] = "deploy" /\ Head(todo[q]) \in {"link", "unit", "config", "row"}
            \/ mode[q] = "update" /\ Head(todo[q]) \in {"port", "config"}
            \/ mode[q] = "clear" /\ Head(todo[q]) = "config"
         /\ Stop(q)
      \/ /\ mode[q] = "deploy" /\ Head(todo[q]) \in {"reload", "start", "wait"}
         /\ before[q].active = None /\ Turn(q, "clear", Away(q))
      \/ /\ mode[q] = "deploy" /\ Head(todo[q]) \in {"reload", "start", "wait"}
         /\ before[q].active # None /\ rows[before[q].active] # "none"
         /\ Turn(q, "revert", Back(q))
      \/ /\ mode[q] = "deploy" /\ Head(todo[q]) \in {"reload", "start", "wait"}
         /\ before[q].active # None /\ rows[before[q].active] = "none" /\ Stop(q)
      \/ /\ mode[q] = "update" /\ Head(todo[q]) \in {"unit", "reload", "start", "wait"}
         /\ Turn(q, "restore", before[q])
      \/ /\ \/ mode[q] = "restore"
            \/ mode[q] = "clear" /\ Head(todo[q]) # "config"
         /\ Skip(q)
  <2>1. ASSUME before[q].active = None, mode[q] = "deploy",
               Head(todo[q]) \in {"reload", "start", "wait"}
        PROVE  Turn(q, "clear", Away(q))
    BY <2>1 DEF NotDone, Away
  <2>2. ASSUME before[q].active # None, mode[q] = "deploy", rows[before[q].active] # "none",
               Head(todo[q]) \in {"reload", "start", "wait"}
        PROVE  Turn(q, "revert", Back(q))
    BY <2>2 DEF NotDone, Back
  <2>3. ASSUME before[q].active # None, mode[q] = "deploy", rows[before[q].active] = "none",
               Head(todo[q]) \in {"reload", "start", "wait"}
        PROVE  Stop(q)
    BY <2>3 DEF NotDone
  <2>4. ASSUME ~(mode[q] = "deploy" /\ Head(todo[q]) \in {"reload", "start", "wait"})
        PROVE  \/ /\ \/ mode[q] \in {"adopt", "rollback", "revert"}
                     \/ mode[q] = "deploy" /\ Head(todo[q]) \in {"link", "unit", "config", "row"}
                     \/ mode[q] = "update" /\ Head(todo[q]) \in {"port", "config"}
                     \/ mode[q] = "clear" /\ Head(todo[q]) = "config"
                  /\ Stop(q)
               \/ /\ mode[q] = "update" /\ Head(todo[q]) \in {"unit", "reload", "start", "wait"}
                  /\ Turn(q, "restore", before[q])
               \/ /\ \/ mode[q] = "restore"
                     \/ mode[q] = "clear" /\ Head(todo[q]) # "config"
                  /\ Skip(q)
    BY <2>4 DEF NotDone
  <2>. QED BY <2>1, <2>2, <2>3, <2>4
<1>. QED BY <1>2, <1>3, <1>4, <1>5, <1>6, <1>7, <1>8

-----------------------------------------------------------------------------
\* What of the type a request's own variables do not say.
GlobalType ==
    /\ config \in Config \cup {None}
    /\ rows \in [Release -> {"none", "active", "previous", "failed"}]
    /\ current \in Release \cup {None}
    /\ unit \in Unit \cup {None} /\ loaded \in Unit \cup {None}
    /\ process \in Process \cup {None}
    /\ cloudPanelPort \in Port
    /\ faults \in 0..MaxFaults

LEMMA BaseParts ==
    ASSUME Locality, GlobalType' PROVE Base'
  BY DEF Locality, GlobalType, Base, TypeOK, Sound, Suffix

LEMMA BaseGlobal == ASSUME Base PROVE GlobalType
  BY DEF Base, TypeOK, GlobalType

LEMMA FailType == ASSUME Base, NEW kind, Fail(kind) PROVE faults' \in 0..MaxFaults
  BY NodeReleaseAssumption DEF Base, TypeOK, Fail

LEMMA UnitTypes ==
    ASSUME NEW n \in Config, n.active # None PROVE UnitOf(n) \in Unit
  BY DEF UnitOf, Config, Unit

LEMMA StartingTypes ==
    ASSUME NEW u \in Unit PROVE Starting(u) \in Process
  BY DEF Starting, Unit, Process

\* Requests that stay out of a step.
LEMMA LocalsKept ==
    ASSUME Base, UNCHANGED <<Locals, undone>>
    PROVE  Locality
<1>1. \A r \in Request : Sound(r)'
  BY OthersKept DEF Base, Locals
<1>. QED BY <1>1 DEF Locality, Base, TypeOK, Locals

LEMMA BeginSound ==
    ASSUME Base, NEW q \in Request, NEW m \in Mode \ {"idle"}, NEW n \in Config, Begin(q, m, n),
           m \in {"deploy", "rollback", "revert"} => n.active # None,
           m # "adopt" => config # None,
           m = "update" => n.active = config.active,
           m # "restore"
    PROVE  /\ Locality /\ Takes(q, m, n)
           /\ before' = [before EXCEPT ![q] = config] /\ before'[q] = config
<1>1. Takes(q, m, n) /\ before' = [before EXCEPT ![q] = config] /\ before'[q] = config
  BY DEF Takes, Begin, Base, TypeOK
<1>2. /\ \A r \in Request : Sound(r)'
      /\ todo' \in [Request -> Seq(StepName)]
      /\ mode' \in [Request -> Mode]
      /\ next' \in [Request -> Config \cup {None}]
      /\ before' \in [Request -> Config \cup {None}]
  BY <1>1, TakesIsSound
<1>3. expired' = expired /\ answer' \in [Request -> {"none", "ok", "error"}] /\ undone' = undone
  BY DEF Begin, Base, TypeOK
<1>. QED BY <1>1, <1>2, <1>3 DEF Locality, Base, TypeOK

\* Each action keeps Base.
LEMMA AdoptBase == ASSUME Base, NEW q \in Request, Adopt(q) PROVE Base'
<1>. DEFINE n == [active |-> None, previous |-> None, port |-> cloudPanelPort]
<1>1. n \in Config /\ "adopt" \in Mode \ {"idle"} /\ Begin(q, "adopt", n)
  BY Modes DEF Base, TypeOK, Config, Adopt
<1>2. Locality
  <2>. HIDE DEF n
  <2>. QED BY <1>1, BeginSound
<1>3. GlobalType'
  BY BaseGlobal DEF GlobalType, Adopt, Tables, Files, Systemd
<1>. QED BY <1>2, <1>3, BaseParts

LEMMA DeployBase == ASSUME Base, NEW q \in Request, Deploy(q) PROVE Base'
<1>1. PICK x \in Release :
        Begin(q, "deploy", [active |-> x, previous |-> config.active, port |-> config.port])
  BY DEF Deploy
<1>. DEFINE n == [active |-> x, previous |-> config.active, port |-> config.port]
<1>2. n \in Config /\ "deploy" \in Mode \ {"idle"} /\ n.active # None /\ config # None
  BY Modes, NodeReleaseAssumption DEF Base, TypeOK, Config, Deploy
<1>3. Locality
  <2>1. Begin(q, "deploy", n)
    BY <1>1
  <2>. HIDE DEF n
  <2>. QED BY <1>2, <2>1, BeginSound
<1>4. GlobalType'
  BY BaseGlobal DEF GlobalType, Deploy, Tables, Files, Systemd
<1>. QED BY <1>3, <1>4, BaseParts

LEMMA RollbackBase == ASSUME Base, NEW q \in Request, Rollback(q) PROVE Base'
<1>. DEFINE n == [active |-> config.previous, previous |-> config.active, port |-> config.port]
<1>1. n \in Config /\ "rollback" \in Mode \ {"idle"} /\ n.active # None /\ config # None
  BY Modes, NodeReleaseAssumption DEF Base, TypeOK, Config, Rollback
<1>2. Locality
  <2>1. Begin(q, "rollback", n)
    BY DEF Rollback
  <2>. HIDE DEF n
  <2>. QED BY <1>1, <2>1, BeginSound
<1>3. GlobalType'
  BY BaseGlobal DEF GlobalType, Rollback, Tables, Files, Systemd
<1>. QED BY <1>2, <1>3, BaseParts

LEMMA UpdateBase == ASSUME Base, NEW q \in Request, Update(q) PROVE Base'
<1>1. PICK p \in Port : Begin(q, "update", [config EXCEPT !.port = p])
  BY DEF Update
<1>. DEFINE n == [config EXCEPT !.port = p]
<1>2. n \in Config /\ "update" \in Mode \ {"idle"} /\ n.active = config.active /\ config # None
  BY Modes, NodeReleaseAssumption DEF Base, TypeOK, Config, Update
<1>3. Locality
  <2>1. Begin(q, "update", n)
    BY <1>1
  <2>. HIDE DEF n
  <2>. QED BY <1>2, <2>1, BeginSound
<1>4. GlobalType'
  BY BaseGlobal DEF GlobalType, Update, Tables, Files, Systemd
<1>. QED BY <1>3, <1>4, BaseParts

\* A step of q: the facts every one of them starts from.
LEMMA StepFacts ==
    ASSUME Base, NEW q \in Request, NEW s, At(q, s)
    PROVE  /\ todo[q] # <<>> /\ Head(todo[q]) = s /\ mode[q] \in Mode \ {"idle"}
           /\ next[q] \in Config /\ before[q] \in Config \cup {None} /\ Sound(q)
  BY NothingAhead DEF Base, TypeOK, At, Sound

LEMMA LinkBase == ASSUME Base, NEW q \in Request, Link(q) PROVE Base'
<1>1. /\ todo[q] # <<>> /\ Head(todo[q]) = "link" /\ next[q] \in Config
      /\ Sound(q) /\ mode[q] # "idle"
  BY StepFacts DEF Link
<1>2. Locality
  BY <1>1, ProceedSound DEF Link
<1>3. GlobalType'
  BY <1>1, BaseGlobal DEF GlobalType, Link, Tables, Files, Systemd, Config
<1>. QED BY <1>2, <1>3, BaseParts

LEMMA WriteUnitBase == ASSUME Base, NEW q \in Request, WriteUnit(q) PROVE Base'
<1>1. /\ todo[q] # <<>> /\ Head(todo[q]) = "unit" /\ next[q] \in Config
      /\ Sound(q) /\ mode[q] # "idle"
  BY StepFacts DEF WriteUnit
<1>2. Locality
  BY <1>1, ProceedSound DEF WriteUnit
<1>3. GlobalType'
  <2>1. next[q].active # None
    <3>1. mode[q] \in {"deploy", "rollback", "revert", "update", "restore"}
      BY AtUnit DEF WriteUnit, Base
    <3>2. mode[q] = "update" => ~Owed(q, "port") /\ Owed(q, "wait")
      BY AtUnit DEF WriteUnit, Base, Owed
    <3>. QED BY <1>1, <3>1, <3>2 DEF Sound
  <2>2. UnitOf(next[q]) \in Unit
    BY <1>1, <2>1, UnitTypes
  <2>. QED BY <2>2, BaseGlobal DEF GlobalType, WriteUnit, Tables, Files, Systemd
<1>. QED BY <1>2, <1>3, BaseParts

LEMMA RemoveUnitBase == ASSUME Base, NEW q \in Request, RemoveUnit(q) PROVE Base'
<1>1. /\ todo[q] # <<>> /\ Head(todo[q]) = "remove" /\ next[q] \in Config
      /\ Sound(q) /\ mode[q] # "idle"
  BY StepFacts DEF RemoveUnit
<1>2. Locality
  BY <1>1, ProceedSound DEF RemoveUnit
<1>3. GlobalType'
  BY BaseGlobal DEF GlobalType, RemoveUnit, Tables, Files, Systemd
<1>. QED BY <1>2, <1>3, BaseParts

LEMMA PutConfigBase == ASSUME Base, NEW q \in Request, PutConfig(q) PROVE Base'
<1>1. /\ todo[q] # <<>> /\ Head(todo[q]) = "config" /\ next[q] \in Config
      /\ Sound(q) /\ mode[q] # "idle"
  BY StepFacts DEF PutConfig
<1>2. Locality
  BY <1>1, ProceedSound DEF PutConfig
<1>3. GlobalType'
  BY <1>1, BaseGlobal DEF GlobalType, PutConfig, Tables, Files, Systemd, Config
<1>. QED BY <1>2, <1>3, BaseParts

LEMMA InsertRowBase == ASSUME Base, NEW q \in Request, InsertRow(q) PROVE Base'
<1>1. /\ todo[q] # <<>> /\ Head(todo[q]) = "row" /\ next[q] \in Config
      /\ Sound(q) /\ mode[q] # "idle"
  BY StepFacts DEF InsertRow
<1>2. Locality
  BY <1>1, ProceedSound DEF InsertRow
<1>3. GlobalType'
  BY BaseGlobal DEF GlobalType, InsertRow, Tables, Files, Systemd
<1>. QED BY <1>2, <1>3, BaseParts

LEMMA ReadyBase == ASSUME Base, NEW q \in Request, Ready(q) PROVE Base'
<1>1. /\ todo[q] # <<>> /\ Head(todo[q]) = "wait" /\ next[q] \in Config
      /\ Sound(q) /\ mode[q] # "idle"
  BY StepFacts DEF Ready
<1>2. Locality
  BY <1>1, ProceedSound DEF Ready
<1>3. GlobalType'
  BY BaseGlobal DEF GlobalType, Ready, Tables, Files, Systemd
<1>. QED BY <1>2, <1>3, BaseParts

LEMMA ReleaseUnavailableBase == ASSUME Base, NEW q \in Request, ReleaseUnavailable(q) PROVE Base'
<1>1. Locality
  BY StopSound DEF ReleaseUnavailable
<1>2. GlobalType'
  BY BaseGlobal DEF GlobalType, ReleaseUnavailable, Tables, Files, Systemd
<1>. QED BY <1>1, <1>2, BaseParts

LEMMA WriteFailsBase == ASSUME Base, NEW q \in Request, WriteFails(q) PROVE Base'
<1>1. todo[q] # <<>> /\ NotDone(q)
  BY DEF WriteFails, At
<1>2. Locality
  BY <1>1, NotDoneCases
<1>3. faults' \in 0..MaxFaults
  BY FailType DEF WriteFails
<1>4. GlobalType'
  BY <1>3, BaseGlobal DEF GlobalType, WriteFails, Tables, Files, Systemd
<1>. QED BY <1>2, <1>4, BaseParts

LEMMA MarkRowsBase == ASSUME Base, NEW q \in Request, MarkRows(q) PROVE Base'
<1>1. todo[q] # <<>> /\ Head(todo[q]) \in {"mark", "fail"}
  BY DEF MarkRows, At
<1>2. Locality
  BY <1>1, ProceedSound DEF MarkRows
<1>3. rows' \in [Release -> {"none", "active", "previous", "failed"}]
  BY DEF MarkRows, Base, TypeOK
<1>4. GlobalType'
  BY <1>3, BaseGlobal DEF GlobalType, MarkRows, Tables, Files, Systemd
<1>. QED BY <1>2, <1>4, BaseParts

LEMMA RowsNotMarkedBase == ASSUME Base, NEW q \in Request, RowsNotMarked(q) PROVE Base'
<1>1. todo[q] # <<>> /\ Head(todo[q]) \in {"mark", "fail"}
  BY DEF RowsNotMarked, At
<1>2. Locality
  BY <1>1, ProceedSound DEF RowsNotMarked
<1>3. faults' \in 0..MaxFaults
  BY FailType DEF RowsNotMarked
<1>4. GlobalType'
  BY <1>3, BaseGlobal DEF GlobalType, RowsNotMarked, Tables, Files, Systemd
<1>. QED BY <1>2, <1>4, BaseParts

\* An update that nothing runs for goes straight to its last step.
LEMMA ShortUpdateSound ==
    ASSUME Base, NEW q \in Request, At(q, "port"), next[q].active = None,
           todo' = [todo EXCEPT ![q] = <<"config">>],
           UNCHANGED <<mode, next, before, expired, answer, undone>>
    PROVE  Locality /\ Remaining(q)' = {"config"} /\ mode[q] = "update"
<1>1. mode[q] \in {"update", "restore"} /\ Sound(q)
  BY AtPort DEF Base
<1>2. mode[q] = "update"
  BY <1>1 DEF Sound
<1>3. mode'[q] = "update" /\ todo'[q] = <<"config">>
  BY <1>2 DEF Base, TypeOK
<1>4. Suffix(q)' /\ Remaining(q)' = {"config"} /\ todo'[q] # <<>>
  BY <1>3, ConfigIsSuffix
<1>5. Sound(q)'
  BY <1>1, <1>2, <1>4 DEF Sound, Owed
<1>6. \A r \in Request : r # q => Sound(r)'
  BY OthersKept DEF Base, TypeOK
<1>7. todo' \in [Request -> Seq(StepName)]
  BY DEF Base, TypeOK, StepName
<1>. QED BY <1>2, <1>4, <1>5, <1>6, <1>7 DEF Locality, Base, TypeOK

LEMMA SetPortBase == ASSUME Base, NEW q \in Request, SetPort(q) PROVE Base'
<1>1. todo[q] # <<>> /\ Head(todo[q]) = "port" /\ next[q] \in Config
  BY StepFacts DEF SetPort
<1>2. Locality
  <2>1. CASE next[q].active # None /\ Proceed(q, {})
    BY <1>1, <2>1, ProceedSound
  <2>2. CASE ~(next[q].active # None /\ Proceed(q, {}))
    BY <2>2, ShortUpdateSound DEF SetPort
  <2>. QED BY <2>1, <2>2
<1>3. GlobalType'
  BY <1>1, BaseGlobal DEF GlobalType, SetPort, Tables, Files, Systemd, Config
<1>. QED BY <1>2, <1>3, BaseParts

LEMMA SetPortFailsBase == ASSUME Base, NEW q \in Request, SetPortFails(q) PROVE Base'
<1>1. todo[q] # <<>> /\ NotDone(q)
  BY DEF SetPortFails, At
<1>2. Locality
  BY <1>1, NotDoneCases
<1>3. faults' \in 0..MaxFaults
  BY FailType DEF SetPortFails, Base, TypeOK
<1>4. GlobalType'
  BY <1>3, BaseGlobal DEF GlobalType, SetPortFails, Tables, Files, Systemd
<1>. QED BY <1>2, <1>4, BaseParts

LEMMA SetPortHalfWayBase == ASSUME Base, NEW q \in Request, SetPortHalfWay(q) PROVE Base'
<1>1. todo[q] # <<>> /\ next[q] \in Config
  BY StepFacts DEF SetPortHalfWay
<1>2. Locality
  <2>1. CASE Finish(q, "error") /\ undone' = undone \cup {"port"}
    <3>1. Over(q) /\ answer' = [answer EXCEPT ![q] = "error"]
      BY <2>1 DEF Over, Finish
    <3>2. undone' \subseteq StepName /\ answer' \in [Request -> {"none", "ok", "error"}]
      BY <2>1, <3>1 DEF Base, TypeOK, StepName
    <3>. QED BY <3>1, <3>2, OverIsSound DEF Locality
  <2>2. CASE mode[q] = "restore" /\ Skip(q)
    BY <1>1, <2>2, SkipSound
  <2>. QED BY <2>1, <2>2 DEF SetPortHalfWay
<1>3. faults' \in 0..MaxFaults
  BY FailType DEF SetPortHalfWay, Base, TypeOK
<1>4. GlobalType'
  BY <1>1, <1>3, BaseGlobal DEF GlobalType, SetPortHalfWay, Tables, Files, Systemd, Config
<1>. QED BY <1>2, <1>4, BaseParts

LEMMA EffectType ==
    ASSUME Base, NEW q \in Request, Effect(q)
    PROVE  loaded' \in Unit \cup {None} /\ process' \in Process \cup {None}
<1>1. Known \in Unit \cup {None}
  BY DEF Known, Base, TypeOK
<1>2. Known # None => Starting(Known) \in Process
  BY <1>1, StartingTypes
<1>. QED BY <1>1, <1>2 DEF Effect, Base, TypeOK

LEMMA SystemctlBase == ASSUME Base, NEW q \in Request, Systemctl(q) PROVE Base'
<1>1. todo[q] # <<>> /\ Head(todo[q]) \in {"reload", "start", "stop"}
  BY DEF Systemctl, Effect, At
<1>2. Locality
  BY <1>1, ProceedSound DEF Systemctl
<1>3. loaded' \in Unit \cup {None} /\ process' \in Process \cup {None}
  BY EffectType DEF Systemctl
<1>4. GlobalType'
  BY <1>3, BaseGlobal DEF GlobalType, Systemctl, Tables, Files, Systemd
<1>. QED BY <1>2, <1>4, BaseParts

LEMMA SystemctlFailsBase == ASSUME Base, NEW q \in Request, SystemctlFails(q) PROVE Base'
<1>1. todo[q] # <<>> /\ NotDone(q)
  BY DEF SystemctlFails, At
<1>2. Locality
  BY <1>1, NotDoneCases
<1>3. loaded' \in Unit \cup {None} /\ process' \in Process \cup {None}
  BY EffectType DEF SystemctlFails, Systemd, Base, TypeOK
<1>4. faults' \in 0..MaxFaults
  BY FailType DEF SystemctlFails, Base, TypeOK
<1>5. GlobalType'
  BY <1>3, <1>4, BaseGlobal DEF GlobalType, SystemctlFails, Tables, Files
<1>. QED BY <1>2, <1>5, BaseParts

LEMMA NotReadyBase == ASSUME Base, NEW q \in Request, NotReady(q) PROVE Base'
<1>1. todo[q] # <<>> /\ NotDone(q)
  BY DEF NotReady, At
<1>2. Locality
  BY <1>1, NotDoneCases
<1>3. GlobalType'
  BY BaseGlobal DEF GlobalType, NotReady, Tables, Files, Systemd
<1>. QED BY <1>2, <1>3, BaseParts

LEMMA RestartBase == ASSUME Base, Restart PROVE Base'
<1>1. Known \in Unit
  BY DEF Restart, Known, Base, TypeOK
<1>2. Starting(Known) \in Process
  BY <1>1, StartingTypes
<1>3. GlobalType'
  BY <1>1, <1>2, BaseGlobal DEF GlobalType, Restart, Tables, Files
<1>. QED BY <1>3, LocalsKept, BaseParts DEF Restart

LEMMA ProcessBase == ASSUME Base, Listen \/ Exit \/ ComeBack PROVE Base'
<1>1. process' \in Process \cup {None}
  <2>1. CASE Listen
    BY <2>1, NodeReleaseAssumption DEF Listen, Base, TypeOK, Process
  <2>2. CASE Exit
    BY <2>2, NodeReleaseAssumption DEF Exit, Active, Base, TypeOK, Process
  <2>3. CASE ComeBack
    BY <2>3, StartingTypes DEF ComeBack, Base, TypeOK
  <2>. QED BY <2>1, <2>2, <2>3
<1>2. GlobalType'
  BY <1>1, BaseGlobal DEF GlobalType, Listen, Exit, ComeBack, Tables, Files
<1>. QED BY <1>2, LocalsKept, BaseParts DEF Listen, Exit, ComeBack

LEMMA ExpireBase == ASSUME Base, NEW q \in Request, Expire(q) PROVE Base'
<1>1. Locality
  BY OthersKept DEF Expire, Locality, Base, TypeOK
<1>2. faults' \in 0..MaxFaults
  BY FailType DEF Expire
<1>3. GlobalType'
  BY <1>2, BaseGlobal DEF GlobalType, Expire, Tables, Files, Systemd
<1>. QED BY <1>1, <1>3, BaseParts

LEMMA CrashBase == ASSUME Base, Crash PROVE Base'
<1>1. \A r \in Request : Sound(r)'
  BY IdleIsSound DEF Crash
<1>2. undone' \subseteq StepName
  BY LeftUndoneIsSteps DEF Crash, Base, TypeOK
<1>3. todo' \in [Request -> Seq(StepName)]
  <2>1. <<>> \in Seq(StepName)
    OBVIOUS
  <2>. QED BY <2>1 DEF Crash
<1>4. Locality
  BY <1>1, <1>2, <1>3, Modes DEF Crash, Locality
<1>5. faults' \in 0..MaxFaults
  BY FailType DEF Crash
<1>6. GlobalType'
  BY <1>5, BaseGlobal DEF GlobalType, Crash, Tables, Files, Systemd
<1>. QED BY <1>4, <1>6, BaseParts

LEMMA StutterBase == ASSUME Base, UNCHANGED vars PROVE Base'
<1>1. UNCHANGED <<Locals, undone>>
  BY DEF vars, Locals
<1>2. GlobalType'
  BY BaseGlobal DEF GlobalType, vars
<1>. QED BY <1>1, <1>2, LocalsKept, BaseParts

LEMMA BaseInit == ASSUME Init PROVE Base
<1>1. ASSUME NEW q \in Request PROVE Sound(q)
  <2>1. 0 \in 0..Len(Plan["idle"]) /\ <<>> = SubSeq(Plan["idle"], 0 + 1, Len(Plan["idle"]))
    <3>1. "idle" \in Mode /\ Plan["idle"] = <<>> /\ Len(Plan["idle"]) = 0
      BY Modes, Plans
    <3>. QED BY <3>1, AllOfIt
  <2>2. mode[q] = "idle" /\ todo[q] = <<>> /\ next[q] = None
    BY DEF Init
  <2>. QED BY <2>1, <2>2 DEF Sound, Suffix
<1>2. todo \in [Request -> Seq(StepName)]
  <2>1. <<>> \in Seq(StepName)
    OBVIOUS
  <2>. QED BY <2>1 DEF Init
<1>3. GlobalType
  BY NodeReleaseAssumption DEF Init, GlobalType
<1>4. "idle" \in Mode
  BY Modes
<1>. QED BY <1>1, <1>2, <1>3, <1>4 DEF Base, TypeOK, GlobalType, Init, Sound, Suffix

\* Every step keeps Base.
LEMMA BaseNext == ASSUME Base, [Next]_vars PROVE Base'
<1>1. CASE UNCHANGED vars
  BY <1>1, StutterBase
<1>2. CASE Next
  <2>1. ASSUME NEW q \in Request, Operation(q) PROVE Base'
    BY <2>1, AdoptBase, DeployBase, RollbackBase, UpdateBase DEF Operation
  <2>2. ASSUME NEW q \in Request, Step(q) PROVE Base'
    BY <2>2, LinkBase, WriteUnitBase, ReleaseUnavailableBase, RemoveUnitBase,
       PutConfigBase, InsertRowBase, WriteFailsBase, MarkRowsBase, RowsNotMarkedBase,
       SetPortBase, SetPortFailsBase, SetPortHalfWayBase, SystemctlBase,
       SystemctlFailsBase, ReadyBase, NotReadyBase DEF Step
  <2>. QED BY <1>2, <2>1, <2>2, ExpireBase, RestartBase, ProcessBase, CrashBase DEF Next
<1>. QED BY <1>1, <1>2

-----------------------------------------------------------------------------
\* One operation at a time: the helper has no lock that would enforce it, and with
\* two of them the properties below do not hold.
Alone == \E q : Request = {q}

\* On the way to another release, what is done is done for the next configuration.
Switching(q) ==
    mode[q] \in {"deploy", "rollback", "revert"} =>
        /\ ~Owed(q, "link") => current = next[q].active
        /\ ~Owed(q, "unit") => unit = UnitOf(next[q])
        /\ ~Owed(q, "config") => config = next[q]

\* The configuration an operation works towards, the one it began with and the
\* one on record.
Aims(q) ==
    /\ mode[q] \notin {"idle", "adopt"} => config # None
    /\ mode[q] = "adopt" =>
         /\ config = None /\ before[q] = None
         /\ next[q].active = None /\ next[q].previous = None
    /\ mode[q] \in {"deploy", "rollback"} =>
         /\ Owed(q, "config") => config = before[q]
         /\ next[q].previous = before[q].active
         /\ next[q].port = before[q].port
    /\ mode[q] = "rollback" => next[q].active = before[q].previous
    /\ mode[q] = "revert" =>
         /\ next[q].active = before[q].active
         /\ next[q].port = before[q].port
         /\ config.port = next[q].port
    /\ mode[q] = "clear" =>
         /\ before[q].active = None
         /\ next[q].active = None
         /\ next[q].previous # None
         /\ next[q].port = before[q].port
         /\ config.port = next[q].port
         /\ ~Owed(q, "config") => config.active = None /\ config.previous = None
    /\ mode[q] = "update" =>
         /\ config = before[q]
         /\ next[q].active = config.active
         /\ next[q].previous = config.previous
    /\ mode[q] = "restore" => config = before[q]

\* Unit and link are those of the configuration.
Matches ==
    /\ config = None => unit = None
    /\ config # None /\ config.active = None => unit = None
    /\ config # None /\ config.active # None => unit = UnitOf(config) /\ current = config.active

\* The same in the middle of an operation.
InUnit(q) ==
    /\ mode[q] = "adopt" => Matches
    /\ mode[q] \in {"deploy", "rollback"} /\ Owed(q, "link") => Matches
    /\ mode[q] = "update" =>
         /\ config.active = None => unit = None
         /\ config.active # None =>
              /\ current = config.active
              /\ Owed(q, "unit") => unit = UnitOf(config)
              /\ ~Owed(q, "unit") => unit = UnitOf(next[q])
    /\ mode[q] = "restore" =>
         /\ current = config.active
         /\ ~Owed(q, "unit") => unit = UnitOf(config)
    /\ mode[q] = "clear" /\ ~Owed(q, "remove") => unit = None

Whole == Intact({"link", "unit", "config", "remove"})

\* At rest unit and link follow the configuration.
UnitInv(q) ==
    Whole =>
        /\ InUnit(q)
        /\ mode[q] = "idle" => Matches

\* A unit that systemd has not read is one that the request still has to reload.
ReadInv(q) ==
    "reload" \notin undone =>
        \/ loaded = unit
        \/ /\ Owed(q, "reload")
           /\ \/ ~Owed(q, "unit")
              \/ mode[q] \in Undoing

\* Whatever is referred to is on record, but for the release that a deploy is
\* about to record.
OnRecord(x) == x # None => rows[x] # "none"

RowInv(q) ==
    /\ mode[q] \in {"revert", "clear"} =>
         OnRecord(next[q].active) /\ rows[next[q].previous] # "none"
    /\ mode[q] = "deploy" /\ ~Owed(q, "row") => OnRecord(next[q].active)
    /\ "row" \notin undone =>
        /\ config # None =>
             /\ OnRecord(config.previous)
             /\ \/ OnRecord(config.active)
                \/ mode[q] = "deploy" /\ Owed(q, "row") /\ config = next[q]
        /\ mode[q] \notin {"idle", "adopt"} =>
             /\ OnRecord(before[q].active) /\ OnRecord(before[q].previous)
             /\ OnRecord(next[q].previous)
             /\ mode[q] # "deploy" => OnRecord(next[q].active)

\* CloudPanel's port is the recorded one, but for the one an update still owes.
PortInv(q) ==
    /\ mode[q] = "adopt" => cloudPanelPort = next[q].port
    /\ mode[q] = "update" /\ ~Owed(q, "port") => cloudPanelPort = next[q].port
    /\ "port" \notin undone =>
         /\ mode[q] = "restore" /\ ~Owed(q, "port") => cloudPanelPort = next[q].port
         /\ mode[q] = "update" /\ Owed(q, "port") => cloudPanelPort = config.port
         /\ mode[q] \in {"deploy", "rollback", "revert", "clear"} => cloudPanelPort = config.port
         /\ mode[q] = "idle" /\ config # None => cloudPanelPort = config.port

InvOf(q) == Switching(q) /\ Aims(q) /\ UnitInv(q) /\ ReadInv(q) /\ RowInv(q) /\ PortInv(q)

\* All of it; each action keeps it for the one request there is.
Inv == Base /\ \A q \in Request : InvOf(q)

-----------------------------------------------------------------------------
\* A step done, in terms of what remains.
LEMMA ProceedMoves ==
    ASSUME Base, NEW q \in Request, todo[q] # <<>>, NEW good, Proceed(q, good),
           mode[q] = "update" /\ Head(todo[q]) = "port" => next[q].active # None
    PROVE  /\ Len(todo[q]) > 1 =>
                /\ mode'[q] = mode[q] /\ next'[q] = next[q] /\ before'[q] = before[q]
                /\ Remaining(q)' = Remaining(q) \ {Head(todo[q])}
                /\ undone' = undone \ good
           /\ Len(todo[q]) = 1 =>
                /\ mode'[q] = "idle" /\ next'[q] = None /\ before'[q] = None
                /\ Remaining(q)' = {}
                /\ undone' = undone \ (good \cup Healed(q))
                /\ answer'[q] = IF mode[q] \in Undoing THEN "error" ELSE "ok"
<1>1. /\ Len(todo[q]) > 1 => Tailed(q) /\ undone' = undone \ good
      /\ Len(todo[q]) = 1 => Over(q) /\ undone' = undone \ (good \cup Healed(q))
                             /\ answer'[q] = IF mode[q] \in Undoing THEN "error" ELSE "ok"
  BY ProceedSound
<1>2. CASE Len(todo[q]) > 1
  <2>1. Tailed(q) /\ undone' = undone \ good
    BY <1>1, <1>2
  <2>2. Remaining(q)' = Remaining(q) \ {Head(todo[q])}
    BY <1>2, <2>1, TailedIsSound
  <2>3. Len(todo[q]) # 1
    <3>1. todo[q] \in Seq(StepName)
      BY DEF Base, TypeOK
    <3>2. Len(todo[q]) \in Nat
      BY <3>1
    <3>. QED BY <1>2, <3>2, MoreThanOne, Zenon
  <2>. QED BY <2>1, <2>2, <2>3 DEF Tailed
<1>3. CASE Len(todo[q]) = 1
  <2>1. Over(q) /\ undone' = undone \ (good \cup Healed(q))
        /\ answer'[q] = IF mode[q] \in Undoing THEN "error" ELSE "ok"
    BY <1>1, <1>3
  <2>2. mode'[q] = "idle" /\ next'[q] = None /\ before'[q] = None /\ Remaining(q)' = {}
    BY <2>1, OverIsSound
  <2>3. ~(Len(todo[q]) > 1)
    <3>1. ~(1 > 1)
      OBVIOUS
    <3>. QED BY <1>3, <3>1, Zenon
  <2>. QED BY <2>1, <2>2, <2>3
<1>. QED BY <1>2, <1>3

LEMMA OverMoves ==
    ASSUME Base, NEW q \in Request, Over(q)
    PROVE  mode'[q] = "idle" /\ next'[q] = None /\ before'[q] = None /\ Remaining(q)' = {}
  BY OverIsSound

\* Each step that succeeds keeps InvOf, mode by mode.
LEMMA LinkInv ==
    ASSUME Base, NEW q \in Request, InvOf(q), Link(q)
    PROVE  InvOf(q)'
<1>1. /\ At(q, "link") /\ todo[q] # <<>> /\ Head(todo[q]) = "link"
      /\ next[q] \in Config /\ before[q] \in Config \cup {None} /\ Sound(q)
      /\ config \in Config \cup {None}
  BY StepFacts, BaseGlobal DEF Link, GlobalType
<1>2. PICK good : Proceed(q, good) /\ good = {}
  BY <1>1 DEF Link
<1>3. mode[q] = "update" /\ Head(todo[q]) = "port" => next[q].active # None
  BY <1>1
<1>4. CASE mode[q] = "deploy"
  <2>1. /\ Remaining(q) = {"link", "unit", "config", "row", "reload", "start", "wait"}
        /\ Len(todo[q]) > 1
    BY <1>1, <1>4, AtLink DEF Base
  <2>2. /\ mode'[q] = "deploy" /\ next'[q] = next[q] /\ before'[q] = before[q]
        /\ Remaining(q)' = Remaining(q) \ {Head(todo[q])}
        /\ undone' = undone \ good
    BY <1>1, <1>2, <1>3, <1>4, <2>1, ProceedMoves
  <2>3. Remaining(q)' = {"unit", "config", "row", "reload", "start", "wait"}
    BY <1>1, <2>1, <2>2
  <2>4. undone' = undone
    BY <1>2, <2>2
  <2>5. Switching(q)'
    BY <1>1, <1>4, <2>1, <2>2, <2>3, <2>4 DEF InvOf, Link, Tables, Files, Systemd,
       Switching, Owed, UnitOf, Aims
  <2>6. Aims(q)'
    BY <1>1, <1>4, <2>1, <2>2, <2>3, <2>4 DEF InvOf, Link, Tables, Files, Systemd, Aims,
       Owed, Sound, Switching
  <2>7. UnitInv(q)'
    BY <1>1, <1>4, <2>1, <2>2, <2>3, <2>4 DEF InvOf, Link, Tables, Files, Systemd,
       UnitInv, Whole, Intact, InUnit, Matches, UnitOf, Owed, Switching, Aims, Sound
  <2>8. ReadInv(q)'
    BY <1>1, <1>4, <2>1, <2>2, <2>3, <2>4 DEF InvOf, Link, Tables, Files, Systemd,
       ReadInv, Owed, Undoing
  <2>9. RowInv(q)'
    BY <1>1, <1>4, <2>1, <2>2, <2>3, <2>4 DEF InvOf, Link, Tables, Files, Systemd,
       RowInv, OnRecord, Owed, Aims, Switching, Sound
  <2>10. PortInv(q)'
    BY <1>1, <1>4, <2>1, <2>2, <2>3, <2>4 DEF InvOf, Link, Tables, Files, Systemd,
       PortInv, Owed, Aims, Switching, Sound
  <2>. QED BY <2>5, <2>6, <2>7, <2>8, <2>9, <2>10 DEF InvOf
<1>5. CASE mode[q] = "revert"
  <2>1. Remaining(q) = {"link", "unit", "config", "reload", "start"} /\ Len(todo[q]) > 1
    BY <1>1, <1>5, AtLink DEF Base
  <2>2. /\ mode'[q] = "revert" /\ next'[q] = next[q] /\ before'[q] = before[q]
        /\ Remaining(q)' = Remaining(q) \ {Head(todo[q])}
        /\ undone' = undone \ good
    BY <1>1, <1>2, <1>3, <1>5, <2>1, ProceedMoves
  <2>3. Remaining(q)' = {"unit", "config", "reload", "start"}
    BY <1>1, <2>1, <2>2
  <2>4. undone' = undone
    BY <1>2, <2>2
  <2>5. Switching(q)'
    BY <1>1, <1>5, <2>1, <2>2, <2>3, <2>4 DEF InvOf, Link, Tables, Files, Systemd,
       Switching, Owed, UnitOf, Aims
  <2>6. Aims(q)'
    BY <1>1, <1>5, <2>1, <2>2, <2>3, <2>4 DEF InvOf, Link, Tables, Files, Systemd, Aims,
       Owed, Sound, Switching
  <2>7. UnitInv(q)'
    BY <1>1, <1>5, <2>1, <2>2, <2>3, <2>4 DEF InvOf, Link, Tables, Files, Systemd,
       UnitInv, Whole, Intact, InUnit, Matches, UnitOf, Owed, Switching, Aims, Sound
  <2>8. ReadInv(q)'
    BY <1>1, <1>5, <2>1, <2>2, <2>3, <2>4 DEF InvOf, Link, Tables, Files, Systemd,
       ReadInv, Owed, Undoing
  <2>9. RowInv(q)'
    BY <1>1, <1>5, <2>1, <2>2, <2>3, <2>4 DEF InvOf, Link, Tables, Files, Systemd,
       RowInv, OnRecord, Owed, Aims, Switching, Sound
  <2>10. PortInv(q)'
    BY <1>1, <1>5, <2>1, <2>2, <2>3, <2>4 DEF InvOf, Link, Tables, Files, Systemd,
       PortInv, Owed, Aims, Switching, Sound
  <2>. QED BY <2>5, <2>6, <2>7, <2>8, <2>9, <2>10 DEF InvOf
<1>6. CASE mode[q] = "rollback"
  <2>1. /\ Remaining(q) = {"link", "unit", "config", "reload", "start", "wait", "mark"}
        /\ Len(todo[q]) > 1
    BY <1>1, <1>6, AtLink DEF Base
  <2>2. /\ mode'[q] = "rollback" /\ next'[q] = next[q] /\ before'[q] = before[q]
        /\ Remaining(q)' = Remaining(q) \ {Head(todo[q])}
        /\ undone' = undone \ good
    BY <1>1, <1>2, <1>3, <1>6, <2>1, ProceedMoves
  <2>3. Remaining(q)' = {"unit", "config", "reload", "start", "wait", "mark"}
    BY <1>1, <2>1, <2>2
  <2>4. undone' = undone
    BY <1>2, <2>2
  <2>5. Switching(q)'
    BY <1>1, <1>6, <2>1, <2>2, <2>3, <2>4 DEF InvOf, Link, Tables, Files, Systemd,
       Switching, Owed, UnitOf, Aims
  <2>6. Aims(q)'
    BY <1>1, <1>6, <2>1, <2>2, <2>3, <2>4 DEF InvOf, Link, Tables, Files, Systemd, Aims,
       Owed, Sound, Switching
  <2>7. UnitInv(q)'
    BY <1>1, <1>6, <2>1, <2>2, <2>3, <2>4 DEF InvOf, Link, Tables, Files, Systemd,
       UnitInv, Whole, Intact, InUnit, Matches, UnitOf, Owed, Switching, Aims, Sound
  <2>8. ReadInv(q)'
    BY <1>1, <1>6, <2>1, <2>2, <2>3, <2>4 DEF InvOf, Link, Tables, Files, Systemd,
       ReadInv, Owed, Undoing
  <2>9. RowInv(q)'
    BY <1>1, <1>6, <2>1, <2>2, <2>3, <2>4 DEF InvOf, Link, Tables, Files, Systemd,
       RowInv, OnRecord, Owed, Aims, Switching, Sound
  <2>10. PortInv(q)'
    BY <1>1, <1>6, <2>1, <2>2, <2>3, <2>4 DEF InvOf, Link, Tables, Files, Systemd,
       PortInv, Owed, Aims, Switching, Sound
  <2>. QED BY <2>5, <2>6, <2>7, <2>8, <2>9, <2>10 DEF InvOf
<1>. QED BY <1>1, AtLink, <1>4, <1>5, <1>6 DEF Base

LEMMA WriteUnitInv ==
    ASSUME Base, NEW q \in Request, InvOf(q), WriteUnit(q)
    PROVE  InvOf(q)'
<1>1. /\ At(q, "unit") /\ todo[q] # <<>> /\ Head(todo[q]) = "unit"
      /\ next[q] \in Config /\ before[q] \in Config \cup {None} /\ Sound(q)
      /\ config \in Config \cup {None}
  BY StepFacts, BaseGlobal DEF WriteUnit, GlobalType
<1>2. PICK good : Proceed(q, good) /\ good = {}
  BY <1>1 DEF WriteUnit
<1>3. mode[q] = "update" /\ Head(todo[q]) = "port" => next[q].active # None
  BY <1>1
<1>4. CASE mode[q] = "deploy"
  <2>1. /\ Remaining(q) = {"unit", "config", "row", "reload", "start", "wait"}
        /\ Len(todo[q]) > 1
    BY <1>1, <1>4, AtUnit DEF Base
  <2>2. /\ mode'[q] = "deploy" /\ next'[q] = next[q] /\ before'[q] = before[q]
        /\ Remaining(q)' = Remaining(q) \ {Head(todo[q])}
        /\ undone' = undone \ good
    BY <1>1, <1>2, <1>3, <1>4, <2>1, ProceedMoves
  <2>3. Remaining(q)' = {"config", "row", "reload", "start", "wait"}
    BY <1>1, <2>1, <2>2
  <2>4. undone' = undone
    BY <1>2, <2>2
  <2>5. Switching(q)'
    BY <1>1, <1>4, <2>1, <2>2, <2>3, <2>4 DEF InvOf, WriteUnit, Tables, Files, Systemd,
       Switching, Owed, UnitOf, Aims
  <2>6. Aims(q)'
    BY <1>1, <1>4, <2>1, <2>2, <2>3, <2>4 DEF InvOf, WriteUnit, Tables, Files, Systemd,
       Aims, Owed, Sound, Switching
  <2>7. UnitInv(q)'
    BY <1>1, <1>4, <2>1, <2>2, <2>3, <2>4 DEF InvOf, WriteUnit, Tables, Files, Systemd,
       UnitInv, Whole, Intact, InUnit, Matches, UnitOf, Owed, Switching, Aims, Sound
  <2>8. ReadInv(q)'
    BY <1>1, <1>4, <2>1, <2>2, <2>3, <2>4 DEF InvOf, WriteUnit, Tables, Files, Systemd,
       ReadInv, Owed, Undoing
  <2>9. RowInv(q)'
    BY <1>1, <1>4, <2>1, <2>2, <2>3, <2>4 DEF InvOf, WriteUnit, Tables, Files, Systemd,
       RowInv, OnRecord, Owed, Aims, Switching, Sound
  <2>10. PortInv(q)'
    BY <1>1, <1>4, <2>1, <2>2, <2>3, <2>4 DEF InvOf, WriteUnit, Tables, Files, Systemd,
       PortInv, Owed, Aims, Switching, Sound
  <2>. QED BY <2>5, <2>6, <2>7, <2>8, <2>9, <2>10 DEF InvOf
<1>5. CASE mode[q] = "revert"
  <2>1. Remaining(q) = {"unit", "config", "reload", "start"} /\ Len(todo[q]) > 1
    BY <1>1, <1>5, AtUnit DEF Base
  <2>2. /\ mode'[q] = "revert" /\ next'[q] = next[q] /\ before'[q] = before[q]
        /\ Remaining(q)' = Remaining(q) \ {Head(todo[q])}
        /\ undone' = undone \ good
    BY <1>1, <1>2, <1>3, <1>5, <2>1, ProceedMoves
  <2>3. Remaining(q)' = {"config", "reload", "start"}
    BY <1>1, <2>1, <2>2
  <2>4. undone' = undone
    BY <1>2, <2>2
  <2>5. Switching(q)'
    BY <1>1, <1>5, <2>1, <2>2, <2>3, <2>4 DEF InvOf, WriteUnit, Tables, Files, Systemd,
       Switching, Owed, UnitOf, Aims
  <2>6. Aims(q)'
    BY <1>1, <1>5, <2>1, <2>2, <2>3, <2>4 DEF InvOf, WriteUnit, Tables, Files, Systemd,
       Aims, Owed, Sound, Switching
  <2>7. UnitInv(q)'
    BY <1>1, <1>5, <2>1, <2>2, <2>3, <2>4 DEF InvOf, WriteUnit, Tables, Files, Systemd,
       UnitInv, Whole, Intact, InUnit, Matches, UnitOf, Owed, Switching, Aims, Sound
  <2>8. ReadInv(q)'
    BY <1>1, <1>5, <2>1, <2>2, <2>3, <2>4 DEF InvOf, WriteUnit, Tables, Files, Systemd,
       ReadInv, Owed, Undoing
  <2>9. RowInv(q)'
    BY <1>1, <1>5, <2>1, <2>2, <2>3, <2>4 DEF InvOf, WriteUnit, Tables, Files, Systemd,
       RowInv, OnRecord, Owed, Aims, Switching, Sound
  <2>10. PortInv(q)'
    BY <1>1, <1>5, <2>1, <2>2, <2>3, <2>4 DEF InvOf, WriteUnit, Tables, Files, Systemd,
       PortInv, Owed, Aims, Switching, Sound
  <2>. QED BY <2>5, <2>6, <2>7, <2>8, <2>9, <2>10 DEF InvOf
<1>6. CASE mode[q] = "rollback"
  <2>1. /\ Remaining(q) = {"unit", "config", "reload", "start", "wait", "mark"}
        /\ Len(todo[q]) > 1
    BY <1>1, <1>6, AtUnit DEF Base
  <2>2. /\ mode'[q] = "rollback" /\ next'[q] = next[q] /\ before'[q] = before[q]
        /\ Remaining(q)' = Remaining(q) \ {Head(todo[q])}
        /\ undone' = undone \ good
    BY <1>1, <1>2, <1>3, <1>6, <2>1, ProceedMoves
  <2>3. Remaining(q)' = {"config", "reload", "start", "wait", "mark"}
    BY <1>1, <2>1, <2>2
  <2>4. undone' = undone
    BY <1>2, <2>2
  <2>5. Switching(q)'
    BY <1>1, <1>6, <2>1, <2>2, <2>3, <2>4 DEF InvOf, WriteUnit, Tables, Files, Systemd,
       Switching, Owed, UnitOf, Aims
  <2>6. Aims(q)'
    BY <1>1, <1>6, <2>1, <2>2, <2>3, <2>4 DEF InvOf, WriteUnit, Tables, Files, Systemd,
       Aims, Owed, Sound, Switching
  <2>7. UnitInv(q)'
    BY <1>1, <1>6, <2>1, <2>2, <2>3, <2>4 DEF InvOf, WriteUnit, Tables, Files, Systemd,
       UnitInv, Whole, Intact, InUnit, Matches, UnitOf, Owed, Switching, Aims, Sound
  <2>8. ReadInv(q)'
    BY <1>1, <1>6, <2>1, <2>2, <2>3, <2>4 DEF InvOf, WriteUnit, Tables, Files, Systemd,
       ReadInv, Owed, Undoing
  <2>9. RowInv(q)'
    BY <1>1, <1>6, <2>1, <2>2, <2>3, <2>4 DEF InvOf, WriteUnit, Tables, Files, Systemd,
       RowInv, OnRecord, Owed, Aims, Switching, Sound
  <2>10. PortInv(q)'
    BY <1>1, <1>6, <2>1, <2>2, <2>3, <2>4 DEF InvOf, WriteUnit, Tables, Files, Systemd,
       PortInv, Owed, Aims, Switching, Sound
  <2>. QED BY <2>5, <2>6, <2>7, <2>8, <2>9, <2>10 DEF InvOf
<1>7. CASE mode[q] = "update"
  <2>1. Remaining(q) = {"unit", "reload", "start", "wait", "config"} /\ Len(todo[q]) > 1
    BY <1>1, <1>7, AtUnit DEF Base
  <2>2. /\ mode'[q] = "update" /\ next'[q] = next[q] /\ before'[q] = before[q]
        /\ Remaining(q)' = Remaining(q) \ {Head(todo[q])}
        /\ undone' = undone \ good
    BY <1>1, <1>2, <1>3, <1>7, <2>1, ProceedMoves
  <2>3. Remaining(q)' = {"reload", "start", "wait", "config"}
    BY <1>1, <2>1, <2>2
  <2>4. undone' = undone
    BY <1>2, <2>2
  <2>5. Switching(q)'
    BY <1>1, <1>7, <2>1, <2>2, <2>3, <2>4 DEF InvOf, WriteUnit, Tables, Files, Systemd,
       Switching, Owed, UnitOf, Aims
  <2>6. Aims(q)'
    BY <1>1, <1>7, <2>1, <2>2, <2>3, <2>4 DEF InvOf, WriteUnit, Tables, Files, Systemd,
       Aims, Owed, Sound, Switching
  <2>7. UnitInv(q)'
    BY <1>1, <1>7, <2>1, <2>2, <2>3, <2>4 DEF InvOf, WriteUnit, Tables, Files, Systemd,
       UnitInv, Whole, Intact, InUnit, Matches, UnitOf, Owed, Switching, Aims, Sound
  <2>8. ReadInv(q)'
    BY <1>1, <1>7, <2>1, <2>2, <2>3, <2>4 DEF InvOf, WriteUnit, Tables, Files, Systemd,
       ReadInv, Owed, Undoing
  <2>9. RowInv(q)'
    BY <1>1, <1>7, <2>1, <2>2, <2>3, <2>4 DEF InvOf, WriteUnit, Tables, Files, Systemd,
       RowInv, OnRecord, Owed, Aims, Switching, Sound
  <2>10. PortInv(q)'
    BY <1>1, <1>7, <2>1, <2>2, <2>3, <2>4 DEF InvOf, WriteUnit, Tables, Files, Systemd,
       PortInv, Owed, Aims, Switching, Sound
  <2>. QED BY <2>5, <2>6, <2>7, <2>8, <2>9, <2>10 DEF InvOf
<1>8. CASE mode[q] = "restore"
  <2>1. Remaining(q) = {"unit", "reload", "start"} /\ Len(todo[q]) > 1
    BY <1>1, <1>8, AtUnit DEF Base
  <2>2. /\ mode'[q] = "restore" /\ next'[q] = next[q] /\ before'[q] = before[q]
        /\ Remaining(q)' = Remaining(q) \ {Head(todo[q])}
        /\ undone' = undone \ good
    BY <1>1, <1>2, <1>3, <1>8, <2>1, ProceedMoves
  <2>3. Remaining(q)' = {"reload", "start"}
    BY <1>1, <2>1, <2>2
  <2>4. undone' = undone
    BY <1>2, <2>2
  <2>5. Switching(q)'
    BY <1>1, <1>8, <2>1, <2>2, <2>3, <2>4 DEF InvOf, WriteUnit, Tables, Files, Systemd,
       Switching, Owed, UnitOf, Aims
  <2>6. Aims(q)'
    BY <1>1, <1>8, <2>1, <2>2, <2>3, <2>4 DEF InvOf, WriteUnit, Tables, Files, Systemd,
       Aims, Owed, Sound, Switching
  <2>7. UnitInv(q)'
    BY <1>1, <1>8, <2>1, <2>2, <2>3, <2>4 DEF InvOf, WriteUnit, Tables, Files, Systemd,
       UnitInv, Whole, Intact, InUnit, Matches, UnitOf, Owed, Switching, Aims, Sound
  <2>8. ReadInv(q)'
    BY <1>1, <1>8, <2>1, <2>2, <2>3, <2>4 DEF InvOf, WriteUnit, Tables, Files, Systemd,
       ReadInv, Owed, Undoing
  <2>9. RowInv(q)'
    BY <1>1, <1>8, <2>1, <2>2, <2>3, <2>4 DEF InvOf, WriteUnit, Tables, Files, Systemd,
       RowInv, OnRecord, Owed, Aims, Switching, Sound
  <2>10. PortInv(q)'
    BY <1>1, <1>8, <2>1, <2>2, <2>3, <2>4 DEF InvOf, WriteUnit, Tables, Files, Systemd,
       PortInv, Owed, Aims, Switching, Sound
  <2>. QED BY <2>5, <2>6, <2>7, <2>8, <2>9, <2>10 DEF InvOf
<1>. QED BY <1>1, AtUnit, <1>4, <1>5, <1>6, <1>7, <1>8 DEF Base

LEMMA RemoveUnitInv ==
    ASSUME Base, NEW q \in Request, InvOf(q), RemoveUnit(q)
    PROVE  InvOf(q)'
<1>1. /\ At(q, "remove") /\ todo[q] # <<>> /\ Head(todo[q]) = "remove"
      /\ next[q] \in Config /\ before[q] \in Config \cup {None} /\ Sound(q)
      /\ config \in Config \cup {None}
  BY StepFacts, BaseGlobal DEF RemoveUnit, GlobalType
<1>2. PICK good : Proceed(q, good) /\ good = {}
  BY <1>1 DEF RemoveUnit
<1>3. mode[q] = "update" /\ Head(todo[q]) = "port" => next[q].active # None
  BY <1>1
<1>4. CASE mode[q] = "clear"
  <2>1. Remaining(q) = {"remove", "reload", "config", "fail"} /\ Len(todo[q]) > 1
    BY <1>1, <1>4, AtRemove DEF Base
  <2>2. /\ mode'[q] = "clear" /\ next'[q] = next[q] /\ before'[q] = before[q]
        /\ Remaining(q)' = Remaining(q) \ {Head(todo[q])}
        /\ undone' = undone \ good
    BY <1>1, <1>2, <1>3, <1>4, <2>1, ProceedMoves
  <2>3. Remaining(q)' = {"reload", "config", "fail"}
    BY <1>1, <2>1, <2>2
  <2>4. undone' = undone
    BY <1>2, <2>2
  <2>5. Switching(q)'
    BY <1>1, <1>4, <2>1, <2>2, <2>3, <2>4 DEF InvOf, RemoveUnit, Tables, Files, Systemd,
       Switching, Owed, UnitOf, Aims
  <2>6. Aims(q)'
    BY <1>1, <1>4, <2>1, <2>2, <2>3, <2>4 DEF InvOf, RemoveUnit, Tables, Files, Systemd,
       Aims, Owed, Sound, Switching
  <2>7. UnitInv(q)'
    BY <1>1, <1>4, <2>1, <2>2, <2>3, <2>4 DEF InvOf, RemoveUnit, Tables, Files, Systemd,
       UnitInv, Whole, Intact, InUnit, Matches, UnitOf, Owed, Switching, Aims, Sound
  <2>8. ReadInv(q)'
    BY <1>1, <1>4, <2>1, <2>2, <2>3, <2>4 DEF InvOf, RemoveUnit, Tables, Files, Systemd,
       ReadInv, Owed, Undoing
  <2>9. RowInv(q)'
    BY <1>1, <1>4, <2>1, <2>2, <2>3, <2>4 DEF InvOf, RemoveUnit, Tables, Files, Systemd,
       RowInv, OnRecord, Owed, Aims, Switching, Sound
  <2>10. PortInv(q)'
    BY <1>1, <1>4, <2>1, <2>2, <2>3, <2>4 DEF InvOf, RemoveUnit, Tables, Files, Systemd,
       PortInv, Owed, Aims, Switching, Sound
  <2>. QED BY <2>5, <2>6, <2>7, <2>8, <2>9, <2>10 DEF InvOf
<1>. QED BY <1>1, AtRemove, <1>4 DEF Base

LEMMA PutConfigInv ==
    ASSUME Base, NEW q \in Request, InvOf(q), PutConfig(q)
    PROVE  InvOf(q)'
<1>1. /\ At(q, "config") /\ todo[q] # <<>> /\ Head(todo[q]) = "config"
      /\ next[q] \in Config /\ before[q] \in Config \cup {None} /\ Sound(q)
      /\ config \in Config \cup {None}
  BY StepFacts, BaseGlobal DEF PutConfig, GlobalType
<1>2. PICK good : Proceed(q, good) /\ good = {}
  BY <1>1 DEF PutConfig
<1>3. mode[q] = "update" /\ Head(todo[q]) = "port" => next[q].active # None
  BY <1>1
<1>4. CASE mode[q] = "adopt"
  <2>1. Remaining(q) = {"config"} /\ Len(todo[q]) = 1
    BY <1>1, <1>4, AtConfig DEF Base
  <2>2. /\ mode'[q] = "idle" /\ next'[q] = None /\ before'[q] = None /\ Remaining(q)' = {}
        /\ undone' = undone \ (good \cup Healed(q))
    BY <1>1, <1>2, <1>3, <2>1, ProceedMoves
  <2>3. Remaining(q)' = {}
    BY <1>1, <2>1, <2>2
  <2>4. undone' = undone \ {}
    BY <1>2, <1>4, <2>2 DEF Healed
  <2>5. Switching(q)'
    BY <1>1, <1>4, <2>1, <2>2, <2>3, <2>4 DEF InvOf, PutConfig, Tables, Files, Systemd,
       Switching, Owed, UnitOf, Aims
  <2>6. Aims(q)'
    BY <1>1, <1>4, <2>1, <2>2, <2>3, <2>4 DEF InvOf, PutConfig, Tables, Files, Systemd,
       Aims, Owed, Sound, Switching
  <2>7. UnitInv(q)'
    BY <1>1, <1>4, <2>1, <2>2, <2>3, <2>4 DEF InvOf, PutConfig, Tables, Files, Systemd,
       UnitInv, Whole, Intact, InUnit, Matches, UnitOf, Owed, Switching, Aims, Sound
  <2>8. ReadInv(q)'
    BY <1>1, <1>4, <2>1, <2>2, <2>3, <2>4 DEF InvOf, PutConfig, Tables, Files, Systemd,
       ReadInv, Owed, Undoing
  <2>9. RowInv(q)'
    BY <1>1, <1>4, <2>1, <2>2, <2>3, <2>4 DEF InvOf, PutConfig, Tables, Files, Systemd,
       RowInv, OnRecord, Owed, Aims, Switching, Sound
  <2>10. PortInv(q)'
    BY <1>1, <1>4, <2>1, <2>2, <2>3, <2>4 DEF InvOf, PutConfig, Tables, Files, Systemd,
       PortInv, Owed, Aims, Switching, Sound
  <2>. QED BY <2>5, <2>6, <2>7, <2>8, <2>9, <2>10 DEF InvOf
<1>5. CASE mode[q] = "deploy"
  <2>1. Remaining(q) = {"config", "row", "reload", "start", "wait"} /\ Len(todo[q]) > 1
    BY <1>1, <1>5, AtConfig DEF Base
  <2>2. /\ mode'[q] = "deploy" /\ next'[q] = next[q] /\ before'[q] = before[q]
        /\ Remaining(q)' = Remaining(q) \ {Head(todo[q])}
        /\ undone' = undone \ good
    BY <1>1, <1>2, <1>3, <1>5, <2>1, ProceedMoves
  <2>3. Remaining(q)' = {"row", "reload", "start", "wait"}
    BY <1>1, <2>1, <2>2
  <2>4. undone' = undone
    BY <1>2, <2>2
  <2>5. Switching(q)'
    BY <1>1, <1>5, <2>1, <2>2, <2>3, <2>4 DEF InvOf, PutConfig, Tables, Files, Systemd,
       Switching, Owed, UnitOf, Aims
  <2>6. Aims(q)'
    BY <1>1, <1>5, <2>1, <2>2, <2>3, <2>4 DEF InvOf, PutConfig, Tables, Files, Systemd,
       Aims, Owed, Sound, Switching
  <2>7. UnitInv(q)'
    BY <1>1, <1>5, <2>1, <2>2, <2>3, <2>4 DEF InvOf, PutConfig, Tables, Files, Systemd,
       UnitInv, Whole, Intact, InUnit, Matches, UnitOf, Owed, Switching, Aims, Sound
  <2>8. ReadInv(q)'
    BY <1>1, <1>5, <2>1, <2>2, <2>3, <2>4 DEF InvOf, PutConfig, Tables, Files, Systemd,
       ReadInv, Owed, Undoing
  <2>9. RowInv(q)'
    BY <1>1, <1>5, <2>1, <2>2, <2>3, <2>4 DEF InvOf, PutConfig, Tables, Files, Systemd,
       RowInv, OnRecord, Owed, Aims, Switching, Sound
  <2>10. PortInv(q)'
    BY <1>1, <1>5, <2>1, <2>2, <2>3, <2>4 DEF InvOf, PutConfig, Tables, Files, Systemd,
       PortInv, Owed, Aims, Switching, Sound
  <2>. QED BY <2>5, <2>6, <2>7, <2>8, <2>9, <2>10 DEF InvOf
<1>6. CASE mode[q] = "revert"
  <2>1. Remaining(q) = {"config", "reload", "start"} /\ Len(todo[q]) > 1
    BY <1>1, <1>6, AtConfig DEF Base
  <2>2. /\ mode'[q] = "revert" /\ next'[q] = next[q] /\ before'[q] = before[q]
        /\ Remaining(q)' = Remaining(q) \ {Head(todo[q])}
        /\ undone' = undone \ good
    BY <1>1, <1>2, <1>3, <1>6, <2>1, ProceedMoves
  <2>3. Remaining(q)' = {"reload", "start"}
    BY <1>1, <2>1, <2>2
  <2>4. undone' = undone
    BY <1>2, <2>2
  <2>5. Switching(q)'
    BY <1>1, <1>6, <2>1, <2>2, <2>3, <2>4 DEF InvOf, PutConfig, Tables, Files, Systemd,
       Switching, Owed, UnitOf, Aims
  <2>6. Aims(q)'
    BY <1>1, <1>6, <2>1, <2>2, <2>3, <2>4 DEF InvOf, PutConfig, Tables, Files, Systemd,
       Aims, Owed, Sound, Switching
  <2>7. UnitInv(q)'
    BY <1>1, <1>6, <2>1, <2>2, <2>3, <2>4 DEF InvOf, PutConfig, Tables, Files, Systemd,
       UnitInv, Whole, Intact, InUnit, Matches, UnitOf, Owed, Switching, Aims, Sound
  <2>8. ReadInv(q)'
    BY <1>1, <1>6, <2>1, <2>2, <2>3, <2>4 DEF InvOf, PutConfig, Tables, Files, Systemd,
       ReadInv, Owed, Undoing
  <2>9. RowInv(q)'
    BY <1>1, <1>6, <2>1, <2>2, <2>3, <2>4 DEF InvOf, PutConfig, Tables, Files, Systemd,
       RowInv, OnRecord, Owed, Aims, Switching, Sound
  <2>10. PortInv(q)'
    BY <1>1, <1>6, <2>1, <2>2, <2>3, <2>4 DEF InvOf, PutConfig, Tables, Files, Systemd,
       PortInv, Owed, Aims, Switching, Sound
  <2>. QED BY <2>5, <2>6, <2>7, <2>8, <2>9, <2>10 DEF InvOf
<1>7. CASE mode[q] = "clear"
  <2>1. Remaining(q) = {"config", "fail"} /\ Len(todo[q]) > 1
    BY <1>1, <1>7, AtConfig DEF Base
  <2>2. /\ mode'[q] = "clear" /\ next'[q] = next[q] /\ before'[q] = before[q]
        /\ Remaining(q)' = Remaining(q) \ {Head(todo[q])}
        /\ undone' = undone \ good
    BY <1>1, <1>2, <1>3, <1>7, <2>1, ProceedMoves
  <2>3. Remaining(q)' = {"fail"}
    BY <1>1, <2>1, <2>2
  <2>4. undone' = undone
    BY <1>2, <2>2
  <2>5. Switching(q)'
    BY <1>1, <1>7, <2>1, <2>2, <2>3, <2>4 DEF InvOf, PutConfig, Tables, Files, Systemd,
       Switching, Owed, UnitOf, Aims
  <2>6. Aims(q)'
    <3>1. config' = [next[q] EXCEPT !.previous = None]
      BY <1>7 DEF PutConfig
    <3>2. /\ config'.active = next[q].active /\ config'.previous = None
          /\ config'.port = next[q].port /\ config' # None
      BY <1>1, <3>1, NodeReleaseAssumption DEF Config
    <3>. QED BY <1>7, <2>1, <2>2, <2>3, <3>2 DEF InvOf, Aims, Owed
  <2>7. UnitInv(q)'
    BY <1>1, <1>7, <2>1, <2>2, <2>3, <2>4 DEF InvOf, PutConfig, Tables, Files, Systemd,
       UnitInv, Whole, Intact, InUnit, Matches, UnitOf, Owed, Switching, Aims, Sound
  <2>8. ReadInv(q)'
    BY <1>1, <1>7, <2>1, <2>2, <2>3, <2>4 DEF InvOf, PutConfig, Tables, Files, Systemd,
       ReadInv, Owed, Undoing
  <2>9. RowInv(q)'
    BY <1>1, <1>7, <2>1, <2>2, <2>3, <2>4 DEF InvOf, PutConfig, Tables, Files, Systemd,
       RowInv, OnRecord, Owed, Aims, Switching, Sound
  <2>10. PortInv(q)'
    BY <1>1, <1>7, <2>1, <2>2, <2>3, <2>4 DEF InvOf, PutConfig, Tables, Files, Systemd,
       PortInv, Owed, Aims, Switching, Sound
  <2>. QED BY <2>5, <2>6, <2>7, <2>8, <2>9, <2>10 DEF InvOf
<1>8. CASE mode[q] = "rollback"
  <2>1. Remaining(q) = {"config", "reload", "start", "wait", "mark"} /\ Len(todo[q]) > 1
    BY <1>1, <1>8, AtConfig DEF Base
  <2>2. /\ mode'[q] = "rollback" /\ next'[q] = next[q] /\ before'[q] = before[q]
        /\ Remaining(q)' = Remaining(q) \ {Head(todo[q])}
        /\ undone' = undone \ good
    BY <1>1, <1>2, <1>3, <1>8, <2>1, ProceedMoves
  <2>3. Remaining(q)' = {"reload", "start", "wait", "mark"}
    BY <1>1, <2>1, <2>2
  <2>4. undone' = undone
    BY <1>2, <2>2
  <2>5. Switching(q)'
    BY <1>1, <1>8, <2>1, <2>2, <2>3, <2>4 DEF InvOf, PutConfig, Tables, Files, Systemd,
       Switching, Owed, UnitOf, Aims
  <2>6. Aims(q)'
    BY <1>1, <1>8, <2>1, <2>2, <2>3, <2>4 DEF InvOf, PutConfig, Tables, Files, Systemd,
       Aims, Owed, Sound, Switching
  <2>7. UnitInv(q)'
    BY <1>1, <1>8, <2>1, <2>2, <2>3, <2>4 DEF InvOf, PutConfig, Tables, Files, Systemd,
       UnitInv, Whole, Intact, InUnit, Matches, UnitOf, Owed, Switching, Aims, Sound
  <2>8. ReadInv(q)'
    BY <1>1, <1>8, <2>1, <2>2, <2>3, <2>4 DEF InvOf, PutConfig, Tables, Files, Systemd,
       ReadInv, Owed, Undoing
  <2>9. RowInv(q)'
    BY <1>1, <1>8, <2>1, <2>2, <2>3, <2>4 DEF InvOf, PutConfig, Tables, Files, Systemd,
       RowInv, OnRecord, Owed, Aims, Switching, Sound
  <2>10. PortInv(q)'
    BY <1>1, <1>8, <2>1, <2>2, <2>3, <2>4 DEF InvOf, PutConfig, Tables, Files, Systemd,
       PortInv, Owed, Aims, Switching, Sound
  <2>. QED BY <2>5, <2>6, <2>7, <2>8, <2>9, <2>10 DEF InvOf
<1>9. CASE mode[q] = "update"
  <2>1. Remaining(q) = {"config"} /\ Len(todo[q]) = 1
    BY <1>1, <1>9, AtConfig DEF Base
  <2>2. /\ mode'[q] = "idle" /\ next'[q] = None /\ before'[q] = None /\ Remaining(q)' = {}
        /\ undone' = undone \ (good \cup Healed(q))
    BY <1>1, <1>2, <1>3, <2>1, ProceedMoves
  <2>3. Remaining(q)' = {}
    BY <1>1, <2>1, <2>2
  <2>4. undone' = undone \ {"port"}
    BY <1>2, <1>9, <2>2 DEF Healed
  <2>5. Switching(q)'
    BY <1>1, <1>9, <2>1, <2>2, <2>3, <2>4 DEF InvOf, PutConfig, Tables, Files, Systemd,
       Switching, Owed, UnitOf, Aims
  <2>6. Aims(q)'
    BY <1>1, <1>9, <2>1, <2>2, <2>3, <2>4 DEF InvOf, PutConfig, Tables, Files, Systemd,
       Aims, Owed, Sound, Switching
  <2>7. UnitInv(q)'
    BY <1>1, <1>9, <2>1, <2>2, <2>3, <2>4 DEF InvOf, PutConfig, Tables, Files, Systemd,
       UnitInv, Whole, Intact, InUnit, Matches, UnitOf, Owed, Switching, Aims, Sound
  <2>8. ReadInv(q)'
    BY <1>1, <1>9, <2>1, <2>2, <2>3, <2>4 DEF InvOf, PutConfig, Tables, Files, Systemd,
       ReadInv, Owed, Undoing
  <2>9. RowInv(q)'
    BY <1>1, <1>9, <2>1, <2>2, <2>3, <2>4 DEF InvOf, PutConfig, Tables, Files, Systemd,
       RowInv, OnRecord, Owed, Aims, Switching, Sound
  <2>10. PortInv(q)'
    BY <1>1, <1>9, <2>1, <2>2, <2>3, <2>4 DEF InvOf, PutConfig, Tables, Files, Systemd,
       PortInv, Owed, Aims, Switching, Sound
  <2>. QED BY <2>5, <2>6, <2>7, <2>8, <2>9, <2>10 DEF InvOf
<1>. QED BY <1>1, AtConfig, <1>4, <1>5, <1>6, <1>7, <1>8, <1>9 DEF Base

LEMMA InsertRowInv ==
    ASSUME Base, NEW q \in Request, InvOf(q), InsertRow(q)
    PROVE  InvOf(q)'
<1>1. /\ At(q, "row") /\ todo[q] # <<>> /\ Head(todo[q]) = "row"
      /\ next[q] \in Config /\ before[q] \in Config \cup {None} /\ Sound(q)
      /\ config \in Config \cup {None}
  BY StepFacts, BaseGlobal DEF InsertRow, GlobalType
<1>2. PICK good : Proceed(q, good) /\ good = {}
  BY <1>1 DEF InsertRow
<1>3. mode[q] = "update" /\ Head(todo[q]) = "port" => next[q].active # None
  BY <1>1
<1>4. CASE mode[q] = "deploy"
  <2>1. Remaining(q) = {"row", "reload", "start", "wait"} /\ Len(todo[q]) > 1
    BY <1>1, <1>4, AtRow DEF Base
  <2>2. /\ mode'[q] = "deploy" /\ next'[q] = next[q] /\ before'[q] = before[q]
        /\ Remaining(q)' = Remaining(q) \ {Head(todo[q])}
        /\ undone' = undone \ good
    BY <1>1, <1>2, <1>3, <1>4, <2>1, ProceedMoves
  <2>3. Remaining(q)' = {"reload", "start", "wait"}
    BY <1>1, <2>1, <2>2
  <2>4. undone' = undone
    BY <1>2, <2>2
  <2>5. Switching(q)'
    BY <1>1, <1>4, <2>1, <2>2, <2>3, <2>4 DEF InvOf, InsertRow, Tables, Files, Systemd,
       Switching, Owed, UnitOf, Aims
  <2>6. Aims(q)'
    BY <1>1, <1>4, <2>1, <2>2, <2>3, <2>4 DEF InvOf, InsertRow, Tables, Files, Systemd,
       Aims, Owed, Sound, Switching
  <2>7. UnitInv(q)'
    BY <1>1, <1>4, <2>1, <2>2, <2>3, <2>4 DEF InvOf, InsertRow, Tables, Files, Systemd,
       UnitInv, Whole, Intact, InUnit, Matches, UnitOf, Owed, Switching, Aims, Sound
  <2>8. ReadInv(q)'
    BY <1>1, <1>4, <2>1, <2>2, <2>3, <2>4 DEF InvOf, InsertRow, Tables, Files, Systemd,
       ReadInv, Owed, Undoing
  <2>9. RowInv(q)'
    <3>1. \A x \in Release : rows[x] # "none" => rows'[x] # "none"
      BY DEF InsertRow, Base, TypeOK
    <3>2. \A x \in Release \cup {None} : OnRecord(x) => OnRecord(x)'
      BY <3>1 DEF OnRecord
    <3>3. OnRecord(next[q].active)' /\ next[q].active \in Release
      BY <1>1, <1>4, <2>2 DEF InsertRow, OnRecord, Base, TypeOK, Config, Sound
    <3>4. \A c \in Config : c.active \in Release \cup {None} /\ c.previous \in Release \cup {None}
      BY DEF Config
    <3>5. before[q] \in Config /\ config' = config
      BY <1>1, <1>4 DEF InsertRow, Sound
    <3>. QED BY <1>1, <1>4, <2>1, <2>2, <2>3, <2>4, <3>2, <3>3, <3>4, <3>5 DEF InvOf,
                RowInv, Owed, Aims, Switching
  <2>10. PortInv(q)'
    BY <1>1, <1>4, <2>1, <2>2, <2>3, <2>4 DEF InvOf, InsertRow, Tables, Files, Systemd,
       PortInv, Owed, Aims, Switching, Sound
  <2>. QED BY <2>5, <2>6, <2>7, <2>8, <2>9, <2>10 DEF InvOf
<1>. QED BY <1>1, AtRow, <1>4 DEF Base

LEMMA MarkRowsRollbackInv ==
    ASSUME Base, NEW q \in Request, InvOf(q), MarkRows(q), At(q, "mark")
    PROVE  InvOf(q)'
<1>1. /\ At(q, "mark") /\ todo[q] # <<>> /\ Head(todo[q]) = "mark"
      /\ next[q] \in Config /\ before[q] \in Config \cup {None} /\ Sound(q)
      /\ config \in Config \cup {None}
  BY StepFacts, BaseGlobal DEF MarkRows, GlobalType
<1>2. PICK good : Proceed(q, good) /\ good = {}
  BY <1>1 DEF MarkRows
<1>3. mode[q] = "update" /\ Head(todo[q]) = "port" => next[q].active # None
  BY <1>1
<1>4. CASE mode[q] = "rollback"
  <2>1. Remaining(q) = {"mark"} /\ Len(todo[q]) = 1
    BY <1>1, <1>4, AtMark DEF Base
  <2>2. /\ mode'[q] = "idle" /\ next'[q] = None /\ before'[q] = None /\ Remaining(q)' = {}
        /\ undone' = undone \ (good \cup Healed(q))
    BY <1>1, <1>2, <1>3, <2>1, ProceedMoves
  <2>3. Remaining(q)' = {}
    BY <1>1, <2>1, <2>2
  <2>4. undone' = undone \ {"link", "unit", "config", "remove"}
    BY <1>2, <1>4, <2>2 DEF Healed
  <2>5. Switching(q)'
    BY <1>1, <1>4, <2>1, <2>2, <2>3, <2>4 DEF InvOf, MarkRows, Tables, Files, Systemd,
       Switching, Owed, UnitOf, Aims
  <2>6. Aims(q)'
    BY <1>1, <1>4, <2>1, <2>2, <2>3, <2>4 DEF InvOf, MarkRows, Tables, Files, Systemd,
       Aims, Owed, Sound, Switching
  <2>7. UnitInv(q)'
    BY <1>1, <1>4, <2>1, <2>2, <2>3, <2>4 DEF InvOf, MarkRows, Tables, Files, Systemd,
       UnitInv, Whole, Intact, InUnit, Matches, UnitOf, Owed, Switching, Aims, Sound
  <2>8. ReadInv(q)'
    BY <1>1, <1>4, <2>1, <2>2, <2>3, <2>4 DEF InvOf, MarkRows, Tables, Files, Systemd,
       ReadInv, Owed, Undoing
  <2>9. RowInv(q)'
    <3>1. \A x \in Release : rows[x] # "none" => rows'[x] # "none"
      <4>1. rows' = [x \in Release |->
                        IF rows[x] = "none" THEN "none"
                        ELSE IF x = next[q].active THEN "active"
                        ELSE IF x = next[q].previous THEN "previous" ELSE rows[x]]
        BY <1>1 DEF MarkRows, At
      <4>. QED BY <4>1
    <3>2. \A x \in Release \cup {None} : OnRecord(x) => OnRecord(x)'
      BY <3>1 DEF OnRecord
    <3>3. \A c \in Config : c.active \in Release \cup {None} /\ c.previous \in Release \cup {None}
      BY DEF Config
    <3>4. config' = config
      BY DEF MarkRows
    <3>. QED BY <1>1, <1>4, <2>1, <2>2, <2>3, <2>4, <3>2, <3>3, <3>4 DEF InvOf, RowInv,
                Owed, Aims, Switching
  <2>10. PortInv(q)'
    BY <1>1, <1>4, <2>1, <2>2, <2>3, <2>4 DEF InvOf, MarkRows, Tables, Files, Systemd,
       PortInv, Owed, Aims, Switching, Sound
  <2>. QED BY <2>5, <2>6, <2>7, <2>8, <2>9, <2>10 DEF InvOf
<1>. QED BY <1>1, AtMark, <1>4 DEF Base

LEMMA MarkRowsClearInv ==
    ASSUME Base, NEW q \in Request, InvOf(q), MarkRows(q), At(q, "fail")
    PROVE  InvOf(q)'
<1>1. /\ At(q, "fail") /\ todo[q] # <<>> /\ Head(todo[q]) = "fail"
      /\ next[q] \in Config /\ before[q] \in Config \cup {None} /\ Sound(q)
      /\ config \in Config \cup {None}
  BY StepFacts, BaseGlobal DEF MarkRows, GlobalType
<1>2. PICK good : Proceed(q, good) /\ good = {}
  BY <1>1 DEF MarkRows
<1>3. mode[q] = "update" /\ Head(todo[q]) = "port" => next[q].active # None
  BY <1>1
<1>4. CASE mode[q] = "clear"
  <2>1. Remaining(q) = {"fail"} /\ Len(todo[q]) = 1
    BY <1>1, <1>4, AtFail DEF Base
  <2>2. /\ mode'[q] = "idle" /\ next'[q] = None /\ before'[q] = None /\ Remaining(q)' = {}
        /\ undone' = undone \ (good \cup Healed(q))
    BY <1>1, <1>2, <1>3, <2>1, ProceedMoves
  <2>3. Remaining(q)' = {}
    BY <1>1, <2>1, <2>2
  <2>4. undone' = undone \ {}
    BY <1>2, <1>4, <2>2 DEF Healed
  <2>5. Switching(q)'
    BY <1>1, <1>4, <2>1, <2>2, <2>3, <2>4 DEF InvOf, MarkRows, Tables, Files, Systemd,
       Switching, Owed, UnitOf, Aims
  <2>6. Aims(q)'
    BY <1>1, <1>4, <2>1, <2>2, <2>3, <2>4 DEF InvOf, MarkRows, Tables, Files, Systemd,
       Aims, Owed, Sound, Switching
  <2>7. UnitInv(q)'
    BY <1>1, <1>4, <2>1, <2>2, <2>3, <2>4 DEF InvOf, MarkRows, Tables, Files, Systemd,
       UnitInv, Whole, Intact, InUnit, Matches, UnitOf, Owed, Switching, Aims, Sound
  <2>8. ReadInv(q)'
    BY <1>1, <1>4, <2>1, <2>2, <2>3, <2>4 DEF InvOf, MarkRows, Tables, Files, Systemd,
       ReadInv, Owed, Undoing
  <2>9. RowInv(q)'
    BY <1>1, <1>4, <2>1, <2>2, <2>3, <2>4 DEF InvOf, MarkRows, Tables, Files, Systemd,
       RowInv, OnRecord, Owed, Aims, Switching, Sound
  <2>10. PortInv(q)'
    BY <1>1, <1>4, <2>1, <2>2, <2>3, <2>4 DEF InvOf, MarkRows, Tables, Files, Systemd,
       PortInv, Owed, Aims, Switching, Sound
  <2>. QED BY <2>5, <2>6, <2>7, <2>8, <2>9, <2>10 DEF InvOf
<1>. QED BY <1>1, AtFail, <1>4 DEF Base

LEMMA RowsNotMarkedRollbackInv ==
    ASSUME Base, NEW q \in Request, InvOf(q), RowsNotMarked(q), At(q, "mark")
    PROVE  InvOf(q)'
<1>1. /\ At(q, "mark") /\ todo[q] # <<>> /\ Head(todo[q]) = "mark"
      /\ next[q] \in Config /\ before[q] \in Config \cup {None} /\ Sound(q)
      /\ config \in Config \cup {None}
  BY StepFacts, BaseGlobal DEF RowsNotMarked, GlobalType
<1>2. PICK good : Proceed(q, good) /\ good = {}
  BY <1>1 DEF RowsNotMarked
<1>3. mode[q] = "update" /\ Head(todo[q]) = "port" => next[q].active # None
  BY <1>1
<1>4. CASE mode[q] = "rollback"
  <2>1. Remaining(q) = {"mark"} /\ Len(todo[q]) = 1
    BY <1>1, <1>4, AtMark DEF Base
  <2>2. /\ mode'[q] = "idle" /\ next'[q] = None /\ before'[q] = None /\ Remaining(q)' = {}
        /\ undone' = undone \ (good \cup Healed(q))
    BY <1>1, <1>2, <1>3, <2>1, ProceedMoves
  <2>3. Remaining(q)' = {}
    BY <1>1, <2>1, <2>2
  <2>4. undone' = undone \ {"link", "unit", "config", "remove"}
    BY <1>2, <1>4, <2>2 DEF Healed
  <2>5. Switching(q)'
    BY <1>1, <1>4, <2>1, <2>2, <2>3, <2>4 DEF InvOf, RowsNotMarked, Tables, Files,
       Systemd, Switching, Owed, UnitOf, Aims
  <2>6. Aims(q)'
    BY <1>1, <1>4, <2>1, <2>2, <2>3, <2>4 DEF InvOf, RowsNotMarked, Tables, Files,
       Systemd, Aims, Owed, Sound, Switching
  <2>7. UnitInv(q)'
    BY <1>1, <1>4, <2>1, <2>2, <2>3, <2>4 DEF InvOf, RowsNotMarked, Tables, Files,
       Systemd, UnitInv, Whole, Intact, InUnit, Matches, UnitOf, Owed, Switching, Aims,
       Sound
  <2>8. ReadInv(q)'
    BY <1>1, <1>4, <2>1, <2>2, <2>3, <2>4 DEF InvOf, RowsNotMarked, Tables, Files,
       Systemd, ReadInv, Owed, Undoing
  <2>9. RowInv(q)'
    BY <1>1, <1>4, <2>1, <2>2, <2>3, <2>4 DEF InvOf, RowsNotMarked, Tables, Files,
       Systemd, RowInv, OnRecord, Owed, Aims, Switching, Sound
  <2>10. PortInv(q)'
    BY <1>1, <1>4, <2>1, <2>2, <2>3, <2>4 DEF InvOf, RowsNotMarked, Tables, Files,
       Systemd, PortInv, Owed, Aims, Switching, Sound
  <2>. QED BY <2>5, <2>6, <2>7, <2>8, <2>9, <2>10 DEF InvOf
<1>. QED BY <1>1, AtMark, <1>4 DEF Base

LEMMA RowsNotMarkedClearInv ==
    ASSUME Base, NEW q \in Request, InvOf(q), RowsNotMarked(q), At(q, "fail")
    PROVE  InvOf(q)'
<1>1. /\ At(q, "fail") /\ todo[q] # <<>> /\ Head(todo[q]) = "fail"
      /\ next[q] \in Config /\ before[q] \in Config \cup {None} /\ Sound(q)
      /\ config \in Config \cup {None}
  BY StepFacts, BaseGlobal DEF RowsNotMarked, GlobalType
<1>2. PICK good : Proceed(q, good) /\ good = {}
  BY <1>1 DEF RowsNotMarked
<1>3. mode[q] = "update" /\ Head(todo[q]) = "port" => next[q].active # None
  BY <1>1
<1>4. CASE mode[q] = "clear"
  <2>1. Remaining(q) = {"fail"} /\ Len(todo[q]) = 1
    BY <1>1, <1>4, AtFail DEF Base
  <2>2. /\ mode'[q] = "idle" /\ next'[q] = None /\ before'[q] = None /\ Remaining(q)' = {}
        /\ undone' = undone \ (good \cup Healed(q))
    BY <1>1, <1>2, <1>3, <2>1, ProceedMoves
  <2>3. Remaining(q)' = {}
    BY <1>1, <2>1, <2>2
  <2>4. undone' = undone \ {}
    BY <1>2, <1>4, <2>2 DEF Healed
  <2>5. Switching(q)'
    BY <1>1, <1>4, <2>1, <2>2, <2>3, <2>4 DEF InvOf, RowsNotMarked, Tables, Files,
       Systemd, Switching, Owed, UnitOf, Aims
  <2>6. Aims(q)'
    BY <1>1, <1>4, <2>1, <2>2, <2>3, <2>4 DEF InvOf, RowsNotMarked, Tables, Files,
       Systemd, Aims, Owed, Sound, Switching
  <2>7. UnitInv(q)'
    BY <1>1, <1>4, <2>1, <2>2, <2>3, <2>4 DEF InvOf, RowsNotMarked, Tables, Files,
       Systemd, UnitInv, Whole, Intact, InUnit, Matches, UnitOf, Owed, Switching, Aims,
       Sound
  <2>8. ReadInv(q)'
    BY <1>1, <1>4, <2>1, <2>2, <2>3, <2>4 DEF InvOf, RowsNotMarked, Tables, Files,
       Systemd, ReadInv, Owed, Undoing
  <2>9. RowInv(q)'
    BY <1>1, <1>4, <2>1, <2>2, <2>3, <2>4 DEF InvOf, RowsNotMarked, Tables, Files,
       Systemd, RowInv, OnRecord, Owed, Aims, Switching, Sound
  <2>10. PortInv(q)'
    BY <1>1, <1>4, <2>1, <2>2, <2>3, <2>4 DEF InvOf, RowsNotMarked, Tables, Files,
       Systemd, PortInv, Owed, Aims, Switching, Sound
  <2>. QED BY <2>5, <2>6, <2>7, <2>8, <2>9, <2>10 DEF InvOf
<1>. QED BY <1>1, AtFail, <1>4 DEF Base

LEMMA SetPortFullInv ==
    ASSUME Base, NEW q \in Request, InvOf(q), SetPort(q), next[q].active # None
    PROVE  InvOf(q)'
<1>1. /\ At(q, "port") /\ todo[q] # <<>> /\ Head(todo[q]) = "port"
      /\ next[q] \in Config /\ before[q] \in Config \cup {None} /\ Sound(q)
      /\ config \in Config \cup {None}
  BY StepFacts, BaseGlobal DEF SetPort, GlobalType
<1>2. PICK good : Proceed(q, good) /\ good = {}
  BY <1>1 DEF SetPort
<1>3. mode[q] = "update" /\ Head(todo[q]) = "port" => next[q].active # None
  BY <1>1
<1>4. CASE mode[q] = "update"
  <2>1. /\ Remaining(q) = {"port", "unit", "reload", "start", "wait", "config"}
        /\ Len(todo[q]) > 1
    BY <1>1, <1>4, AtPort DEF Base
  <2>2. /\ mode'[q] = "update" /\ next'[q] = next[q] /\ before'[q] = before[q]
        /\ Remaining(q)' = Remaining(q) \ {Head(todo[q])}
        /\ undone' = undone \ good
    BY <1>1, <1>2, <1>3, <1>4, <2>1, ProceedMoves
  <2>3. Remaining(q)' = {"unit", "reload", "start", "wait", "config"}
    BY <1>1, <2>1, <2>2
  <2>4. undone' = undone
    BY <1>2, <2>2
  <2>5. Switching(q)'
    BY <1>1, <1>4, <2>1, <2>2, <2>3, <2>4 DEF InvOf, SetPort, Tables, Files, Systemd,
       Switching, Owed, UnitOf, Aims
  <2>6. Aims(q)'
    BY <1>1, <1>4, <2>1, <2>2, <2>3, <2>4 DEF InvOf, SetPort, Tables, Files, Systemd,
       Aims, Owed, Sound, Switching
  <2>7. UnitInv(q)'
    BY <1>1, <1>4, <2>1, <2>2, <2>3, <2>4 DEF InvOf, SetPort, Tables, Files, Systemd,
       UnitInv, Whole, Intact, InUnit, Matches, UnitOf, Owed, Switching, Aims, Sound
  <2>8. ReadInv(q)'
    BY <1>1, <1>4, <2>1, <2>2, <2>3, <2>4 DEF InvOf, SetPort, Tables, Files, Systemd,
       ReadInv, Owed, Undoing
  <2>9. RowInv(q)'
    BY <1>1, <1>4, <2>1, <2>2, <2>3, <2>4 DEF InvOf, SetPort, Tables, Files, Systemd,
       RowInv, OnRecord, Owed, Aims, Switching, Sound
  <2>10. PortInv(q)'
    BY <1>1, <1>4, <2>1, <2>2, <2>3, <2>4 DEF InvOf, SetPort, Tables, Files, Systemd,
       PortInv, Owed, Aims, Switching, Sound
  <2>. QED BY <2>5, <2>6, <2>7, <2>8, <2>9, <2>10 DEF InvOf
<1>5. CASE mode[q] = "restore"
  <2>1. Remaining(q) = {"port", "unit", "reload", "start"} /\ Len(todo[q]) > 1
    BY <1>1, <1>5, AtPort DEF Base
  <2>2. /\ mode'[q] = "restore" /\ next'[q] = next[q] /\ before'[q] = before[q]
        /\ Remaining(q)' = Remaining(q) \ {Head(todo[q])}
        /\ undone' = undone \ good
    BY <1>1, <1>2, <1>3, <1>5, <2>1, ProceedMoves
  <2>3. Remaining(q)' = {"unit", "reload", "start"}
    BY <1>1, <2>1, <2>2
  <2>4. undone' = undone
    BY <1>2, <2>2
  <2>5. Switching(q)'
    BY <1>1, <1>5, <2>1, <2>2, <2>3, <2>4 DEF InvOf, SetPort, Tables, Files, Systemd,
       Switching, Owed, UnitOf, Aims
  <2>6. Aims(q)'
    BY <1>1, <1>5, <2>1, <2>2, <2>3, <2>4 DEF InvOf, SetPort, Tables, Files, Systemd,
       Aims, Owed, Sound, Switching
  <2>7. UnitInv(q)'
    BY <1>1, <1>5, <2>1, <2>2, <2>3, <2>4 DEF InvOf, SetPort, Tables, Files, Systemd,
       UnitInv, Whole, Intact, InUnit, Matches, UnitOf, Owed, Switching, Aims, Sound
  <2>8. ReadInv(q)'
    BY <1>1, <1>5, <2>1, <2>2, <2>3, <2>4 DEF InvOf, SetPort, Tables, Files, Systemd,
       ReadInv, Owed, Undoing
  <2>9. RowInv(q)'
    BY <1>1, <1>5, <2>1, <2>2, <2>3, <2>4 DEF InvOf, SetPort, Tables, Files, Systemd,
       RowInv, OnRecord, Owed, Aims, Switching, Sound
  <2>10. PortInv(q)'
    BY <1>1, <1>5, <2>1, <2>2, <2>3, <2>4 DEF InvOf, SetPort, Tables, Files, Systemd,
       PortInv, Owed, Aims, Switching, Sound
  <2>. QED BY <2>5, <2>6, <2>7, <2>8, <2>9, <2>10 DEF InvOf
<1>. QED BY <1>1, AtPort, <1>4, <1>5 DEF Base

LEMMA ReloadInv ==
    ASSUME Base, NEW q \in Request, InvOf(q), Systemctl(q), At(q, "reload")
    PROVE  InvOf(q)'
<1>1. /\ At(q, "reload") /\ todo[q] # <<>> /\ Head(todo[q]) = "reload"
      /\ next[q] \in Config /\ before[q] \in Config \cup {None} /\ Sound(q)
      /\ config \in Config \cup {None}
  BY StepFacts, BaseGlobal DEF Systemctl, GlobalType
<1>2. PICK good : Proceed(q, good) /\ good = {"reload"}
  BY <1>1 DEF Systemctl
<1>3. mode[q] = "update" /\ Head(todo[q]) = "port" => next[q].active # None
  BY <1>1
<1>4. CASE mode[q] = "deploy"
  <2>1. Remaining(q) = {"reload", "start", "wait"} /\ Len(todo[q]) > 1
    BY <1>1, <1>4, AtReload DEF Base
  <2>2. /\ mode'[q] = "deploy" /\ next'[q] = next[q] /\ before'[q] = before[q]
        /\ Remaining(q)' = Remaining(q) \ {Head(todo[q])}
        /\ undone' = undone \ good
    BY <1>1, <1>2, <1>3, <1>4, <2>1, ProceedMoves
  <2>3. Remaining(q)' = {"start", "wait"}
    BY <1>1, <2>1, <2>2
  <2>4. undone' = undone \ {"reload"}
    BY <1>2, <2>2
  <2>5. Switching(q)'
    BY <1>1, <1>4, <2>1, <2>2, <2>3, <2>4 DEF InvOf, Systemctl, Tables, Files, Systemd,
       Effect, At, Known, Switching, Owed, UnitOf, Aims
  <2>6. Aims(q)'
    BY <1>1, <1>4, <2>1, <2>2, <2>3, <2>4 DEF InvOf, Systemctl, Tables, Files, Systemd,
       Effect, At, Known, Aims, Owed, Sound, Switching
  <2>7. UnitInv(q)'
    BY <1>1, <1>4, <2>1, <2>2, <2>3, <2>4 DEF InvOf, Systemctl, Tables, Files, Systemd,
       Effect, At, Known, UnitInv, Whole, Intact, InUnit, Matches, UnitOf, Owed,
       Switching, Aims, Sound
  <2>8. ReadInv(q)'
    BY <1>1, <1>4, <2>1, <2>2, <2>3, <2>4 DEF InvOf, Systemctl, Tables, Files, Systemd,
       Effect, At, Known, ReadInv, Owed, Undoing
  <2>9. RowInv(q)'
    BY <1>1, <1>4, <2>1, <2>2, <2>3, <2>4 DEF InvOf, Systemctl, Tables, Files, Systemd,
       Effect, At, Known, RowInv, OnRecord, Owed, Aims, Switching, Sound
  <2>10. PortInv(q)'
    BY <1>1, <1>4, <2>1, <2>2, <2>3, <2>4 DEF InvOf, Systemctl, Tables, Files, Systemd,
       Effect, At, Known, PortInv, Owed, Aims, Switching, Sound
  <2>. QED BY <2>5, <2>6, <2>7, <2>8, <2>9, <2>10 DEF InvOf
<1>5. CASE mode[q] = "revert"
  <2>1. Remaining(q) = {"reload", "start"} /\ Len(todo[q]) > 1
    BY <1>1, <1>5, AtReload DEF Base
  <2>2. /\ mode'[q] = "revert" /\ next'[q] = next[q] /\ before'[q] = before[q]
        /\ Remaining(q)' = Remaining(q) \ {Head(todo[q])}
        /\ undone' = undone \ good
    BY <1>1, <1>2, <1>3, <1>5, <2>1, ProceedMoves
  <2>3. Remaining(q)' = {"start"}
    BY <1>1, <2>1, <2>2
  <2>4. undone' = undone \ {"reload"}
    BY <1>2, <2>2
  <2>5. Switching(q)'
    BY <1>1, <1>5, <2>1, <2>2, <2>3, <2>4 DEF InvOf, Systemctl, Tables, Files, Systemd,
       Effect, At, Known, Switching, Owed, UnitOf, Aims
  <2>6. Aims(q)'
    BY <1>1, <1>5, <2>1, <2>2, <2>3, <2>4 DEF InvOf, Systemctl, Tables, Files, Systemd,
       Effect, At, Known, Aims, Owed, Sound, Switching
  <2>7. UnitInv(q)'
    BY <1>1, <1>5, <2>1, <2>2, <2>3, <2>4 DEF InvOf, Systemctl, Tables, Files, Systemd,
       Effect, At, Known, UnitInv, Whole, Intact, InUnit, Matches, UnitOf, Owed,
       Switching, Aims, Sound
  <2>8. ReadInv(q)'
    BY <1>1, <1>5, <2>1, <2>2, <2>3, <2>4 DEF InvOf, Systemctl, Tables, Files, Systemd,
       Effect, At, Known, ReadInv, Owed, Undoing
  <2>9. RowInv(q)'
    BY <1>1, <1>5, <2>1, <2>2, <2>3, <2>4 DEF InvOf, Systemctl, Tables, Files, Systemd,
       Effect, At, Known, RowInv, OnRecord, Owed, Aims, Switching, Sound
  <2>10. PortInv(q)'
    BY <1>1, <1>5, <2>1, <2>2, <2>3, <2>4 DEF InvOf, Systemctl, Tables, Files, Systemd,
       Effect, At, Known, PortInv, Owed, Aims, Switching, Sound
  <2>. QED BY <2>5, <2>6, <2>7, <2>8, <2>9, <2>10 DEF InvOf
<1>6. CASE mode[q] = "clear"
  <2>1. Remaining(q) = {"reload", "config", "fail"} /\ Len(todo[q]) > 1
    BY <1>1, <1>6, AtReload DEF Base
  <2>2. /\ mode'[q] = "clear" /\ next'[q] = next[q] /\ before'[q] = before[q]
        /\ Remaining(q)' = Remaining(q) \ {Head(todo[q])}
        /\ undone' = undone \ good
    BY <1>1, <1>2, <1>3, <1>6, <2>1, ProceedMoves
  <2>3. Remaining(q)' = {"config", "fail"}
    BY <1>1, <2>1, <2>2
  <2>4. undone' = undone \ {"reload"}
    BY <1>2, <2>2
  <2>5. Switching(q)'
    BY <1>1, <1>6, <2>1, <2>2, <2>3, <2>4 DEF InvOf, Systemctl, Tables, Files, Systemd,
       Effect, At, Known, Switching, Owed, UnitOf, Aims
  <2>6. Aims(q)'
    BY <1>1, <1>6, <2>1, <2>2, <2>3, <2>4 DEF InvOf, Systemctl, Tables, Files, Systemd,
       Effect, At, Known, Aims, Owed, Sound, Switching
  <2>7. UnitInv(q)'
    BY <1>1, <1>6, <2>1, <2>2, <2>3, <2>4 DEF InvOf, Systemctl, Tables, Files, Systemd,
       Effect, At, Known, UnitInv, Whole, Intact, InUnit, Matches, UnitOf, Owed,
       Switching, Aims, Sound
  <2>8. ReadInv(q)'
    BY <1>1, <1>6, <2>1, <2>2, <2>3, <2>4 DEF InvOf, Systemctl, Tables, Files, Systemd,
       Effect, At, Known, ReadInv, Owed, Undoing
  <2>9. RowInv(q)'
    BY <1>1, <1>6, <2>1, <2>2, <2>3, <2>4 DEF InvOf, Systemctl, Tables, Files, Systemd,
       Effect, At, Known, RowInv, OnRecord, Owed, Aims, Switching, Sound
  <2>10. PortInv(q)'
    BY <1>1, <1>6, <2>1, <2>2, <2>3, <2>4 DEF InvOf, Systemctl, Tables, Files, Systemd,
       Effect, At, Known, PortInv, Owed, Aims, Switching, Sound
  <2>. QED BY <2>5, <2>6, <2>7, <2>8, <2>9, <2>10 DEF InvOf
<1>7. CASE mode[q] = "rollback"
  <2>1. Remaining(q) = {"reload", "start", "wait", "mark"} /\ Len(todo[q]) > 1
    BY <1>1, <1>7, AtReload DEF Base
  <2>2. /\ mode'[q] = "rollback" /\ next'[q] = next[q] /\ before'[q] = before[q]
        /\ Remaining(q)' = Remaining(q) \ {Head(todo[q])}
        /\ undone' = undone \ good
    BY <1>1, <1>2, <1>3, <1>7, <2>1, ProceedMoves
  <2>3. Remaining(q)' = {"start", "wait", "mark"}
    BY <1>1, <2>1, <2>2
  <2>4. undone' = undone \ {"reload"}
    BY <1>2, <2>2
  <2>5. Switching(q)'
    BY <1>1, <1>7, <2>1, <2>2, <2>3, <2>4 DEF InvOf, Systemctl, Tables, Files, Systemd,
       Effect, At, Known, Switching, Owed, UnitOf, Aims
  <2>6. Aims(q)'
    BY <1>1, <1>7, <2>1, <2>2, <2>3, <2>4 DEF InvOf, Systemctl, Tables, Files, Systemd,
       Effect, At, Known, Aims, Owed, Sound, Switching
  <2>7. UnitInv(q)'
    BY <1>1, <1>7, <2>1, <2>2, <2>3, <2>4 DEF InvOf, Systemctl, Tables, Files, Systemd,
       Effect, At, Known, UnitInv, Whole, Intact, InUnit, Matches, UnitOf, Owed,
       Switching, Aims, Sound
  <2>8. ReadInv(q)'
    BY <1>1, <1>7, <2>1, <2>2, <2>3, <2>4 DEF InvOf, Systemctl, Tables, Files, Systemd,
       Effect, At, Known, ReadInv, Owed, Undoing
  <2>9. RowInv(q)'
    BY <1>1, <1>7, <2>1, <2>2, <2>3, <2>4 DEF InvOf, Systemctl, Tables, Files, Systemd,
       Effect, At, Known, RowInv, OnRecord, Owed, Aims, Switching, Sound
  <2>10. PortInv(q)'
    BY <1>1, <1>7, <2>1, <2>2, <2>3, <2>4 DEF InvOf, Systemctl, Tables, Files, Systemd,
       Effect, At, Known, PortInv, Owed, Aims, Switching, Sound
  <2>. QED BY <2>5, <2>6, <2>7, <2>8, <2>9, <2>10 DEF InvOf
<1>8. CASE mode[q] = "update"
  <2>1. Remaining(q) = {"reload", "start", "wait", "config"} /\ Len(todo[q]) > 1
    BY <1>1, <1>8, AtReload DEF Base
  <2>2. /\ mode'[q] = "update" /\ next'[q] = next[q] /\ before'[q] = before[q]
        /\ Remaining(q)' = Remaining(q) \ {Head(todo[q])}
        /\ undone' = undone \ good
    BY <1>1, <1>2, <1>3, <1>8, <2>1, ProceedMoves
  <2>3. Remaining(q)' = {"start", "wait", "config"}
    BY <1>1, <2>1, <2>2
  <2>4. undone' = undone \ {"reload"}
    BY <1>2, <2>2
  <2>5. Switching(q)'
    BY <1>1, <1>8, <2>1, <2>2, <2>3, <2>4 DEF InvOf, Systemctl, Tables, Files, Systemd,
       Effect, At, Known, Switching, Owed, UnitOf, Aims
  <2>6. Aims(q)'
    BY <1>1, <1>8, <2>1, <2>2, <2>3, <2>4 DEF InvOf, Systemctl, Tables, Files, Systemd,
       Effect, At, Known, Aims, Owed, Sound, Switching
  <2>7. UnitInv(q)'
    BY <1>1, <1>8, <2>1, <2>2, <2>3, <2>4 DEF InvOf, Systemctl, Tables, Files, Systemd,
       Effect, At, Known, UnitInv, Whole, Intact, InUnit, Matches, UnitOf, Owed,
       Switching, Aims, Sound
  <2>8. ReadInv(q)'
    BY <1>1, <1>8, <2>1, <2>2, <2>3, <2>4 DEF InvOf, Systemctl, Tables, Files, Systemd,
       Effect, At, Known, ReadInv, Owed, Undoing
  <2>9. RowInv(q)'
    BY <1>1, <1>8, <2>1, <2>2, <2>3, <2>4 DEF InvOf, Systemctl, Tables, Files, Systemd,
       Effect, At, Known, RowInv, OnRecord, Owed, Aims, Switching, Sound
  <2>10. PortInv(q)'
    BY <1>1, <1>8, <2>1, <2>2, <2>3, <2>4 DEF InvOf, Systemctl, Tables, Files, Systemd,
       Effect, At, Known, PortInv, Owed, Aims, Switching, Sound
  <2>. QED BY <2>5, <2>6, <2>7, <2>8, <2>9, <2>10 DEF InvOf
<1>9. CASE mode[q] = "restore"
  <2>1. Remaining(q) = {"reload", "start"} /\ Len(todo[q]) > 1
    BY <1>1, <1>9, AtReload DEF Base
  <2>2. /\ mode'[q] = "restore" /\ next'[q] = next[q] /\ before'[q] = before[q]
        /\ Remaining(q)' = Remaining(q) \ {Head(todo[q])}
        /\ undone' = undone \ good
    BY <1>1, <1>2, <1>3, <1>9, <2>1, ProceedMoves
  <2>3. Remaining(q)' = {"start"}
    BY <1>1, <2>1, <2>2
  <2>4. undone' = undone \ {"reload"}
    BY <1>2, <2>2
  <2>5. Switching(q)'
    BY <1>1, <1>9, <2>1, <2>2, <2>3, <2>4 DEF InvOf, Systemctl, Tables, Files, Systemd,
       Effect, At, Known, Switching, Owed, UnitOf, Aims
  <2>6. Aims(q)'
    BY <1>1, <1>9, <2>1, <2>2, <2>3, <2>4 DEF InvOf, Systemctl, Tables, Files, Systemd,
       Effect, At, Known, Aims, Owed, Sound, Switching
  <2>7. UnitInv(q)'
    BY <1>1, <1>9, <2>1, <2>2, <2>3, <2>4 DEF InvOf, Systemctl, Tables, Files, Systemd,
       Effect, At, Known, UnitInv, Whole, Intact, InUnit, Matches, UnitOf, Owed,
       Switching, Aims, Sound
  <2>8. ReadInv(q)'
    BY <1>1, <1>9, <2>1, <2>2, <2>3, <2>4 DEF InvOf, Systemctl, Tables, Files, Systemd,
       Effect, At, Known, ReadInv, Owed, Undoing
  <2>9. RowInv(q)'
    BY <1>1, <1>9, <2>1, <2>2, <2>3, <2>4 DEF InvOf, Systemctl, Tables, Files, Systemd,
       Effect, At, Known, RowInv, OnRecord, Owed, Aims, Switching, Sound
  <2>10. PortInv(q)'
    BY <1>1, <1>9, <2>1, <2>2, <2>3, <2>4 DEF InvOf, Systemctl, Tables, Files, Systemd,
       Effect, At, Known, PortInv, Owed, Aims, Switching, Sound
  <2>. QED BY <2>5, <2>6, <2>7, <2>8, <2>9, <2>10 DEF InvOf
<1>. QED BY <1>1, AtReload, <1>4, <1>5, <1>6, <1>7, <1>8, <1>9 DEF Base

LEMMA StartInv ==
    ASSUME Base, NEW q \in Request, InvOf(q), Systemctl(q), At(q, "start")
    PROVE  InvOf(q)'
<1>1. /\ At(q, "start") /\ todo[q] # <<>> /\ Head(todo[q]) = "start"
      /\ next[q] \in Config /\ before[q] \in Config \cup {None} /\ Sound(q)
      /\ config \in Config \cup {None}
  BY StepFacts, BaseGlobal DEF Systemctl, GlobalType
<1>2. PICK good : Proceed(q, good) /\ good = {}
  BY <1>1 DEF Systemctl
<1>3. mode[q] = "update" /\ Head(todo[q]) = "port" => next[q].active # None
  BY <1>1
<1>4. CASE mode[q] = "deploy"
  <2>1. Remaining(q) = {"start", "wait"} /\ Len(todo[q]) > 1
    BY <1>1, <1>4, AtStart DEF Base
  <2>2. /\ mode'[q] = "deploy" /\ next'[q] = next[q] /\ before'[q] = before[q]
        /\ Remaining(q)' = Remaining(q) \ {Head(todo[q])}
        /\ undone' = undone \ good
    BY <1>1, <1>2, <1>3, <1>4, <2>1, ProceedMoves
  <2>3. Remaining(q)' = {"wait"}
    BY <1>1, <2>1, <2>2
  <2>4. undone' = undone
    BY <1>2, <2>2
  <2>5. Switching(q)'
    BY <1>1, <1>4, <2>1, <2>2, <2>3, <2>4 DEF InvOf, Systemctl, Tables, Files, Systemd,
       Effect, At, Known, Switching, Owed, UnitOf, Aims
  <2>6. Aims(q)'
    BY <1>1, <1>4, <2>1, <2>2, <2>3, <2>4 DEF InvOf, Systemctl, Tables, Files, Systemd,
       Effect, At, Known, Aims, Owed, Sound, Switching
  <2>7. UnitInv(q)'
    BY <1>1, <1>4, <2>1, <2>2, <2>3, <2>4 DEF InvOf, Systemctl, Tables, Files, Systemd,
       Effect, At, Known, UnitInv, Whole, Intact, InUnit, Matches, UnitOf, Owed,
       Switching, Aims, Sound
  <2>8. ReadInv(q)'
    BY <1>1, <1>4, <2>1, <2>2, <2>3, <2>4 DEF InvOf, Systemctl, Tables, Files, Systemd,
       Effect, At, Known, ReadInv, Owed, Undoing
  <2>9. RowInv(q)'
    BY <1>1, <1>4, <2>1, <2>2, <2>3, <2>4 DEF InvOf, Systemctl, Tables, Files, Systemd,
       Effect, At, Known, RowInv, OnRecord, Owed, Aims, Switching, Sound
  <2>10. PortInv(q)'
    BY <1>1, <1>4, <2>1, <2>2, <2>3, <2>4 DEF InvOf, Systemctl, Tables, Files, Systemd,
       Effect, At, Known, PortInv, Owed, Aims, Switching, Sound
  <2>. QED BY <2>5, <2>6, <2>7, <2>8, <2>9, <2>10 DEF InvOf
<1>5. CASE mode[q] = "revert"
  <2>1. Remaining(q) = {"start"} /\ Len(todo[q]) = 1
    BY <1>1, <1>5, AtStart DEF Base
  <2>2. /\ mode'[q] = "idle" /\ next'[q] = None /\ before'[q] = None /\ Remaining(q)' = {}
        /\ undone' = undone \ (good \cup Healed(q))
    BY <1>1, <1>2, <1>3, <2>1, ProceedMoves
  <2>3. Remaining(q)' = {}
    BY <1>1, <2>1, <2>2
  <2>4. undone' = undone \ {"link", "unit", "config", "remove"}
    BY <1>2, <1>5, <2>2 DEF Healed
  <2>5. Switching(q)'
    BY <1>1, <1>5, <2>1, <2>2, <2>3, <2>4 DEF InvOf, Systemctl, Tables, Files, Systemd,
       Effect, At, Known, Switching, Owed, UnitOf, Aims
  <2>6. Aims(q)'
    BY <1>1, <1>5, <2>1, <2>2, <2>3, <2>4 DEF InvOf, Systemctl, Tables, Files, Systemd,
       Effect, At, Known, Aims, Owed, Sound, Switching
  <2>7. UnitInv(q)'
    BY <1>1, <1>5, <2>1, <2>2, <2>3, <2>4 DEF InvOf, Systemctl, Tables, Files, Systemd,
       Effect, At, Known, UnitInv, Whole, Intact, InUnit, Matches, UnitOf, Owed,
       Switching, Aims, Sound
  <2>8. ReadInv(q)'
    BY <1>1, <1>5, <2>1, <2>2, <2>3, <2>4 DEF InvOf, Systemctl, Tables, Files, Systemd,
       Effect, At, Known, ReadInv, Owed, Undoing
  <2>9. RowInv(q)'
    BY <1>1, <1>5, <2>1, <2>2, <2>3, <2>4 DEF InvOf, Systemctl, Tables, Files, Systemd,
       Effect, At, Known, RowInv, OnRecord, Owed, Aims, Switching, Sound
  <2>10. PortInv(q)'
    BY <1>1, <1>5, <2>1, <2>2, <2>3, <2>4 DEF InvOf, Systemctl, Tables, Files, Systemd,
       Effect, At, Known, PortInv, Owed, Aims, Switching, Sound
  <2>. QED BY <2>5, <2>6, <2>7, <2>8, <2>9, <2>10 DEF InvOf
<1>6. CASE mode[q] = "rollback"
  <2>1. Remaining(q) = {"start", "wait", "mark"} /\ Len(todo[q]) > 1
    BY <1>1, <1>6, AtStart DEF Base
  <2>2. /\ mode'[q] = "rollback" /\ next'[q] = next[q] /\ before'[q] = before[q]
        /\ Remaining(q)' = Remaining(q) \ {Head(todo[q])}
        /\ undone' = undone \ good
    BY <1>1, <1>2, <1>3, <1>6, <2>1, ProceedMoves
  <2>3. Remaining(q)' = {"wait", "mark"}
    BY <1>1, <2>1, <2>2
  <2>4. undone' = undone
    BY <1>2, <2>2
  <2>5. Switching(q)'
    BY <1>1, <1>6, <2>1, <2>2, <2>3, <2>4 DEF InvOf, Systemctl, Tables, Files, Systemd,
       Effect, At, Known, Switching, Owed, UnitOf, Aims
  <2>6. Aims(q)'
    BY <1>1, <1>6, <2>1, <2>2, <2>3, <2>4 DEF InvOf, Systemctl, Tables, Files, Systemd,
       Effect, At, Known, Aims, Owed, Sound, Switching
  <2>7. UnitInv(q)'
    BY <1>1, <1>6, <2>1, <2>2, <2>3, <2>4 DEF InvOf, Systemctl, Tables, Files, Systemd,
       Effect, At, Known, UnitInv, Whole, Intact, InUnit, Matches, UnitOf, Owed,
       Switching, Aims, Sound
  <2>8. ReadInv(q)'
    BY <1>1, <1>6, <2>1, <2>2, <2>3, <2>4 DEF InvOf, Systemctl, Tables, Files, Systemd,
       Effect, At, Known, ReadInv, Owed, Undoing
  <2>9. RowInv(q)'
    BY <1>1, <1>6, <2>1, <2>2, <2>3, <2>4 DEF InvOf, Systemctl, Tables, Files, Systemd,
       Effect, At, Known, RowInv, OnRecord, Owed, Aims, Switching, Sound
  <2>10. PortInv(q)'
    BY <1>1, <1>6, <2>1, <2>2, <2>3, <2>4 DEF InvOf, Systemctl, Tables, Files, Systemd,
       Effect, At, Known, PortInv, Owed, Aims, Switching, Sound
  <2>. QED BY <2>5, <2>6, <2>7, <2>8, <2>9, <2>10 DEF InvOf
<1>7. CASE mode[q] = "update"
  <2>1. Remaining(q) = {"start", "wait", "config"} /\ Len(todo[q]) > 1
    BY <1>1, <1>7, AtStart DEF Base
  <2>2. /\ mode'[q] = "update" /\ next'[q] = next[q] /\ before'[q] = before[q]
        /\ Remaining(q)' = Remaining(q) \ {Head(todo[q])}
        /\ undone' = undone \ good
    BY <1>1, <1>2, <1>3, <1>7, <2>1, ProceedMoves
  <2>3. Remaining(q)' = {"wait", "config"}
    BY <1>1, <2>1, <2>2
  <2>4. undone' = undone
    BY <1>2, <2>2
  <2>5. Switching(q)'
    BY <1>1, <1>7, <2>1, <2>2, <2>3, <2>4 DEF InvOf, Systemctl, Tables, Files, Systemd,
       Effect, At, Known, Switching, Owed, UnitOf, Aims
  <2>6. Aims(q)'
    BY <1>1, <1>7, <2>1, <2>2, <2>3, <2>4 DEF InvOf, Systemctl, Tables, Files, Systemd,
       Effect, At, Known, Aims, Owed, Sound, Switching
  <2>7. UnitInv(q)'
    BY <1>1, <1>7, <2>1, <2>2, <2>3, <2>4 DEF InvOf, Systemctl, Tables, Files, Systemd,
       Effect, At, Known, UnitInv, Whole, Intact, InUnit, Matches, UnitOf, Owed,
       Switching, Aims, Sound
  <2>8. ReadInv(q)'
    BY <1>1, <1>7, <2>1, <2>2, <2>3, <2>4 DEF InvOf, Systemctl, Tables, Files, Systemd,
       Effect, At, Known, ReadInv, Owed, Undoing
  <2>9. RowInv(q)'
    BY <1>1, <1>7, <2>1, <2>2, <2>3, <2>4 DEF InvOf, Systemctl, Tables, Files, Systemd,
       Effect, At, Known, RowInv, OnRecord, Owed, Aims, Switching, Sound
  <2>10. PortInv(q)'
    BY <1>1, <1>7, <2>1, <2>2, <2>3, <2>4 DEF InvOf, Systemctl, Tables, Files, Systemd,
       Effect, At, Known, PortInv, Owed, Aims, Switching, Sound
  <2>. QED BY <2>5, <2>6, <2>7, <2>8, <2>9, <2>10 DEF InvOf
<1>8. CASE mode[q] = "restore"
  <2>1. Remaining(q) = {"start"} /\ Len(todo[q]) = 1
    BY <1>1, <1>8, AtStart DEF Base
  <2>2. /\ mode'[q] = "idle" /\ next'[q] = None /\ before'[q] = None /\ Remaining(q)' = {}
        /\ undone' = undone \ (good \cup Healed(q))
    BY <1>1, <1>2, <1>3, <2>1, ProceedMoves
  <2>3. Remaining(q)' = {}
    BY <1>1, <2>1, <2>2
  <2>4. undone' = undone \ {}
    BY <1>2, <1>8, <2>2 DEF Healed
  <2>5. Switching(q)'
    BY <1>1, <1>8, <2>1, <2>2, <2>3, <2>4 DEF InvOf, Systemctl, Tables, Files, Systemd,
       Effect, At, Known, Switching, Owed, UnitOf, Aims
  <2>6. Aims(q)'
    BY <1>1, <1>8, <2>1, <2>2, <2>3, <2>4 DEF InvOf, Systemctl, Tables, Files, Systemd,
       Effect, At, Known, Aims, Owed, Sound, Switching
  <2>7. UnitInv(q)'
    BY <1>1, <1>8, <2>1, <2>2, <2>3, <2>4 DEF InvOf, Systemctl, Tables, Files, Systemd,
       Effect, At, Known, UnitInv, Whole, Intact, InUnit, Matches, UnitOf, Owed,
       Switching, Aims, Sound
  <2>8. ReadInv(q)'
    BY <1>1, <1>8, <2>1, <2>2, <2>3, <2>4 DEF InvOf, Systemctl, Tables, Files, Systemd,
       Effect, At, Known, ReadInv, Owed, Undoing
  <2>9. RowInv(q)'
    BY <1>1, <1>8, <2>1, <2>2, <2>3, <2>4 DEF InvOf, Systemctl, Tables, Files, Systemd,
       Effect, At, Known, RowInv, OnRecord, Owed, Aims, Switching, Sound
  <2>10. PortInv(q)'
    BY <1>1, <1>8, <2>1, <2>2, <2>3, <2>4 DEF InvOf, Systemctl, Tables, Files, Systemd,
       Effect, At, Known, PortInv, Owed, Aims, Switching, Sound
  <2>. QED BY <2>5, <2>6, <2>7, <2>8, <2>9, <2>10 DEF InvOf
<1>. QED BY <1>1, AtStart, <1>4, <1>5, <1>6, <1>7, <1>8 DEF Base

LEMMA StopServiceInv ==
    ASSUME Base, NEW q \in Request, InvOf(q), Systemctl(q), At(q, "stop")
    PROVE  InvOf(q)'
<1>1. /\ At(q, "stop") /\ todo[q] # <<>> /\ Head(todo[q]) = "stop"
      /\ next[q] \in Config /\ before[q] \in Config \cup {None} /\ Sound(q)
      /\ config \in Config \cup {None}
  BY StepFacts, BaseGlobal DEF Systemctl, GlobalType
<1>2. PICK good : Proceed(q, good) /\ good = {}
  BY <1>1 DEF Systemctl
<1>3. mode[q] = "update" /\ Head(todo[q]) = "port" => next[q].active # None
  BY <1>1
<1>4. CASE mode[q] = "clear"
  <2>1. Remaining(q) = {"stop", "remove", "reload", "config", "fail"} /\ Len(todo[q]) > 1
    BY <1>1, <1>4, AtStop DEF Base
  <2>2. /\ mode'[q] = "clear" /\ next'[q] = next[q] /\ before'[q] = before[q]
        /\ Remaining(q)' = Remaining(q) \ {Head(todo[q])}
        /\ undone' = undone \ good
    BY <1>1, <1>2, <1>3, <1>4, <2>1, ProceedMoves
  <2>3. Remaining(q)' = {"remove", "reload", "config", "fail"}
    BY <1>1, <2>1, <2>2
  <2>4. undone' = undone
    BY <1>2, <2>2
  <2>5. Switching(q)'
    BY <1>1, <1>4, <2>1, <2>2, <2>3, <2>4 DEF InvOf, Systemctl, Tables, Files, Systemd,
       Effect, At, Known, Switching, Owed, UnitOf, Aims
  <2>6. Aims(q)'
    BY <1>1, <1>4, <2>1, <2>2, <2>3, <2>4 DEF InvOf, Systemctl, Tables, Files, Systemd,
       Effect, At, Known, Aims, Owed, Sound, Switching
  <2>7. UnitInv(q)'
    BY <1>1, <1>4, <2>1, <2>2, <2>3, <2>4 DEF InvOf, Systemctl, Tables, Files, Systemd,
       Effect, At, Known, UnitInv, Whole, Intact, InUnit, Matches, UnitOf, Owed,
       Switching, Aims, Sound
  <2>8. ReadInv(q)'
    BY <1>1, <1>4, <2>1, <2>2, <2>3, <2>4 DEF InvOf, Systemctl, Tables, Files, Systemd,
       Effect, At, Known, ReadInv, Owed, Undoing
  <2>9. RowInv(q)'
    BY <1>1, <1>4, <2>1, <2>2, <2>3, <2>4 DEF InvOf, Systemctl, Tables, Files, Systemd,
       Effect, At, Known, RowInv, OnRecord, Owed, Aims, Switching, Sound
  <2>10. PortInv(q)'
    BY <1>1, <1>4, <2>1, <2>2, <2>3, <2>4 DEF InvOf, Systemctl, Tables, Files, Systemd,
       Effect, At, Known, PortInv, Owed, Aims, Switching, Sound
  <2>. QED BY <2>5, <2>6, <2>7, <2>8, <2>9, <2>10 DEF InvOf
<1>. QED BY <1>1, AtStop, <1>4 DEF Base

LEMMA ReadyInv ==
    ASSUME Base, NEW q \in Request, InvOf(q), Ready(q)
    PROVE  InvOf(q)'
<1>1. /\ At(q, "wait") /\ todo[q] # <<>> /\ Head(todo[q]) = "wait"
      /\ next[q] \in Config /\ before[q] \in Config \cup {None} /\ Sound(q)
      /\ config \in Config \cup {None}
  BY StepFacts, BaseGlobal DEF Ready, GlobalType
<1>2. PICK good : Proceed(q, good) /\ good = {}
  BY <1>1 DEF Ready
<1>3. mode[q] = "update" /\ Head(todo[q]) = "port" => next[q].active # None
  BY <1>1
<1>4. CASE mode[q] = "deploy"
  <2>1. Remaining(q) = {"wait"} /\ Len(todo[q]) = 1
    BY <1>1, <1>4, AtWait DEF Base
  <2>2. /\ mode'[q] = "idle" /\ next'[q] = None /\ before'[q] = None /\ Remaining(q)' = {}
        /\ undone' = undone \ (good \cup Healed(q))
    BY <1>1, <1>2, <1>3, <2>1, ProceedMoves
  <2>3. Remaining(q)' = {}
    BY <1>1, <2>1, <2>2
  <2>4. undone' = undone \ {"link", "unit", "config", "remove"}
    BY <1>2, <1>4, <2>2 DEF Healed
  <2>5. Switching(q)'
    BY <1>1, <1>4, <2>1, <2>2, <2>3, <2>4 DEF InvOf, Ready, Tables, Files, Systemd,
       Switching, Owed, UnitOf, Aims
  <2>6. Aims(q)'
    BY <1>1, <1>4, <2>1, <2>2, <2>3, <2>4 DEF InvOf, Ready, Tables, Files, Systemd,
       Aims, Owed, Sound, Switching
  <2>7. UnitInv(q)'
    BY <1>1, <1>4, <2>1, <2>2, <2>3, <2>4 DEF InvOf, Ready, Tables, Files, Systemd,
       UnitInv, Whole, Intact, InUnit, Matches, UnitOf, Owed, Switching, Aims, Sound
  <2>8. ReadInv(q)'
    BY <1>1, <1>4, <2>1, <2>2, <2>3, <2>4 DEF InvOf, Ready, Tables, Files, Systemd,
       ReadInv, Owed, Undoing
  <2>9. RowInv(q)'
    BY <1>1, <1>4, <2>1, <2>2, <2>3, <2>4 DEF InvOf, Ready, Tables, Files, Systemd,
       RowInv, OnRecord, Owed, Aims, Switching, Sound
  <2>10. PortInv(q)'
    BY <1>1, <1>4, <2>1, <2>2, <2>3, <2>4 DEF InvOf, Ready, Tables, Files, Systemd,
       PortInv, Owed, Aims, Switching, Sound
  <2>. QED BY <2>5, <2>6, <2>7, <2>8, <2>9, <2>10 DEF InvOf
<1>5. CASE mode[q] = "rollback"
  <2>1. Remaining(q) = {"wait", "mark"} /\ Len(todo[q]) > 1
    BY <1>1, <1>5, AtWait DEF Base
  <2>2. /\ mode'[q] = "rollback" /\ next'[q] = next[q] /\ before'[q] = before[q]
        /\ Remaining(q)' = Remaining(q) \ {Head(todo[q])}
        /\ undone' = undone \ good
    BY <1>1, <1>2, <1>3, <1>5, <2>1, ProceedMoves
  <2>3. Remaining(q)' = {"mark"}
    BY <1>1, <2>1, <2>2
  <2>4. undone' = undone
    BY <1>2, <2>2
  <2>5. Switching(q)'
    BY <1>1, <1>5, <2>1, <2>2, <2>3, <2>4 DEF InvOf, Ready, Tables, Files, Systemd,
       Switching, Owed, UnitOf, Aims
  <2>6. Aims(q)'
    BY <1>1, <1>5, <2>1, <2>2, <2>3, <2>4 DEF InvOf, Ready, Tables, Files, Systemd,
       Aims, Owed, Sound, Switching
  <2>7. UnitInv(q)'
    BY <1>1, <1>5, <2>1, <2>2, <2>3, <2>4 DEF InvOf, Ready, Tables, Files, Systemd,
       UnitInv, Whole, Intact, InUnit, Matches, UnitOf, Owed, Switching, Aims, Sound
  <2>8. ReadInv(q)'
    BY <1>1, <1>5, <2>1, <2>2, <2>3, <2>4 DEF InvOf, Ready, Tables, Files, Systemd,
       ReadInv, Owed, Undoing
  <2>9. RowInv(q)'
    BY <1>1, <1>5, <2>1, <2>2, <2>3, <2>4 DEF InvOf, Ready, Tables, Files, Systemd,
       RowInv, OnRecord, Owed, Aims, Switching, Sound
  <2>10. PortInv(q)'
    BY <1>1, <1>5, <2>1, <2>2, <2>3, <2>4 DEF InvOf, Ready, Tables, Files, Systemd,
       PortInv, Owed, Aims, Switching, Sound
  <2>. QED BY <2>5, <2>6, <2>7, <2>8, <2>9, <2>10 DEF InvOf
<1>6. CASE mode[q] = "update"
  <2>1. Remaining(q) = {"wait", "config"} /\ Len(todo[q]) > 1
    BY <1>1, <1>6, AtWait DEF Base
  <2>2. /\ mode'[q] = "update" /\ next'[q] = next[q] /\ before'[q] = before[q]
        /\ Remaining(q)' = Remaining(q) \ {Head(todo[q])}
        /\ undone' = undone \ good
    BY <1>1, <1>2, <1>3, <1>6, <2>1, ProceedMoves
  <2>3. Remaining(q)' = {"config"}
    BY <1>1, <2>1, <2>2
  <2>4. undone' = undone
    BY <1>2, <2>2
  <2>5. Switching(q)'
    BY <1>1, <1>6, <2>1, <2>2, <2>3, <2>4 DEF InvOf, Ready, Tables, Files, Systemd,
       Switching, Owed, UnitOf, Aims
  <2>6. Aims(q)'
    BY <1>1, <1>6, <2>1, <2>2, <2>3, <2>4 DEF InvOf, Ready, Tables, Files, Systemd,
       Aims, Owed, Sound, Switching
  <2>7. UnitInv(q)'
    BY <1>1, <1>6, <2>1, <2>2, <2>3, <2>4 DEF InvOf, Ready, Tables, Files, Systemd,
       UnitInv, Whole, Intact, InUnit, Matches, UnitOf, Owed, Switching, Aims, Sound
  <2>8. ReadInv(q)'
    BY <1>1, <1>6, <2>1, <2>2, <2>3, <2>4 DEF InvOf, Ready, Tables, Files, Systemd,
       ReadInv, Owed, Undoing
  <2>9. RowInv(q)'
    BY <1>1, <1>6, <2>1, <2>2, <2>3, <2>4 DEF InvOf, Ready, Tables, Files, Systemd,
       RowInv, OnRecord, Owed, Aims, Switching, Sound
  <2>10. PortInv(q)'
    BY <1>1, <1>6, <2>1, <2>2, <2>3, <2>4 DEF InvOf, Ready, Tables, Files, Systemd,
       PortInv, Owed, Aims, Switching, Sound
  <2>. QED BY <2>5, <2>6, <2>7, <2>8, <2>9, <2>10 DEF InvOf
<1>. QED BY <1>1, AtWait, <1>4, <1>5, <1>6 DEF Base

\* So does each that fails, whatever the code does about it:
LEMMA NotDoneInv ==
    ASSUME Base, NEW q \in Request, InvOf(q), todo[q] # <<>>, NotDone(q),
           UNCHANGED <<Tables, Files, cloudPanelPort>>, loaded' \in {loaded, unit}
    PROVE  InvOf(q)'
<1>1. /\ next[q] \in Config /\ before[q] \in Config \cup {None} /\ Sound(q)
      /\ config \in Config \cup {None} /\ mode[q] \in Mode \ {"idle"}
  BY NothingAhead DEF Base, TypeOK, Sound
<1>2. config' = config /\ rows' = rows /\ current' = current /\ unit' = unit
      /\ cloudPanelPort' = cloudPanelPort
  BY DEF Tables, Files
<1>3. ASSUME mode[q] \in {"adopt", "rollback", "revert", "deploy", "update", "clear"}, Over(q),
             undone' = undone \cup LeftUndone(q),
             mode[q] = "update" => Head(todo[q]) \in {"port", "config"},
             mode[q] = "clear" => Head(todo[q]) = "config",
             mode[q] = "deploy" =>
               \/ Head(todo[q]) \in {"link", "unit", "config", "row"}
               \/ before[q].active # None /\ rows[before[q].active] = "none"
      PROVE  InvOf(q)'
  <2>1. mode'[q] = "idle" /\ next'[q] = None /\ before'[q] = None /\ Remaining(q)' = {}
    BY <1>3, OverMoves
  <2>2. CASE mode[q] = "adopt"
    <3>1. undone' = undone \cup (IF todo[q] = Plan["adopt"] THEN {}
                                ELSE Remaining(q))
      BY <1>3, <2>2 DEF LeftUndone, Undoing
    <3>2. Switching(q)'
      BY <1>1, <1>3, <1>2, <2>1, <2>2, <3>1, AdoptAhead DEF InvOf, Switching, Owed,
         UnitOf, Aims, Base
    <3>3. Aims(q)'
      BY <1>1, <1>3, <1>2, <2>1, <2>2, <3>1, AdoptAhead DEF InvOf, Aims, Owed, Sound,
         Switching, Base
    <3>4. UnitInv(q)'
      BY <1>1, <1>3, <1>2, <2>1, <2>2, <3>1, AdoptAhead DEF InvOf, UnitInv, Whole,
         Intact, InUnit, Matches, UnitOf, Owed, Switching, Aims, Sound, Base
    <3>5. ReadInv(q)'
      BY <1>1, <1>3, <1>2, <2>1, <2>2, <3>1, AdoptAhead DEF InvOf, ReadInv, Owed,
         Undoing, Base
    <3>6. RowInv(q)'
      BY <1>1, <1>3, <1>2, <2>1, <2>2, <3>1, AdoptAhead DEF InvOf, RowInv, OnRecord,
         Owed, Aims, Switching, Sound, Base
    <3>7. PortInv(q)'
      BY <1>1, <1>3, <1>2, <2>1, <2>2, <3>1, AdoptAhead DEF InvOf, PortInv, Owed, Aims,
         Switching, Sound, Base
    <3>. QED BY <3>2, <3>3, <3>4, <3>5, <3>6, <3>7 DEF InvOf
  <2>3. CASE mode[q] = "rollback"
    <3>1. undone' = undone \cup (IF todo[q] = Plan["rollback"] THEN {}
                                ELSE Remaining(q))
      BY <1>3, <2>3 DEF LeftUndone, Undoing
    <3>2. Switching(q)'
      BY <1>1, <1>3, <1>2, <2>1, <2>3, <3>1, RollbackAhead DEF InvOf, Switching, Owed,
         UnitOf, Aims, Base
    <3>3. Aims(q)'
      BY <1>1, <1>3, <1>2, <2>1, <2>3, <3>1, RollbackAhead DEF InvOf, Aims, Owed, Sound,
         Switching, Base
    <3>4. UnitInv(q)'
      BY <1>1, <1>3, <1>2, <2>1, <2>3, <3>1, RollbackAhead DEF InvOf, UnitInv, Whole,
         Intact, InUnit, Matches, UnitOf, Owed, Switching, Aims, Sound, Base
    <3>5. ReadInv(q)'
      BY <1>1, <1>3, <1>2, <2>1, <2>3, <3>1, RollbackAhead DEF InvOf, ReadInv, Owed,
         Undoing, Base
    <3>6. RowInv(q)'
      BY <1>1, <1>3, <1>2, <2>1, <2>3, <3>1, RollbackAhead DEF InvOf, RowInv, OnRecord,
         Owed, Aims, Switching, Sound, Base
    <3>7. PortInv(q)'
      BY <1>1, <1>3, <1>2, <2>1, <2>3, <3>1, RollbackAhead DEF InvOf, PortInv, Owed,
         Aims, Switching, Sound, Base
    <3>. QED BY <3>2, <3>3, <3>4, <3>5, <3>6, <3>7 DEF InvOf
  <2>4. CASE mode[q] = "revert"
    <3>1. undone' = undone \cup (IF FALSE THEN {}
                                ELSE Remaining(q))
      BY <1>3, <2>4 DEF LeftUndone, Undoing
    <3>2. Switching(q)'
      BY <1>1, <1>3, <1>2, <2>1, <2>4, <3>1, RevertAhead DEF InvOf, Switching, Owed,
         UnitOf, Aims, Base
    <3>3. Aims(q)'
      BY <1>1, <1>3, <1>2, <2>1, <2>4, <3>1, RevertAhead DEF InvOf, Aims, Owed, Sound,
         Switching, Base
    <3>4. UnitInv(q)'
      BY <1>1, <1>3, <1>2, <2>1, <2>4, <3>1, RevertAhead DEF InvOf, UnitInv, Whole,
         Intact, InUnit, Matches, UnitOf, Owed, Switching, Aims, Sound, Base
    <3>5. ReadInv(q)'
      BY <1>1, <1>3, <1>2, <2>1, <2>4, <3>1, RevertAhead DEF InvOf, ReadInv, Owed,
         Undoing, Base
    <3>6. RowInv(q)'
      BY <1>1, <1>3, <1>2, <2>1, <2>4, <3>1, RevertAhead DEF InvOf, RowInv, OnRecord,
         Owed, Aims, Switching, Sound, Base
    <3>7. PortInv(q)'
      BY <1>1, <1>3, <1>2, <2>1, <2>4, <3>1, RevertAhead DEF InvOf, PortInv, Owed, Aims,
         Switching, Sound, Base
    <3>. QED BY <3>2, <3>3, <3>4, <3>5, <3>6, <3>7 DEF InvOf
  <2>5. CASE mode[q] = "deploy"
    <3>1. undone' = undone \cup (IF todo[q] = Plan["deploy"] THEN {}
                                ELSE Remaining(q))
      BY <1>3, <2>5 DEF LeftUndone, Undoing
    <3>2. Switching(q)'
      BY <1>1, <1>3, <1>2, <2>1, <2>5, <3>1, DeployAhead DEF InvOf, Switching, Owed,
         UnitOf, Aims, Base
    <3>3. Aims(q)'
      BY <1>1, <1>3, <1>2, <2>1, <2>5, <3>1, DeployAhead DEF InvOf, Aims, Owed, Sound,
         Switching, Base
    <3>4. UnitInv(q)'
      BY <1>1, <1>3, <1>2, <2>1, <2>5, <3>1, DeployAhead DEF InvOf, UnitInv, Whole,
         Intact, InUnit, Matches, UnitOf, Owed, Switching, Aims, Sound, Base
    <3>5. ReadInv(q)'
      BY <1>1, <1>3, <1>2, <2>1, <2>5, <3>1, DeployAhead DEF InvOf, ReadInv, Owed,
         Undoing, Base
    <3>6. RowInv(q)'
      BY <1>1, <1>3, <1>2, <2>1, <2>5, <3>1, DeployAhead DEF InvOf, RowInv, OnRecord,
         Owed, Aims, Switching, Sound, Base
    <3>7. PortInv(q)'
      BY <1>1, <1>3, <1>2, <2>1, <2>5, <3>1, DeployAhead DEF InvOf, PortInv, Owed, Aims,
         Switching, Sound, Base
    <3>. QED BY <3>2, <3>3, <3>4, <3>5, <3>6, <3>7 DEF InvOf
  <2>6. CASE mode[q] = "update"
    <3>1. undone' = undone \cup (IF todo[q] = Plan["update"] THEN {}
                                ELSE Remaining(q) \cup {"port"})
      BY <1>3, <2>6 DEF LeftUndone, Undoing
    <3>2. Switching(q)'
      BY <1>1, <1>3, <1>2, <2>1, <2>6, <3>1, UpdateAhead DEF InvOf, Switching, Owed,
         UnitOf, Aims, Base
    <3>3. Aims(q)'
      BY <1>1, <1>3, <1>2, <2>1, <2>6, <3>1, UpdateAhead DEF InvOf, Aims, Owed, Sound,
         Switching, Base
    <3>4. UnitInv(q)'
      BY <1>1, <1>3, <1>2, <2>1, <2>6, <3>1, UpdateAhead DEF InvOf, UnitInv, Whole,
         Intact, InUnit, Matches, UnitOf, Owed, Switching, Aims, Sound, Base
    <3>5. ReadInv(q)'
      BY <1>1, <1>3, <1>2, <2>1, <2>6, <3>1, UpdateAhead DEF InvOf, ReadInv, Owed,
         Undoing, Base
    <3>6. RowInv(q)'
      BY <1>1, <1>3, <1>2, <2>1, <2>6, <3>1, UpdateAhead DEF InvOf, RowInv, OnRecord,
         Owed, Aims, Switching, Sound, Base
    <3>7. PortInv(q)'
      BY <1>1, <1>3, <1>2, <2>1, <2>6, <3>1, UpdateAhead DEF InvOf, PortInv, Owed, Aims,
         Switching, Sound, Base
    <3>. QED BY <3>2, <3>3, <3>4, <3>5, <3>6, <3>7 DEF InvOf
  <2>7. CASE mode[q] = "clear"
    <3>1. undone' = undone \cup (IF FALSE THEN {}
                                ELSE Remaining(q))
      BY <1>3, <2>7 DEF LeftUndone, Undoing
    <3>2. Switching(q)'
      BY <1>1, <1>3, <1>2, <2>1, <2>7, <3>1, ClearAhead DEF InvOf, Switching, Owed,
         UnitOf, Aims, Base
    <3>3. Aims(q)'
      BY <1>1, <1>3, <1>2, <2>1, <2>7, <3>1, ClearAhead DEF InvOf, Aims, Owed, Sound,
         Switching, Base
    <3>4. UnitInv(q)'
      BY <1>1, <1>3, <1>2, <2>1, <2>7, <3>1, ClearAhead DEF InvOf, UnitInv, Whole,
         Intact, InUnit, Matches, UnitOf, Owed, Switching, Aims, Sound, Base
    <3>5. ReadInv(q)'
      BY <1>1, <1>3, <1>2, <2>1, <2>7, <3>1, ClearAhead DEF InvOf, ReadInv, Owed,
         Undoing, Base
    <3>6. RowInv(q)'
      BY <1>1, <1>3, <1>2, <2>1, <2>7, <3>1, ClearAhead DEF InvOf, RowInv, OnRecord,
         Owed, Aims, Switching, Sound, Base
    <3>7. PortInv(q)'
      BY <1>1, <1>3, <1>2, <2>1, <2>7, <3>1, ClearAhead DEF InvOf, PortInv, Owed, Aims,
         Switching, Sound, Base
    <3>. QED BY <3>2, <3>3, <3>4, <3>5, <3>6, <3>7 DEF InvOf
  <2>. QED BY <1>3, <2>2, <2>3, <2>4, <2>5, <2>6, <2>7
<1>4. ASSUME mode[q] = "deploy", Head(todo[q]) \in {"reload", "start", "wait"},
             before[q].active = None, before' = before, undone' = undone,
             Takes(q, "clear", Away(q))
      PROVE  InvOf(q)'
  <2>1. mode'[q] = "clear" /\ next'[q] = Away(q) /\ before'[q] = before[q]
    BY <1>4 DEF Takes, Base, TypeOK
  <2>2. Remaining(q)' = {"stop", "remove", "reload", "config", "fail"}
    <3>1. todo'[q] = Plan["clear"] /\ "clear" \in Mode
      BY <1>4, Modes DEF Takes, Base, TypeOK
    <3>. QED BY <2>1, <3>1, WholeIsSuffix, AllSteps
  <2>3. Switching(q)'
    BY <1>1, <1>4, <1>2, <2>1, <2>2, DeployAhead DEF InvOf, Switching, Owed, UnitOf,
       Aims, Away, Base, Undoing
  <2>4. Aims(q)'
    BY <1>1, <1>4, <1>2, <2>1, <2>2, DeployAhead DEF InvOf, Aims, Owed, Sound,
       Switching, Away, Base, Undoing
  <2>5. UnitInv(q)'
    BY <1>1, <1>4, <1>2, <2>1, <2>2, DeployAhead DEF InvOf, UnitInv, Whole, Intact,
       InUnit, Matches, UnitOf, Owed, Switching, Aims, Sound, Away, Base, Undoing
  <2>6. ReadInv(q)'
    BY <1>1, <1>4, <1>2, <2>1, <2>2, DeployAhead DEF InvOf, ReadInv, Owed, Undoing,
       Away, Base
  <2>7. RowInv(q)'
    BY <1>1, <1>4, <1>2, <2>1, <2>2, DeployAhead DEF InvOf, RowInv, OnRecord, Owed,
       Aims, Switching, Sound, Away, Base, Undoing
  <2>8. PortInv(q)'
    BY <1>1, <1>4, <1>2, <2>1, <2>2, DeployAhead DEF InvOf, PortInv, Owed, Aims,
       Switching, Sound, Away, Base, Undoing
  <2>. QED BY <2>3, <2>4, <2>5, <2>6, <2>7, <2>8 DEF InvOf
<1>5. ASSUME mode[q] = "deploy", Head(todo[q]) \in {"reload", "start", "wait"},
             before[q].active # None, rows[before[q].active] # "none",
             before' = before, undone' = undone,
             Takes(q, "revert", Back(q))
      PROVE  InvOf(q)'
  <2>1. mode'[q] = "revert" /\ next'[q] = Back(q) /\ before'[q] = before[q]
    BY <1>5 DEF Takes, Base, TypeOK
  <2>2. Remaining(q)' = {"link", "unit", "config", "reload", "start"}
    <3>1. todo'[q] = Plan["revert"] /\ "revert" \in Mode
      BY <1>5, Modes DEF Takes, Base, TypeOK
    <3>. QED BY <2>1, <3>1, WholeIsSuffix, AllSteps
  <2>3. Switching(q)'
    BY <1>1, <1>5, <1>2, <2>1, <2>2, DeployAhead DEF InvOf, Switching, Owed, UnitOf,
       Aims, Back, Base, Undoing
  <2>4. Aims(q)'
    BY <1>1, <1>5, <1>2, <2>1, <2>2, DeployAhead DEF InvOf, Aims, Owed, Sound,
       Switching, Back, Base, Undoing
  <2>5. UnitInv(q)'
    BY <1>1, <1>5, <1>2, <2>1, <2>2, DeployAhead DEF InvOf, UnitInv, Whole, Intact,
       InUnit, Matches, UnitOf, Owed, Switching, Aims, Sound, Back, Base, Undoing
  <2>6. ReadInv(q)'
    BY <1>1, <1>5, <1>2, <2>1, <2>2, DeployAhead DEF InvOf, ReadInv, Owed, Undoing,
       Back, Base
  <2>7. RowInv(q)'
    BY <1>1, <1>5, <1>2, <2>1, <2>2, DeployAhead DEF InvOf, RowInv, OnRecord, Owed,
       Aims, Switching, Sound, Back, Base, Undoing
  <2>8. PortInv(q)'
    BY <1>1, <1>5, <1>2, <2>1, <2>2, DeployAhead DEF InvOf, PortInv, Owed, Aims,
       Switching, Sound, Back, Base, Undoing
  <2>. QED BY <2>3, <2>4, <2>5, <2>6, <2>7, <2>8 DEF InvOf
<1>6. ASSUME mode[q] = "update", Head(todo[q]) \in {"unit", "reload", "start", "wait"},
             before' = before, undone' = undone,
             Takes(q, "restore", before[q])
      PROVE  InvOf(q)'
  <2>1. mode'[q] = "restore" /\ next'[q] = before[q] /\ before'[q] = before[q]
    BY <1>6 DEF Takes, Base, TypeOK
  <2>2. Remaining(q)' = {"port", "unit", "reload", "start"}
    <3>1. todo'[q] = Plan["restore"] /\ "restore" \in Mode
      BY <1>6, Modes DEF Takes, Base, TypeOK
    <3>. QED BY <2>1, <3>1, WholeIsSuffix, AllSteps
  <2>3. Switching(q)'
    BY <1>1, <1>6, <1>2, <2>1, <2>2, UpdateAhead DEF InvOf, Switching, Owed, UnitOf,
       Aims, Base, Undoing
  <2>4. Aims(q)'
    BY <1>1, <1>6, <1>2, <2>1, <2>2, UpdateAhead DEF InvOf, Aims, Owed, Sound,
       Switching, Base, Undoing
  <2>5. UnitInv(q)'
    BY <1>1, <1>6, <1>2, <2>1, <2>2, UpdateAhead DEF InvOf, UnitInv, Whole, Intact,
       InUnit, Matches, UnitOf, Owed, Switching, Aims, Sound, Base, Undoing
  <2>6. ReadInv(q)'
    BY <1>1, <1>6, <1>2, <2>1, <2>2, UpdateAhead DEF InvOf, ReadInv, Owed, Undoing, Base
  <2>7. RowInv(q)'
    BY <1>1, <1>6, <1>2, <2>1, <2>2, UpdateAhead DEF InvOf, RowInv, OnRecord, Owed,
       Aims, Switching, Sound, Base, Undoing
  <2>8. PortInv(q)'
    BY <1>1, <1>6, <1>2, <2>1, <2>2, UpdateAhead DEF InvOf, PortInv, Owed, Aims,
       Switching, Sound, Base, Undoing
  <2>. QED BY <2>3, <2>4, <2>5, <2>6, <2>7, <2>8 DEF InvOf
<1>7. ASSUME mode[q] = "restore", undone' = undone \cup {Head(todo[q])},
             Len(todo[q]) > 1 => Tailed(q),
             Len(todo[q]) = 1 => Over(q)
      PROVE  InvOf(q)'
  <2>1. CASE Len(todo[q]) > 1
    <3>1. mode'[q] = mode[q] /\ next'[q] = next[q] /\ before'[q] = before[q]
      BY <1>7, <2>1 DEF Tailed
    <3>2. Remaining(q)' = Remaining(q) \ {Head(todo[q])}
      BY <1>7, <2>1, TailedIsSound
    <3>3. Switching(q)'
      BY <1>1, <1>7, <1>2, <2>1, <3>1, <3>2, RestoreAhead DEF InvOf, Switching, Owed,
         UnitOf, Aims, Base
    <3>4. Aims(q)'
      BY <1>1, <1>7, <1>2, <2>1, <3>1, <3>2, RestoreAhead DEF InvOf, Aims, Owed, Sound,
         Switching, Base
    <3>5. UnitInv(q)'
      BY <1>1, <1>7, <1>2, <2>1, <3>1, <3>2, RestoreAhead DEF InvOf, UnitInv, Whole,
         Intact, InUnit, Matches, UnitOf, Owed, Switching, Aims, Sound, Base
    <3>6. ReadInv(q)'
      BY <1>1, <1>7, <1>2, <2>1, <3>1, <3>2, RestoreAhead DEF InvOf, ReadInv, Owed,
         Undoing, Base
    <3>7. RowInv(q)'
      BY <1>1, <1>7, <1>2, <2>1, <3>1, <3>2, RestoreAhead DEF InvOf, RowInv, OnRecord,
         Owed, Aims, Switching, Sound, Base
    <3>8. PortInv(q)'
      BY <1>1, <1>7, <1>2, <2>1, <3>1, <3>2, RestoreAhead DEF InvOf, PortInv, Owed,
         Aims, Switching, Sound, Base
    <3>. QED BY <3>3, <3>4, <3>5, <3>6, <3>7, <3>8 DEF InvOf
  <2>2. CASE Len(todo[q]) = 1
    <3>1. mode'[q] = "idle" /\ next'[q] = None /\ before'[q] = None /\ Remaining(q)' = {}
      BY <1>7, <2>2, OverMoves
    <3>2. ~(Len(todo[q]) > 1)
      <4>1. ~(1 > 1)
        OBVIOUS
      <4>. QED BY <2>2, <4>1, Zenon
    <3>3. Head(todo[q]) = "start" /\ Remaining(q) = {"start"}
      BY <1>7, <3>2, RestoreAhead DEF Base
    <3>4. Switching(q)'
      BY <1>1, <1>7, <1>2, <2>2, <3>1, <3>3 DEF InvOf, Switching, Owed, UnitOf, Aims
    <3>5. Aims(q)'
      BY <1>1, <1>7, <1>2, <2>2, <3>1, <3>3 DEF InvOf, Aims, Owed, Sound, Switching
    <3>6. UnitInv(q)'
      BY <1>1, <1>7, <1>2, <2>2, <3>1, <3>3 DEF InvOf, UnitInv, Whole, Intact, InUnit,
         Matches, UnitOf, Owed, Switching, Aims, Sound
    <3>7. ReadInv(q)'
      BY <1>1, <1>7, <1>2, <2>2, <3>1, <3>3 DEF InvOf, ReadInv, Owed, Undoing
    <3>8. RowInv(q)'
      BY <1>1, <1>7, <1>2, <2>2, <3>1, <3>3 DEF InvOf, RowInv, OnRecord, Owed, Aims,
         Switching, Sound
    <3>9. PortInv(q)'
      BY <1>1, <1>7, <1>2, <2>2, <3>1, <3>3 DEF InvOf, PortInv, Owed, Aims, Switching,
         Sound
    <3>. QED BY <3>4, <3>5, <3>6, <3>7, <3>8, <3>9 DEF InvOf
  <2>. QED BY <1>7, <2>1, <2>2, RestoreAhead DEF Base
<1>8. ASSUME mode[q] = "clear", undone' = undone \cup {Head(todo[q])},
             Head(todo[q]) # "config",
             Len(todo[q]) > 1 => Tailed(q),
             Len(todo[q]) = 1 => Over(q)
      PROVE  InvOf(q)'
  <2>1. CASE Len(todo[q]) > 1
    <3>1. mode'[q] = mode[q] /\ next'[q] = next[q] /\ before'[q] = before[q]
      BY <1>8, <2>1 DEF Tailed
    <3>2. Remaining(q)' = Remaining(q) \ {Head(todo[q])}
      BY <1>8, <2>1, TailedIsSound
    <3>3. Switching(q)'
      BY <1>1, <1>8, <1>2, <2>1, <3>1, <3>2, ClearAhead DEF InvOf, Switching, Owed,
         UnitOf, Aims, Base
    <3>4. Aims(q)'
      BY <1>1, <1>8, <1>2, <2>1, <3>1, <3>2, ClearAhead DEF InvOf, Aims, Owed, Sound,
         Switching, Base
    <3>5. UnitInv(q)'
      BY <1>1, <1>8, <1>2, <2>1, <3>1, <3>2, ClearAhead DEF InvOf, UnitInv, Whole,
         Intact, InUnit, Matches, UnitOf, Owed, Switching, Aims, Sound, Base
    <3>6. ReadInv(q)'
      BY <1>1, <1>8, <1>2, <2>1, <3>1, <3>2, ClearAhead DEF InvOf, ReadInv, Owed,
         Undoing, Base
    <3>7. RowInv(q)'
      BY <1>1, <1>8, <1>2, <2>1, <3>1, <3>2, ClearAhead DEF InvOf, RowInv, OnRecord,
         Owed, Aims, Switching, Sound, Base
    <3>8. PortInv(q)'
      BY <1>1, <1>8, <1>2, <2>1, <3>1, <3>2, ClearAhead DEF InvOf, PortInv, Owed, Aims,
         Switching, Sound, Base
    <3>. QED BY <3>3, <3>4, <3>5, <3>6, <3>7, <3>8 DEF InvOf
  <2>2. CASE Len(todo[q]) = 1
    <3>1. mode'[q] = "idle" /\ next'[q] = None /\ before'[q] = None /\ Remaining(q)' = {}
      BY <1>8, <2>2, OverMoves
    <3>2. ~(Len(todo[q]) > 1)
      <4>1. ~(1 > 1)
        OBVIOUS
      <4>. QED BY <2>2, <4>1, Zenon
    <3>3. Head(todo[q]) = "fail" /\ Remaining(q) = {"fail"}
      BY <1>8, <3>2, ClearAhead DEF Base
    <3>4. Switching(q)'
      BY <1>1, <1>8, <1>2, <2>2, <3>1, <3>3 DEF InvOf, Switching, Owed, UnitOf, Aims
    <3>5. Aims(q)'
      BY <1>1, <1>8, <1>2, <2>2, <3>1, <3>3 DEF InvOf, Aims, Owed, Sound, Switching
    <3>6. UnitInv(q)'
      BY <1>1, <1>8, <1>2, <2>2, <3>1, <3>3 DEF InvOf, UnitInv, Whole, Intact, InUnit,
         Matches, UnitOf, Owed, Switching, Aims, Sound
    <3>7. ReadInv(q)'
      BY <1>1, <1>8, <1>2, <2>2, <3>1, <3>3 DEF InvOf, ReadInv, Owed, Undoing
    <3>8. RowInv(q)'
      BY <1>1, <1>8, <1>2, <2>2, <3>1, <3>3 DEF InvOf, RowInv, OnRecord, Owed, Aims,
         Switching, Sound
    <3>9. PortInv(q)'
      BY <1>1, <1>8, <1>2, <2>2, <3>1, <3>3 DEF InvOf, PortInv, Owed, Aims, Switching,
         Sound
    <3>. QED BY <3>4, <3>5, <3>6, <3>7, <3>8, <3>9 DEF InvOf
  <2>. QED BY <1>8, <2>1, <2>2, ClearAhead DEF Base
<1>. QED BY <1>3, <1>4, <1>5, <1>6, <1>7, <1>8, NotDoneCases

\* The operations begin.
LEMMA AdoptInv == ASSUME Base, NEW q \in Request, InvOf(q), Adopt(q) PROVE InvOf(q)'
<1>1. PICK n \in Config :
        /\ Begin(q, "adopt", n)
        /\ n = [active |-> None, previous |-> None, port |-> cloudPanelPort]
  BY NodeReleaseAssumption DEF Adopt, Base, TypeOK, Config
<1>2. mode[q] = "idle" /\ undone' = undone
  BY <1>1 DEF Begin
<1>3. mode'[q] = "adopt" /\ next'[q] = n /\ before'[q] = config
  BY <1>1 DEF Begin, Base, TypeOK
<1>4. Remaining(q)' = {"config"} /\ Remaining(q) = {}
  <2>1. todo'[q] = Plan["adopt"] /\ "adopt" \in Mode
    BY <1>1, Modes DEF Begin, Base, TypeOK
  <2>. QED BY <1>2, <1>3, <2>1, WholeIsSuffix, AllSteps, NothingAhead DEF Base
<1>5. config \in Config \cup {None}
  BY DEF Base, TypeOK
<1>6. Switching(q)'
  BY <1>1, <1>2, <1>3, <1>4, <1>5 DEF InvOf, Adopt, Tables, Files, Systemd, Switching,
     Owed, UnitOf, Aims, Undoing
<1>7. Aims(q)'
  BY <1>1, <1>2, <1>3, <1>4, <1>5 DEF InvOf, Adopt, Tables, Files, Systemd, Aims, Owed,
     Sound, Switching, Undoing
<1>8. UnitInv(q)'
  BY <1>1, <1>2, <1>3, <1>4, <1>5 DEF InvOf, Adopt, Tables, Files, Systemd, UnitInv,
     Whole, Intact, InUnit, Matches, UnitOf, Owed, Switching, Aims, Sound, Undoing
<1>9. ReadInv(q)'
  BY <1>1, <1>2, <1>3, <1>4, <1>5 DEF InvOf, Adopt, Tables, Files, Systemd, ReadInv,
     Owed, Undoing
<1>10. RowInv(q)'
  BY <1>1, <1>2, <1>3, <1>4, <1>5 DEF InvOf, Adopt, Tables, Files, Systemd, RowInv,
     OnRecord, Owed, Aims, Switching, Sound, Undoing
<1>11. PortInv(q)'
  BY <1>1, <1>2, <1>3, <1>4, <1>5 DEF InvOf, Adopt, Tables, Files, Systemd, PortInv,
     Owed, Aims, Switching, Sound, Undoing
<1>. QED BY <1>6, <1>7, <1>8, <1>9, <1>10, <1>11 DEF InvOf

LEMMA DeployInv == ASSUME Base, NEW q \in Request, InvOf(q), Deploy(q) PROVE InvOf(q)'
<1>1. PICK n \in Config :
        /\ Begin(q, "deploy", n)
        /\ n.previous = config.active /\ n.port = config.port /\ n.active # None
  <2>1. PICK x \in Release : Begin(q, "deploy", [active |-> x, previous |-> config.active, port |-> config.port])
    BY DEF Deploy
  <2>. DEFINE c == [active |-> x, previous |-> config.active, port |-> config.port]
  <2>2. c \in Config /\ c.previous = config.active /\ c.port = config.port /\ c.active # None
    BY NodeReleaseAssumption DEF Deploy, Base, TypeOK, Config
  <2>3. Begin(q, "deploy", c)
    BY <2>1
  <2>. HIDE DEF c
  <2>. QED BY <2>2, <2>3
<1>2. mode[q] = "idle" /\ undone' = undone
  BY <1>1 DEF Begin
<1>3. mode'[q] = "deploy" /\ next'[q] = n /\ before'[q] = config
  BY <1>1 DEF Begin, Base, TypeOK
<1>4. /\ Remaining(q)' = {"link", "unit", "config", "row", "reload", "start", "wait"}
      /\ Remaining(q) = {}
  <2>1. todo'[q] = Plan["deploy"] /\ "deploy" \in Mode
    BY <1>1, Modes DEF Begin, Base, TypeOK
  <2>. QED BY <1>2, <1>3, <2>1, WholeIsSuffix, AllSteps, NothingAhead DEF Base
<1>5. config \in Config \cup {None}
  BY DEF Base, TypeOK
<1>6. Switching(q)'
  BY <1>1, <1>2, <1>3, <1>4, <1>5 DEF InvOf, Deploy, Tables, Files, Systemd, Switching,
     Owed, UnitOf, Aims, Undoing
<1>7. Aims(q)'
  BY <1>1, <1>2, <1>3, <1>4, <1>5 DEF InvOf, Deploy, Tables, Files, Systemd, Aims, Owed,
     Sound, Switching, Undoing
<1>8. UnitInv(q)'
  BY <1>1, <1>2, <1>3, <1>4, <1>5 DEF InvOf, Deploy, Tables, Files, Systemd, UnitInv,
     Whole, Intact, InUnit, Matches, UnitOf, Owed, Switching, Aims, Sound, Undoing
<1>9. ReadInv(q)'
  BY <1>1, <1>2, <1>3, <1>4, <1>5 DEF InvOf, Deploy, Tables, Files, Systemd, ReadInv,
     Owed, Undoing
<1>10. RowInv(q)'
  BY <1>1, <1>2, <1>3, <1>4, <1>5 DEF InvOf, Deploy, Tables, Files, Systemd, RowInv,
     OnRecord, Owed, Aims, Switching, Sound, Undoing
<1>11. PortInv(q)'
  BY <1>1, <1>2, <1>3, <1>4, <1>5 DEF InvOf, Deploy, Tables, Files, Systemd, PortInv,
     Owed, Aims, Switching, Sound, Undoing
<1>. QED BY <1>6, <1>7, <1>8, <1>9, <1>10, <1>11 DEF InvOf

LEMMA RollbackInv == ASSUME Base, NEW q \in Request, InvOf(q), Rollback(q) PROVE InvOf(q)'
<1>1. PICK n \in Config :
        /\ Begin(q, "rollback", n)
        /\ n.previous = config.active /\ n.port = config.port /\ n.active = config.previous
  <2>1. Begin(q, "rollback", [active |-> config.previous, previous |-> config.active, port |-> config.port])
    BY DEF Rollback
  <2>. DEFINE c == [active |-> config.previous, previous |-> config.active, port |-> config.port]
  <2>2. c \in Config /\ c.previous = config.active /\ c.port = config.port /\ c.active = config.previous
    BY NodeReleaseAssumption DEF Rollback, Base, TypeOK, Config
  <2>3. Begin(q, "rollback", c)
    BY <2>1
  <2>. HIDE DEF c
  <2>. QED BY <2>2, <2>3
<1>2. mode[q] = "idle" /\ undone' = undone
  BY <1>1 DEF Begin
<1>3. mode'[q] = "rollback" /\ next'[q] = n /\ before'[q] = config
  BY <1>1 DEF Begin, Base, TypeOK
<1>4. /\ Remaining(q)' = {"link", "unit", "config", "reload", "start", "wait", "mark"}
      /\ Remaining(q) = {}
  <2>1. todo'[q] = Plan["rollback"] /\ "rollback" \in Mode
    BY <1>1, Modes DEF Begin, Base, TypeOK
  <2>. QED BY <1>2, <1>3, <2>1, WholeIsSuffix, AllSteps, NothingAhead DEF Base
<1>5. config \in Config \cup {None}
  BY DEF Base, TypeOK
<1>6. Switching(q)'
  BY <1>1, <1>2, <1>3, <1>4, <1>5 DEF InvOf, Rollback, Tables, Files, Systemd,
     Switching, Owed, UnitOf, Aims, Undoing
<1>7. Aims(q)'
  BY <1>1, <1>2, <1>3, <1>4, <1>5 DEF InvOf, Rollback, Tables, Files, Systemd, Aims,
     Owed, Sound, Switching, Undoing
<1>8. UnitInv(q)'
  BY <1>1, <1>2, <1>3, <1>4, <1>5 DEF InvOf, Rollback, Tables, Files, Systemd, UnitInv,
     Whole, Intact, InUnit, Matches, UnitOf, Owed, Switching, Aims, Sound, Undoing
<1>9. ReadInv(q)'
  BY <1>1, <1>2, <1>3, <1>4, <1>5 DEF InvOf, Rollback, Tables, Files, Systemd, ReadInv,
     Owed, Undoing
<1>10. RowInv(q)'
  BY <1>1, <1>2, <1>3, <1>4, <1>5 DEF InvOf, Rollback, Tables, Files, Systemd, RowInv,
     OnRecord, Owed, Aims, Switching, Sound, Undoing
<1>11. PortInv(q)'
  BY <1>1, <1>2, <1>3, <1>4, <1>5 DEF InvOf, Rollback, Tables, Files, Systemd, PortInv,
     Owed, Aims, Switching, Sound, Undoing
<1>. QED BY <1>6, <1>7, <1>8, <1>9, <1>10, <1>11 DEF InvOf

LEMMA UpdateInv == ASSUME Base, NEW q \in Request, InvOf(q), Update(q) PROVE InvOf(q)'
<1>1. PICK n \in Config :
        /\ Begin(q, "update", n)
        /\ n.previous = config.previous /\ n.active = config.active
  <2>1. PICK p \in Port : Begin(q, "update", [config EXCEPT !.port = p])
    BY DEF Update
  <2>. DEFINE c == [config EXCEPT !.port = p]
  <2>2. c \in Config /\ c.previous = config.previous /\ c.active = config.active
    BY NodeReleaseAssumption DEF Update, Base, TypeOK, Config
  <2>3. Begin(q, "update", c)
    BY <2>1
  <2>. HIDE DEF c
  <2>. QED BY <2>2, <2>3
<1>2. mode[q] = "idle" /\ undone' = undone
  BY <1>1 DEF Begin
<1>3. mode'[q] = "update" /\ next'[q] = n /\ before'[q] = config
  BY <1>1 DEF Begin, Base, TypeOK
<1>4. /\ Remaining(q)' = {"port", "unit", "reload", "start", "wait", "config"}
      /\ Remaining(q) = {}
  <2>1. todo'[q] = Plan["update"] /\ "update" \in Mode
    BY <1>1, Modes DEF Begin, Base, TypeOK
  <2>. QED BY <1>2, <1>3, <2>1, WholeIsSuffix, AllSteps, NothingAhead DEF Base
<1>5. config \in Config \cup {None}
  BY DEF Base, TypeOK
<1>6. Switching(q)'
  BY <1>1, <1>2, <1>3, <1>4, <1>5 DEF InvOf, Update, Tables, Files, Systemd, Switching,
     Owed, UnitOf, Aims, Undoing
<1>7. Aims(q)'
  BY <1>1, <1>2, <1>3, <1>4, <1>5 DEF InvOf, Update, Tables, Files, Systemd, Aims, Owed,
     Sound, Switching, Undoing
<1>8. UnitInv(q)'
  BY <1>1, <1>2, <1>3, <1>4, <1>5 DEF InvOf, Update, Tables, Files, Systemd, UnitInv,
     Whole, Intact, InUnit, Matches, UnitOf, Owed, Switching, Aims, Sound, Undoing
<1>9. ReadInv(q)'
  BY <1>1, <1>2, <1>3, <1>4, <1>5 DEF InvOf, Update, Tables, Files, Systemd, ReadInv,
     Owed, Undoing
<1>10. RowInv(q)'
  BY <1>1, <1>2, <1>3, <1>4, <1>5 DEF InvOf, Update, Tables, Files, Systemd, RowInv,
     OnRecord, Owed, Aims, Switching, Sound, Undoing
<1>11. PortInv(q)'
  BY <1>1, <1>2, <1>3, <1>4, <1>5 DEF InvOf, Update, Tables, Files, Systemd, PortInv,
     Owed, Aims, Switching, Sound, Undoing
<1>. QED BY <1>6, <1>7, <1>8, <1>9, <1>10, <1>11 DEF InvOf

LEMMA ShortUpdateInv ==
    ASSUME Base, NEW q \in Request, InvOf(q), SetPort(q), next[q].active = None
    PROVE  InvOf(q)'
<1>1. At(q, "port") /\ Sound(q) /\ config \in Config \cup {None} /\ next[q] \in Config
  BY StepFacts DEF SetPort, Base, TypeOK
<1>2. /\ todo' = [todo EXCEPT ![q] = <<"config">>]
      /\ UNCHANGED <<mode, next, before, expired, answer, undone>>
  BY DEF SetPort
<1>3. mode[q] = "update" /\ Remaining(q)' = {"config"}
  BY <1>1, <1>2, ShortUpdateSound
<1>4. Remaining(q) = {"port", "unit", "reload", "start", "wait", "config"}
  BY <1>1, <1>3, AtPort DEF Base
<1>5. Switching(q)'
  BY <1>1, <1>2, <1>3, <1>4 DEF InvOf, SetPort, Tables, Files, Systemd, Switching, Owed,
     UnitOf, Aims
<1>6. Aims(q)'
  BY <1>1, <1>2, <1>3, <1>4 DEF InvOf, SetPort, Tables, Files, Systemd, Aims, Owed,
     Sound, Switching
<1>7. UnitInv(q)'
  BY <1>1, <1>2, <1>3, <1>4 DEF InvOf, SetPort, Tables, Files, Systemd, UnitInv, Whole,
     Intact, InUnit, Matches, UnitOf, Owed, Switching, Aims, Sound
<1>8. ReadInv(q)'
  BY <1>1, <1>2, <1>3, <1>4 DEF InvOf, SetPort, Tables, Files, Systemd, ReadInv, Owed,
     Undoing
<1>9. RowInv(q)'
  BY <1>1, <1>2, <1>3, <1>4 DEF InvOf, SetPort, Tables, Files, Systemd, RowInv,
     OnRecord, Owed, Aims, Switching, Sound
<1>10. PortInv(q)'
  BY <1>1, <1>2, <1>3, <1>4 DEF InvOf, SetPort, Tables, Files, Systemd, PortInv, Owed,
     Aims, Switching, Sound
<1>. QED BY <1>5, <1>6, <1>7, <1>8, <1>9, <1>10 DEF InvOf

LEMMA SetPortInv == ASSUME Base, NEW q \in Request, InvOf(q), SetPort(q) PROVE InvOf(q)'
  BY SetPortFullInv, ShortUpdateInv

LEMMA ReleaseUnavailableInv ==
    ASSUME Base, NEW q \in Request, InvOf(q), ReleaseUnavailable(q)
    PROVE  InvOf(q)'
<1>1. At(q, "unit") /\ Sound(q) /\ config \in Config \cup {None} /\ next[q] \in Config
  BY StepFacts DEF ReleaseUnavailable, Base, TypeOK
<1>2. Stop(q) /\ mode[q] = "update" /\ UNCHANGED <<Tables, Files, Systemd, cloudPanelPort, faults>>
  BY DEF ReleaseUnavailable
<1>3. /\ Remaining(q) = {"unit", "reload", "start", "wait", "config"}
      /\ todo[q] # Plan["update"]
  BY <1>1, <1>2, AtUnit DEF Base
<1>4. Over(q) /\ undone' = undone \cup LeftUndone(q)
  BY <1>2, StopSound
<1>5. mode'[q] = "idle" /\ next'[q] = None /\ before'[q] = None /\ Remaining(q)' = {}
  BY <1>4, OverMoves
<1>6. undone' = undone \cup Remaining(q) \cup {"port"}
  BY <1>2, <1>3, <1>4 DEF LeftUndone, Undoing
<1>7. Switching(q)'
  BY <1>1, <1>2, <1>3, <1>5, <1>6 DEF InvOf, Tables, Files, Systemd, Switching, Owed,
     UnitOf, Aims
<1>8. Aims(q)'
  BY <1>1, <1>2, <1>3, <1>5, <1>6 DEF InvOf, Tables, Files, Systemd, Aims, Owed, Sound,
     Switching
<1>9. UnitInv(q)'
  BY <1>1, <1>2, <1>3, <1>5, <1>6 DEF InvOf, Tables, Files, Systemd, UnitInv, Whole,
     Intact, InUnit, Matches, UnitOf, Owed, Switching, Aims, Sound
<1>10. ReadInv(q)'
  BY <1>1, <1>2, <1>3, <1>5, <1>6 DEF InvOf, Tables, Files, Systemd, ReadInv, Owed,
     Undoing
<1>11. RowInv(q)'
  BY <1>1, <1>2, <1>3, <1>5, <1>6 DEF InvOf, Tables, Files, Systemd, RowInv, OnRecord,
     Owed, Aims, Switching, Sound
<1>12. PortInv(q)'
  BY <1>1, <1>2, <1>3, <1>5, <1>6 DEF InvOf, Tables, Files, Systemd, PortInv, Owed,
     Aims, Switching, Sound
<1>. QED BY <1>7, <1>8, <1>9, <1>10, <1>11, <1>12 DEF InvOf

\* The steps that fail are all alike.
LEMMA FailuresInv ==
    ASSUME Base, NEW q \in Request, InvOf(q),
           WriteFails(q) \/ SetPortFails(q) \/ SystemctlFails(q) \/ NotReady(q)
    PROVE  InvOf(q)'
<1>1. /\ todo[q] # <<>> /\ NotDone(q)
      /\ UNCHANGED <<Tables, Files, cloudPanelPort>>
      /\ loaded' \in {loaded, unit}
  BY DEF WriteFails, SetPortFails, SystemctlFails, NotReady, At, Systemd, Effect, Known
<1>. QED BY <1>1, NotDoneInv

\* A port that got stuck half way is one the property excepts.
LEMMA SetPortHalfWayInv ==
    ASSUME Base, NEW q \in Request, InvOf(q), SetPortHalfWay(q)
    PROVE  InvOf(q)'
<1>1. /\ At(q, "port") /\ todo[q] # <<>> /\ Head(todo[q]) = "port"
      /\ next[q] \in Config /\ before[q] \in Config \cup {None} /\ Sound(q)
      /\ config \in Config \cup {None}
      /\ UNCHANGED <<Tables, Files, Systemd>>
  BY StepFacts, BaseGlobal DEF SetPortHalfWay, GlobalType
<1>2. CASE mode[q] = "update" /\ Finish(q, "error") /\ undone' = undone \cup {"port"}
  <2>1. Remaining(q) = {"port", "unit", "reload", "start", "wait", "config"}
    BY <1>1, <1>2, AtPort DEF Base
  <2>2. Over(q)
    BY <1>2 DEF Over, Finish
  <2>3. mode'[q] = "idle" /\ next'[q] = None /\ before'[q] = None /\ Remaining(q)' = {}
    BY <2>2, OverMoves
  <2>4. Switching(q)'
    BY <1>1, <1>2, <2>1, <2>3 DEF InvOf, Tables, Files, Systemd,
       Switching, Owed, UnitOf, Aims
  <2>5. Aims(q)'
    BY <1>1, <1>2, <2>1, <2>3 DEF InvOf, Tables, Files, Systemd,
       Aims, Owed, Sound, Switching
  <2>6. UnitInv(q)'
    BY <1>1, <1>2, <2>1, <2>3 DEF InvOf, Tables, Files, Systemd,
       UnitInv, Whole, Intact, InUnit, Matches, UnitOf,
       Owed, Switching, Aims, Sound
  <2>7. ReadInv(q)'
    BY <1>1, <1>2, <2>1, <2>3 DEF InvOf, Tables, Files, Systemd,
       ReadInv, Owed, Undoing
  <2>8. RowInv(q)'
    BY <1>1, <1>2, <2>1, <2>3 DEF InvOf, Tables, Files, Systemd,
       RowInv, OnRecord, Owed, Aims, Switching,
       Sound
  <2>9. PortInv(q)'
    BY <1>1, <1>2, <2>1, <2>3 DEF InvOf, Tables, Files, Systemd,
       PortInv, Owed, Aims, Switching, Sound
  <2>. QED BY <2>4, <2>5, <2>6, <2>7, <2>8, <2>9 DEF InvOf
<1>3. CASE mode[q] = "restore" /\ Skip(q)
  <2>1. Remaining(q) = {"port", "unit", "reload", "start"} /\ Len(todo[q]) > 1
    BY <1>1, <1>3, AtPort DEF Base
  <2>2. Tailed(q) /\ undone' = undone \cup {"port"}
    BY <1>1, <1>3, <2>1, SkipSound
  <2>3. mode'[q] = "restore" /\ next'[q] = next[q] /\ before'[q] = before[q]
    BY <1>3, <2>2 DEF Tailed
  <2>4. Remaining(q)' = {"unit", "reload", "start"}
    BY <1>1, <1>3, <2>1, <2>2, TailedIsSound
  <2>5. Switching(q)'
    BY <1>1, <1>3, <2>1, <2>2, <2>3, <2>4 DEF InvOf, Tables, Files, Systemd,
       Switching, Owed, UnitOf, Aims
  <2>6. Aims(q)'
    BY <1>1, <1>3, <2>1, <2>2, <2>3, <2>4 DEF InvOf, Tables, Files, Systemd,
       Aims, Owed, Sound, Switching
  <2>7. UnitInv(q)'
    BY <1>1, <1>3, <2>1, <2>2, <2>3, <2>4 DEF InvOf, Tables, Files, Systemd,
       UnitInv, Whole, Intact, InUnit, Matches, UnitOf,
       Owed, Switching, Aims, Sound
  <2>8. ReadInv(q)'
    BY <1>1, <1>3, <2>1, <2>2, <2>3, <2>4 DEF InvOf, Tables, Files, Systemd,
       ReadInv, Owed, Undoing
  <2>9. RowInv(q)'
    BY <1>1, <1>3, <2>1, <2>2, <2>3, <2>4 DEF InvOf, Tables, Files, Systemd,
       RowInv, OnRecord, Owed, Aims, Switching,
       Sound
  <2>10. PortInv(q)'
    BY <1>1, <1>3, <2>1, <2>2, <2>3, <2>4 DEF InvOf, Tables, Files, Systemd,
       PortInv, Owed, Aims, Switching, Sound
  <2>. QED BY <2>5, <2>6, <2>7, <2>8, <2>9, <2>10 DEF InvOf
<1>. QED BY <1>2, <1>3 DEF SetPortHalfWay

\* A crash leaves undone what remains.
LEMMA CrashInv == ASSUME Base, NEW q \in Request, InvOf(q), Crash PROVE InvOf(q)'
<1>1. /\ mode'[q] = "idle" /\ next'[q] = None /\ before'[q] = None /\ todo'[q] = <<>>
      /\ LeftUndone(q) \subseteq undone' /\ undone \subseteq undone'
      /\ UNCHANGED <<Tables, Files, Systemd, cloudPanelPort>>
  BY DEF Crash
<1>2. Remaining(q)' = {}
  BY <1>1, IdleIsSuffix
<1>3. config \in Config \cup {None} /\ Sound(q) /\ mode[q] \in Mode
      /\ next[q] \in Config \cup {None} /\ before[q] \in Config \cup {None}
  BY DEF Base, TypeOK
<1>4. mode[q] # "idle" => todo[q] # <<>> /\ next[q] \in Config
  BY <1>3 DEF Sound
<1>5. LeftUndone(q) = IF mode[q] \notin Undoing /\ todo[q] = Plan[mode[q]] THEN {}
                      ELSE Remaining(q) \cup (IF mode[q] = "update" THEN {"port"} ELSE {})
  BY DEF LeftUndone
<1>6. CASE mode[q] = "idle"
  <2>1. Switching(q)'
    BY <1>1, <1>2, <1>3, <1>4, <1>5, <1>6, NothingAhead DEF InvOf, Tables, Files,
       Systemd, Base, Undoing, Switching, Owed, UnitOf, Aims
  <2>2. Aims(q)'
    BY <1>1, <1>2, <1>3, <1>4, <1>5, <1>6, NothingAhead DEF InvOf, Tables, Files,
       Systemd, Base, Undoing, Aims, Owed, Sound, Switching
  <2>3. UnitInv(q)'
    BY <1>1, <1>2, <1>3, <1>4, <1>5, <1>6, NothingAhead DEF InvOf, Tables, Files,
       Systemd, Base, Undoing, UnitInv, Whole, Intact, InUnit, Matches, UnitOf, Owed,
       Switching, Aims, Sound
  <2>4. ReadInv(q)'
    BY <1>1, <1>2, <1>3, <1>4, <1>5, <1>6, NothingAhead DEF InvOf, Tables, Files,
       Systemd, Base, Undoing, ReadInv, Owed
  <2>5. RowInv(q)'
    BY <1>1, <1>2, <1>3, <1>4, <1>5, <1>6, NothingAhead DEF InvOf, Tables, Files,
       Systemd, Base, Undoing, RowInv, OnRecord, Owed, Aims, Switching, Sound
  <2>6. PortInv(q)'
    BY <1>1, <1>2, <1>3, <1>4, <1>5, <1>6, NothingAhead DEF InvOf, Tables, Files,
       Systemd, Base, Undoing, PortInv, Owed, Aims, Switching, Sound
  <2>. QED BY <2>1, <2>2, <2>3, <2>4, <2>5, <2>6 DEF InvOf
<1>7. CASE mode[q] = "adopt"
  <2>1. Switching(q)'
    BY <1>1, <1>2, <1>3, <1>4, <1>5, <1>7, AdoptAhead DEF InvOf, Tables, Files, Systemd,
       Base, Undoing, Switching, Owed, UnitOf, Aims
  <2>2. Aims(q)'
    BY <1>1, <1>2, <1>3, <1>4, <1>5, <1>7, AdoptAhead DEF InvOf, Tables, Files, Systemd,
       Base, Undoing, Aims, Owed, Sound, Switching
  <2>3. UnitInv(q)'
    BY <1>1, <1>2, <1>3, <1>4, <1>5, <1>7, AdoptAhead DEF InvOf, Tables, Files, Systemd,
       Base, Undoing, UnitInv, Whole, Intact, InUnit, Matches, UnitOf, Owed, Switching,
       Aims, Sound
  <2>4. ReadInv(q)'
    BY <1>1, <1>2, <1>3, <1>4, <1>5, <1>7, AdoptAhead DEF InvOf, Tables, Files, Systemd,
       Base, Undoing, ReadInv, Owed
  <2>5. RowInv(q)'
    BY <1>1, <1>2, <1>3, <1>4, <1>5, <1>7, AdoptAhead DEF InvOf, Tables, Files, Systemd,
       Base, Undoing, RowInv, OnRecord, Owed, Aims, Switching, Sound
  <2>6. PortInv(q)'
    BY <1>1, <1>2, <1>3, <1>4, <1>5, <1>7, AdoptAhead DEF InvOf, Tables, Files, Systemd,
       Base, Undoing, PortInv, Owed, Aims, Switching, Sound
  <2>. QED BY <2>1, <2>2, <2>3, <2>4, <2>5, <2>6 DEF InvOf
<1>8. CASE mode[q] = "deploy"
  <2>1. Switching(q)'
    BY <1>1, <1>2, <1>3, <1>4, <1>5, <1>8, DeployAhead DEF InvOf, Tables, Files,
       Systemd, Base, Undoing, Switching, Owed, UnitOf, Aims
  <2>2. Aims(q)'
    BY <1>1, <1>2, <1>3, <1>4, <1>5, <1>8, DeployAhead DEF InvOf, Tables, Files,
       Systemd, Base, Undoing, Aims, Owed, Sound, Switching
  <2>3. UnitInv(q)'
    BY <1>1, <1>2, <1>3, <1>4, <1>5, <1>8, DeployAhead DEF InvOf, Tables, Files,
       Systemd, Base, Undoing, UnitInv, Whole, Intact, InUnit, Matches, UnitOf, Owed,
       Switching, Aims, Sound
  <2>4. ReadInv(q)'
    BY <1>1, <1>2, <1>3, <1>4, <1>5, <1>8, DeployAhead DEF InvOf, Tables, Files,
       Systemd, Base, Undoing, ReadInv, Owed
  <2>5. RowInv(q)'
    BY <1>1, <1>2, <1>3, <1>4, <1>5, <1>8, DeployAhead DEF InvOf, Tables, Files,
       Systemd, Base, Undoing, RowInv, OnRecord, Owed, Aims, Switching, Sound
  <2>6. PortInv(q)'
    BY <1>1, <1>2, <1>3, <1>4, <1>5, <1>8, DeployAhead DEF InvOf, Tables, Files,
       Systemd, Base, Undoing, PortInv, Owed, Aims, Switching, Sound
  <2>. QED BY <2>1, <2>2, <2>3, <2>4, <2>5, <2>6 DEF InvOf
<1>9. CASE mode[q] = "revert"
  <2>1. Switching(q)'
    BY <1>1, <1>2, <1>3, <1>4, <1>5, <1>9, RevertAhead DEF InvOf, Tables, Files,
       Systemd, Base, Undoing, Switching, Owed, UnitOf, Aims
  <2>2. Aims(q)'
    BY <1>1, <1>2, <1>3, <1>4, <1>5, <1>9, RevertAhead DEF InvOf, Tables, Files,
       Systemd, Base, Undoing, Aims, Owed, Sound, Switching
  <2>3. UnitInv(q)'
    BY <1>1, <1>2, <1>3, <1>4, <1>5, <1>9, RevertAhead DEF InvOf, Tables, Files,
       Systemd, Base, Undoing, UnitInv, Whole, Intact, InUnit, Matches, UnitOf, Owed,
       Switching, Aims, Sound
  <2>4. ReadInv(q)'
    BY <1>1, <1>2, <1>3, <1>4, <1>5, <1>9, RevertAhead DEF InvOf, Tables, Files,
       Systemd, Base, Undoing, ReadInv, Owed
  <2>5. RowInv(q)'
    BY <1>1, <1>2, <1>3, <1>4, <1>5, <1>9, RevertAhead DEF InvOf, Tables, Files,
       Systemd, Base, Undoing, RowInv, OnRecord, Owed, Aims, Switching, Sound
  <2>6. PortInv(q)'
    BY <1>1, <1>2, <1>3, <1>4, <1>5, <1>9, RevertAhead DEF InvOf, Tables, Files,
       Systemd, Base, Undoing, PortInv, Owed, Aims, Switching, Sound
  <2>. QED BY <2>1, <2>2, <2>3, <2>4, <2>5, <2>6 DEF InvOf
<1>10. CASE mode[q] = "clear"
  <2>1. Switching(q)'
    BY <1>1, <1>2, <1>3, <1>4, <1>5, <1>10, ClearAhead DEF InvOf, Tables, Files,
       Systemd, Base, Undoing, Switching, Owed, UnitOf, Aims
  <2>2. Aims(q)'
    BY <1>1, <1>2, <1>3, <1>4, <1>5, <1>10, ClearAhead DEF InvOf, Tables, Files,
       Systemd, Base, Undoing, Aims, Owed, Sound, Switching
  <2>3. UnitInv(q)'
    BY <1>1, <1>2, <1>3, <1>4, <1>5, <1>10, ClearAhead DEF InvOf, Tables, Files,
       Systemd, Base, Undoing, UnitInv, Whole, Intact, InUnit, Matches, UnitOf, Owed,
       Switching, Aims, Sound
  <2>4. ReadInv(q)'
    BY <1>1, <1>2, <1>3, <1>4, <1>5, <1>10, ClearAhead DEF InvOf, Tables, Files,
       Systemd, Base, Undoing, ReadInv, Owed
  <2>5. RowInv(q)'
    BY <1>1, <1>2, <1>3, <1>4, <1>5, <1>10, ClearAhead DEF InvOf, Tables, Files,
       Systemd, Base, Undoing, RowInv, OnRecord, Owed, Aims, Switching, Sound
  <2>6. PortInv(q)'
    BY <1>1, <1>2, <1>3, <1>4, <1>5, <1>10, ClearAhead DEF InvOf, Tables, Files,
       Systemd, Base, Undoing, PortInv, Owed, Aims, Switching, Sound
  <2>. QED BY <2>1, <2>2, <2>3, <2>4, <2>5, <2>6 DEF InvOf
<1>11. CASE mode[q] = "rollback"
  <2>1. Switching(q)'
    BY <1>1, <1>2, <1>3, <1>4, <1>5, <1>11, RollbackAhead DEF InvOf, Tables, Files,
       Systemd, Base, Undoing, Switching, Owed, UnitOf, Aims
  <2>2. Aims(q)'
    BY <1>1, <1>2, <1>3, <1>4, <1>5, <1>11, RollbackAhead DEF InvOf, Tables, Files,
       Systemd, Base, Undoing, Aims, Owed, Sound, Switching
  <2>3. UnitInv(q)'
    BY <1>1, <1>2, <1>3, <1>4, <1>5, <1>11, RollbackAhead DEF InvOf, Tables, Files,
       Systemd, Base, Undoing, UnitInv, Whole, Intact, InUnit, Matches, UnitOf, Owed,
       Switching, Aims, Sound
  <2>4. ReadInv(q)'
    BY <1>1, <1>2, <1>3, <1>4, <1>5, <1>11, RollbackAhead DEF InvOf, Tables, Files,
       Systemd, Base, Undoing, ReadInv, Owed
  <2>5. RowInv(q)'
    BY <1>1, <1>2, <1>3, <1>4, <1>5, <1>11, RollbackAhead DEF InvOf, Tables, Files,
       Systemd, Base, Undoing, RowInv, OnRecord, Owed, Aims, Switching, Sound
  <2>6. PortInv(q)'
    BY <1>1, <1>2, <1>3, <1>4, <1>5, <1>11, RollbackAhead DEF InvOf, Tables, Files,
       Systemd, Base, Undoing, PortInv, Owed, Aims, Switching, Sound
  <2>. QED BY <2>1, <2>2, <2>3, <2>4, <2>5, <2>6 DEF InvOf
<1>12. CASE mode[q] = "update"
  <2>1. Switching(q)'
    BY <1>1, <1>2, <1>3, <1>4, <1>5, <1>12, UpdateAhead DEF InvOf, Tables, Files,
       Systemd, Base, Undoing, Switching, Owed, UnitOf, Aims
  <2>2. Aims(q)'
    BY <1>1, <1>2, <1>3, <1>4, <1>5, <1>12, UpdateAhead DEF InvOf, Tables, Files,
       Systemd, Base, Undoing, Aims, Owed, Sound, Switching
  <2>3. UnitInv(q)'
    BY <1>1, <1>2, <1>3, <1>4, <1>5, <1>12, UpdateAhead DEF InvOf, Tables, Files,
       Systemd, Base, Undoing, UnitInv, Whole, Intact, InUnit, Matches, UnitOf, Owed,
       Switching, Aims, Sound
  <2>4. ReadInv(q)'
    BY <1>1, <1>2, <1>3, <1>4, <1>5, <1>12, UpdateAhead DEF InvOf, Tables, Files,
       Systemd, Base, Undoing, ReadInv, Owed
  <2>5. RowInv(q)'
    BY <1>1, <1>2, <1>3, <1>4, <1>5, <1>12, UpdateAhead DEF InvOf, Tables, Files,
       Systemd, Base, Undoing, RowInv, OnRecord, Owed, Aims, Switching, Sound
  <2>6. PortInv(q)'
    BY <1>1, <1>2, <1>3, <1>4, <1>5, <1>12, UpdateAhead DEF InvOf, Tables, Files,
       Systemd, Base, Undoing, PortInv, Owed, Aims, Switching, Sound
  <2>. QED BY <2>1, <2>2, <2>3, <2>4, <2>5, <2>6 DEF InvOf
<1>13. CASE mode[q] = "restore"
  <2>1. Switching(q)'
    BY <1>1, <1>2, <1>3, <1>4, <1>5, <1>13, RestoreAhead DEF InvOf, Tables, Files,
       Systemd, Base, Undoing, Switching, Owed, UnitOf, Aims
  <2>2. Aims(q)'
    BY <1>1, <1>2, <1>3, <1>4, <1>5, <1>13, RestoreAhead DEF InvOf, Tables, Files,
       Systemd, Base, Undoing, Aims, Owed, Sound, Switching
  <2>3. UnitInv(q)'
    BY <1>1, <1>2, <1>3, <1>4, <1>5, <1>13, RestoreAhead DEF InvOf, Tables, Files,
       Systemd, Base, Undoing, UnitInv, Whole, Intact, InUnit, Matches, UnitOf, Owed,
       Switching, Aims, Sound
  <2>4. ReadInv(q)'
    BY <1>1, <1>2, <1>3, <1>4, <1>5, <1>13, RestoreAhead DEF InvOf, Tables, Files,
       Systemd, Base, Undoing, ReadInv, Owed
  <2>5. RowInv(q)'
    BY <1>1, <1>2, <1>3, <1>4, <1>5, <1>13, RestoreAhead DEF InvOf, Tables, Files,
       Systemd, Base, Undoing, RowInv, OnRecord, Owed, Aims, Switching, Sound
  <2>6. PortInv(q)'
    BY <1>1, <1>2, <1>3, <1>4, <1>5, <1>13, RestoreAhead DEF InvOf, Tables, Files,
       Systemd, Base, Undoing, PortInv, Owed, Aims, Switching, Sound
  <2>. QED BY <2>1, <2>2, <2>3, <2>4, <2>5, <2>6 DEF InvOf
<1>. QED BY <1>3, Modes, <1>6, <1>7, <1>8, <1>9, <1>10, <1>11, <1>12, <1>13

\* Steps that leave alone whatever the invariant is about, but that systemd may
\* read the unit.
LEMMA QuietInv ==
    ASSUME Base, NEW q \in Request, InvOf(q),
           UNCHANGED <<Tables, Files, cloudPanelPort, mode, todo, next, before, undone>>,
           loaded' \in {loaded, unit}
    PROVE  InvOf(q)'
<1>1. /\ config' = config /\ rows' = rows /\ current' = current /\ unit' = unit
      /\ cloudPanelPort' = cloudPanelPort /\ mode' = mode /\ next' = next /\ before' = before
      /\ undone' = undone /\ todo' = todo
  BY DEF Tables, Files
<1>2. Remaining(q)' = Remaining(q)
  BY <1>1 DEF Remaining
<1>3. Switching(q)' /\ Aims(q)'
  BY <1>1, <1>2 DEF InvOf, Switching, Aims, Owed
<1>4. UnitInv(q)'
  BY <1>1, <1>2 DEF InvOf, UnitInv, Whole, Intact, InUnit, Matches, Owed
<1>5. ReadInv(q)'
  BY <1>1, <1>2 DEF InvOf, ReadInv, Owed
<1>6. RowInv(q)' /\ PortInv(q)'
  BY <1>1, <1>2 DEF InvOf, RowInv, PortInv, OnRecord, Owed
<1>. QED BY <1>3, <1>4, <1>5, <1>6 DEF InvOf

LEMMA ServiceInv ==
    ASSUME Base, NEW q \in Request, InvOf(q), Restart \/ Listen \/ Exit \/ ComeBack
    PROVE  InvOf(q)'
<1>1. UNCHANGED <<Tables, Files, cloudPanelPort, mode, todo, next, before, undone>>
  BY DEF Restart, Listen, Exit, ComeBack, Locals
<1>2. loaded' \in {loaded, unit}
  BY DEF Restart, Listen, Exit, ComeBack, Known
<1>. QED BY <1>1, <1>2, QuietInv

LEMMA ExpireInv == ASSUME Base, NEW q \in Request, InvOf(q), Expire(q) PROVE InvOf(q)'
<1>1. UNCHANGED <<Tables, Files, cloudPanelPort, mode, todo, next, before, undone>>
  BY DEF Expire
<1>2. loaded' \in {loaded, unit}
  BY DEF Expire, Systemd
<1>. QED BY <1>1, <1>2, QuietInv

LEMMA InvInit == ASSUME Init PROVE Inv
<1>1. ASSUME NEW q \in Request PROVE InvOf(q)
  <2>1. /\ mode[q] = "idle" /\ config = None /\ unit = None /\ loaded = None
        /\ todo[q] = <<>> /\ undone = {}
    BY DEF Init
  <2>. QED BY <2>1 DEF InvOf, Switching, Aims, UnitInv, InUnit, Matches, ReadInv,
              RowInv, PortInv
<1>. QED BY <1>1, BaseInit DEF Inv

\* Every step keeps Inv.
LEMMA InvNext == ASSUME Alone, Inv, [Next]_vars PROVE Inv'
<1>1. PICK q \in Request : Request = {q}
  BY DEF Alone
<1>2. Base /\ InvOf(q)
  BY DEF Inv
<1>3. InvOf(q)'
  <2>1. CASE UNCHANGED vars
    <3>1. UNCHANGED <<Tables, Files, cloudPanelPort, mode, todo, next, before, undone>>
      BY <2>1 DEF vars, Tables, Files
    <3>2. loaded' \in {loaded, unit}
      BY <2>1 DEF vars
    <3>. QED BY <1>2, <3>1, <3>2, QuietInv
  <2>2. CASE Operation(q)
    BY <1>2, <2>2, AdoptInv, DeployInv, RollbackInv, UpdateInv DEF Operation
  <2>3. CASE Step(q)
    <3>1. CASE MarkRows(q)
      BY <1>2, <3>1, MarkRowsRollbackInv, MarkRowsClearInv DEF MarkRows
    <3>2. CASE RowsNotMarked(q)
      BY <1>2, <3>2, RowsNotMarkedRollbackInv, RowsNotMarkedClearInv DEF RowsNotMarked
    <3>3. CASE Systemctl(q)
      BY <1>2, <3>3, ReloadInv, StartInv, StopServiceInv DEF Systemctl, Effect
    <3>. QED BY <1>2, <2>3, <3>1, <3>2, <3>3, LinkInv, WriteUnitInv,
                ReleaseUnavailableInv, RemoveUnitInv, PutConfigInv, InsertRowInv,
                SetPortInv, SetPortHalfWayInv, ReadyInv, FailuresInv DEF Step
  <2>4. CASE Expire(q)
    BY <1>2, <2>4, ExpireInv
  <2>5. CASE Restart \/ Listen \/ Exit \/ ComeBack
    BY <1>2, <2>5, ServiceInv
  <2>6. CASE Crash
    BY <1>2, <2>6, CrashInv
  <2>. QED BY <1>1, <2>1, <2>2, <2>3, <2>4, <2>5, <2>6 DEF Next
<1>4. Base'
  BY <1>2, BaseNext
<1>. QED BY <1>1, <1>3, <1>4 DEF Inv

-----------------------------------------------------------------------------
\* How an operation ends.
Outcome(q) ==
    mode[q] # "idle" /\ mode'[q] = "idle" =>
        /\ answer'[q] = "ok" => config' = next[q]
        /\ answer'[q] = "error" /\ mode[q] # "rollback"
             /\ undone' \cap {"config", "row"} = {} /\ before[q] # None =>
             config'.active = before[q].active /\ config'.port = before[q].port

\* It ends well, it is stopped, or it turns back.
LEMMA ProceedOutcome ==
    ASSUME Base, NEW q \in Request, InvOf(q), todo[q] # <<>>, NEW good, Proceed(q, good),
           mode[q] = "update" /\ Head(todo[q]) = "port" => next[q].active # None,
           Head(todo[q]) # "config" => config' = config,
           Head(todo[q]) = "config" /\ mode[q] # "clear" => config' = next[q]
    PROVE  Outcome(q)
<1>1. Sound(q) /\ mode[q] \in Mode \ {"idle"}
  BY NothingAhead DEF Base, TypeOK
<1>2. Len(todo[q]) > 1 => mode'[q] = mode[q]
  BY ProceedMoves
<1>3. CASE Len(todo[q]) > 1
  BY <1>2, <1>3 DEF Outcome
<1>4. CASE ~(Len(todo[q]) > 1)
  <2>1. Len(todo[q]) = 1
    BY <1>4, ProceedSound DEF Proceed
  <2>2. answer'[q] = IF mode[q] \in Undoing THEN "error" ELSE "ok"
    BY <2>1, ProceedMoves
  <2>3. CASE mode[q] = "adopt"
    <3>1. Head(todo[q]) = "config" /\ Remaining(q) = {"config"}
      BY <1>4, <2>3, AdoptAhead DEF Base
    <3>. QED BY <1>1, <2>2, <2>3, <3>1 DEF Outcome, InvOf, Switching, Aims, Owed,
                Undoing, Sound
  <2>4. CASE mode[q] = "deploy"
    <3>1. Head(todo[q]) = "wait" /\ Remaining(q) = {"wait"}
      BY <1>4, <2>4, DeployAhead DEF Base
    <3>. QED BY <1>1, <2>2, <2>4, <3>1 DEF Outcome, InvOf, Switching, Aims, Owed,
                Undoing, Sound
  <2>5. CASE mode[q] = "revert"
    <3>1. Head(todo[q]) = "start" /\ Remaining(q) = {"start"}
      BY <1>4, <2>5, RevertAhead DEF Base
    <3>. QED BY <1>1, <2>2, <2>5, <3>1 DEF Outcome, InvOf, Switching, Aims, Owed,
                Undoing, Sound
  <2>6. CASE mode[q] = "clear"
    <3>1. Head(todo[q]) = "fail" /\ Remaining(q) = {"fail"}
      BY <1>4, <2>6, ClearAhead DEF Base
    <3>. QED BY <1>1, <2>2, <2>6, <3>1 DEF Outcome, InvOf, Switching, Aims, Owed,
                Undoing, Sound
  <2>7. CASE mode[q] = "rollback"
    <3>1. Head(todo[q]) = "mark" /\ Remaining(q) = {"mark"}
      BY <1>4, <2>7, RollbackAhead DEF Base
    <3>. QED BY <1>1, <2>2, <2>7, <3>1 DEF Outcome, InvOf, Switching, Aims, Owed,
                Undoing, Sound
  <2>8. CASE mode[q] = "update"
    <3>1. Head(todo[q]) = "config" /\ Remaining(q) = {"config"}
      BY <1>4, <2>8, UpdateAhead DEF Base
    <3>. QED BY <1>1, <2>2, <2>8, <3>1 DEF Outcome, InvOf, Switching, Aims, Owed,
                Undoing, Sound
  <2>9. CASE mode[q] = "restore"
    <3>1. Head(todo[q]) = "start" /\ Remaining(q) = {"start"}
      BY <1>4, <2>9, RestoreAhead DEF Base
    <3>. QED BY <1>1, <2>2, <2>9, <3>1 DEF Outcome, InvOf, Switching, Aims, Owed,
                Undoing, Sound
  <2>. QED BY <1>1, Modes, <2>3, <2>4, <2>5, <2>6, <2>7, <2>8, <2>9
<1>. QED BY <1>3, <1>4

LEMMA StopOutcome ==
    ASSUME Base, NEW q \in Request, InvOf(q), todo[q] # <<>>, config' = config,
           answer'[q] = "error", undone' = undone \cup LeftUndone(q),
           mode[q] \in {"adopt", "rollback", "revert", "deploy", "update", "clear"},
           mode[q] = "clear" => Head(todo[q]) = "config",
           mode[q] = "deploy" =>
             \/ Head(todo[q]) \in {"link", "unit", "config", "row"}
             \/ before[q].active # None /\ rows[before[q].active] = "none"
    PROVE  Outcome(q)
<1>1. Sound(q)
  BY DEF Base
<1>2. CASE mode[q] = "adopt"
  <2>1. undone' = undone \cup (IF todo[q] = Plan["adopt"] THEN {} ELSE Remaining(q))
    BY <1>2 DEF LeftUndone, Undoing
  <2>. QED BY <1>1, <1>2, <2>1, AdoptAhead DEF Outcome, InvOf, Switching, Aims, RowInv,
              OnRecord, Owed, Sound, Base
<1>3. CASE mode[q] = "revert"
  <2>1. undone' = undone \cup (IF FALSE THEN {} ELSE Remaining(q))
    BY <1>3 DEF LeftUndone, Undoing
  <2>. QED BY <1>1, <1>3, <2>1, RevertAhead DEF Outcome, InvOf, Switching, Aims, RowInv,
              OnRecord, Owed, Sound, Base
<1>4. CASE mode[q] = "deploy"
  <2>1. undone' = undone \cup (IF todo[q] = Plan["deploy"] THEN {} ELSE Remaining(q))
    BY <1>4 DEF LeftUndone, Undoing
  <2>. QED BY <1>1, <1>4, <2>1, DeployAhead DEF Outcome, InvOf, Switching, Aims, RowInv,
              OnRecord, Owed, Sound, Base
<1>5. CASE mode[q] = "update"
  <2>1. undone' = undone \cup (IF todo[q] = Plan["update"] THEN {} ELSE Remaining(q) \cup {"port"})
    BY <1>5 DEF LeftUndone, Undoing
  <2>. QED BY <1>1, <1>5, <2>1, UpdateAhead DEF Outcome, InvOf, Switching, Aims, RowInv,
              OnRecord, Owed, Sound, Base
<1>6. CASE mode[q] = "clear"
  <2>1. undone' = undone \cup (IF FALSE THEN {} ELSE Remaining(q))
    BY <1>6 DEF LeftUndone, Undoing
  <2>. QED BY <1>1, <1>6, <2>1, ClearAhead DEF Outcome, InvOf, Switching, Aims, RowInv,
              OnRecord, Owed, Sound, Base
<1>7. CASE mode[q] = "rollback"
  BY <1>7 DEF Outcome
<1>. QED BY <1>2, <1>3, <1>4, <1>5, <1>6, <1>7

LEMMA NotDoneOutcome ==
    ASSUME Base, NEW q \in Request, InvOf(q), todo[q] # <<>>, NotDone(q), config' = config
    PROVE  Outcome(q)
<1>1. Sound(q) /\ mode[q] \in Mode \ {"idle"}
  BY NothingAhead DEF Base, TypeOK
<1>2. CASE mode[q] = "restore"
  BY <1>1, <1>2, NotDoneCases DEF Outcome, InvOf, Aims, Sound
<1>3. CASE mode[q] = "clear" /\ Head(todo[q]) # "config"
  <2>1. Len(todo[q]) > 1 => mode'[q] = mode[q]
    BY <1>3, NotDoneCases DEF Tailed
  <2>2. CASE Len(todo[q]) > 1
    BY <1>3, <2>1, <2>2 DEF Outcome
  <2>3. CASE ~(Len(todo[q]) > 1)
    <3>1. Remaining(q) = {"fail"}
      BY <1>3, <2>3, ClearAhead DEF Base
    <3>2. Len(todo[q]) = 1
      BY <1>3, <2>3, ClearAhead DEF Base
    <3>3. answer'[q] = "error"
      BY <1>3, <3>2, NotDoneCases
    <3>. QED BY <1>3, <3>1, <3>3 DEF Outcome, InvOf, Aims, Owed
  <2>. QED BY <2>2, <2>3
<1>4. CASE \E m \in Mode \ {"idle"}, n \in Config : Takes(q, m, n)
  BY <1>4 DEF Outcome, Takes, Base, TypeOK
<1>5. CASE /\ mode[q] # "restore"
           /\ ~(mode[q] = "clear" /\ Head(todo[q]) # "config")
           /\ ~(\E m \in Mode \ {"idle"}, n \in Config : Takes(q, m, n))
  <2>1. /\ mode[q] = "deploy" => Away(q) \in Config /\ Back(q) \in Config
        /\ before[q] # None => before[q] \in Config
    <3>1. next[q] \in Config /\ before[q] \in Config \cup {None}
          /\ (mode[q] = "deploy" => before[q] # None)
      BY <1>1 DEF Base, TypeOK, Sound
    <3>. QED BY <3>1 DEF Away, Back, Config
  <2>. QED
    BY <1>1, <1>5, <2>1, Modes, NotDoneCases, StopOutcome DEF Sound
<1>. QED BY <1>2, <1>3, <1>4, <1>5

LEMMA StepOutcome ==
    ASSUME Base, NEW q \in Request, InvOf(q), Step(q) PROVE Outcome(q)
<1>1. CASE Link(q) \/ WriteUnit(q) \/ RemoveUnit(q) \/ InsertRow(q) \/ Ready(q)
  <2>1. PICK s \in {"link", "unit", "remove", "row", "wait"} :
          At(q, s) /\ Proceed(q, {}) /\ config' = config
    BY <1>1 DEF Link, WriteUnit, RemoveUnit, InsertRow, Ready, Tables
  <2>. QED BY <2>1, ProceedOutcome DEF At
<1>2. CASE PutConfig(q)
  <2>1. At(q, "config") /\ Proceed(q, {}) /\ (mode[q] # "clear" => config' = next[q])
    BY <1>2 DEF PutConfig
  <2>. QED BY <2>1, ProceedOutcome DEF At
<1>3. CASE MarkRows(q) \/ RowsNotMarked(q)
  <2>1. PICK s \in {"mark", "fail"} : At(q, s) /\ Proceed(q, {}) /\ config' = config
    BY <1>3 DEF MarkRows, RowsNotMarked, Tables
  <2>. QED BY <2>1, ProceedOutcome DEF At
<1>4. CASE SetPort(q)
  <2>1. At(q, "port") /\ config' = config
    BY <1>4 DEF SetPort, Tables
  <2>2. CASE next[q].active # None /\ Proceed(q, {})
    BY <2>1, <2>2, ProceedOutcome DEF At
  <2>3. CASE mode' = mode
    BY <2>3 DEF Outcome
  <2>. QED BY <1>4, <2>2, <2>3 DEF SetPort
<1>5. CASE Systemctl(q)
  <2>1. PICK s \in {"reload", "start", "stop"} : At(q, s)
    BY <1>5 DEF Systemctl, Effect
  <2>2. config' = config /\ Proceed(q, {Head(todo[q])} \cap {"reload"})
    BY <1>5 DEF Systemctl, Tables
  <2>. QED BY <2>1, <2>2, ProceedOutcome DEF At
<1>6. CASE WriteFails(q) \/ SetPortFails(q) \/ SystemctlFails(q) \/ NotReady(q)
  <2>1. todo[q] # <<>> /\ NotDone(q) /\ config' = config
    BY <1>6 DEF WriteFails, SetPortFails, SystemctlFails, NotReady, At, Tables
  <2>. QED BY <2>1, NotDoneOutcome
<1>7. CASE ReleaseUnavailable(q)
  <2>1. todo[q] # <<>> /\ mode[q] = "update" /\ config' = config /\ Stop(q)
    BY <1>7 DEF ReleaseUnavailable, At, Tables
  <2>2. answer'[q] = "error" /\ undone' = undone \cup LeftUndone(q)
    BY <2>1, StopSound
  <2>. QED BY <2>1, <2>2, StopOutcome
<1>8. CASE SetPortHalfWay(q)
  <2>1. /\ At(q, "port") /\ todo[q] # <<>> /\ config' = config /\ Sound(q)
        /\ before[q] \in Config \cup {None}
    BY <1>8, StepFacts DEF SetPortHalfWay, Tables
  <2>2. CASE mode[q] = "update" /\ Finish(q, "error")
    <3>1. answer'[q] = "error"
      BY <2>2 DEF Finish, Base, TypeOK
    <3>. QED BY <2>1, <2>2, <3>1 DEF Outcome, InvOf, Aims
  <2>3. CASE mode[q] = "restore" /\ Skip(q)
    <3>1. Tailed(q)
      BY <2>1, <2>3, AtPort, SkipSound DEF Base
    <3>. QED BY <3>1 DEF Outcome, Tailed
  <2>. QED BY <1>8, <2>2, <2>3 DEF SetPortHalfWay
<1>. QED BY <1>1, <1>2, <1>3, <1>4, <1>5, <1>6, <1>7, <1>8 DEF Step

\* However a step ends an operation, this is its outcome.
LEMMA NextOutcome ==
    ASSUME Inv, Alone, [Next]_vars, NEW q \in Request PROVE Outcome(q)
<1>1. Base /\ InvOf(q) /\ Request = {q}
  BY DEF Inv, Alone
<1>2. CASE Step(q)
  BY <1>1, <1>2, StepOutcome
<1>3. CASE Operation(q)
  BY <1>1, <1>3 DEF Outcome, Operation, Adopt, Deploy, Rollback, Update, Begin
<1>4. CASE mode' = mode
  BY <1>4 DEF Outcome
<1>5. CASE Crash
  BY <1>5 DEF Outcome, Crash
<1>. QED
  <2>1. Expire(q) \/ Restart \/ Listen \/ Exit \/ ComeBack \/ UNCHANGED vars => mode' = mode
    BY DEF Expire, Restart, Listen, Exit, ComeBack, Locals, vars
  <2>. QED BY <1>1, <1>2, <1>3, <1>4, <1>5, <2>1 DEF Next

-----------------------------------------------------------------------------
\* Every variable keeps its type, for any number of requests, releases and ports;
\* in particular what remains of an operation is the end of one of the plans, and a
\* unit is never written for a release that is none.
THEOREM TypeCorrect == Spec => []TypeOK
<1>1. Init => Base
  BY BaseInit
<1>2. Base /\ [Next]_vars => Base'
  BY BaseNext
<1>3. Base => TypeOK
  BY DEF Base
<1>. QED BY <1>1, <1>2, <1>3, PTL DEF Spec

LEMMA InvHolds == Alone => (Spec => []Inv)
<1>1. ASSUME Alone PROVE Spec => []Inv
  <2>1. Init => Inv
    BY InvInit
  <2>2. Inv /\ [Next]_vars => Inv'
    BY <1>1, InvNext
  <2>. QED BY <2>1, <2>2, PTL DEF Spec
<1>. QED BY <1>1

\* Whatever fails, and however often, the unit, the link and the unit systemd has
\* read are those of the recorded configuration when no operation is under way,
\* unless a failure stopped one between them: operations one at a time.
THEOREM UnitFollowsConfigHolds == Alone => (Spec => []UnitFollowsConfig)
<1>1. ASSUME Alone, Inv PROVE UnitFollowsConfig
  <2>1. PICK q \in Request : Request = {q}
    BY <1>1 DEF Alone
  <2>2. SUFFICES ASSUME Resting, Whole
                 PROVE  /\ IF config = None \/ config.active = None THEN unit = None
                           ELSE unit = UnitOf(config) /\ current = config.active
                        /\ Intact({"reload"}) => loaded = unit
    BY DEF UnitFollowsConfig, Whole
  <2>3. InvOf(q) /\ mode[q] = "idle" /\ Remaining(q) = {}
    BY <1>1, <2>1, <2>2, NothingAhead DEF Inv, Resting, Base
  <2>4. Matches
    BY <2>2, <2>3 DEF InvOf, UnitInv
  <2>5. Intact({"reload"}) => loaded = unit
    BY <2>3 DEF InvOf, ReadInv, Owed, Intact
  <2>. QED BY <2>4, <2>5 DEF Matches
<1>2. ASSUME Alone PROVE Spec => []UnitFollowsConfig
  <2>1. Inv => UnitFollowsConfig
    BY <1>1, <1>2
  <2>2. Spec => []Inv
    BY <1>2, InvHolds
  <2>. QED BY <2>1, <2>2, PTL
<1>. QED BY <1>2

\* The port CloudPanel stores is the one on record, for any number of failures, unless
\* an update was stopped between the two, got stuck half way in the hand-over or could
\* not take its port back.
THEOREM PortsAgreeHolds == Alone => (Spec => []PortsAgree)
<1>1. ASSUME Alone, Inv PROVE PortsAgree
  <2>1. PICK q \in Request : Request = {q}
    BY <1>1 DEF Alone
  <2>. QED BY <1>1, <2>1 DEF PortsAgree, Inv, InvOf, PortInv, Resting, Intact
<1>2. ASSUME Alone PROVE Spec => []PortsAgree
  <2>1. Inv => PortsAgree
    BY <1>1, <1>2
  <2>2. Spec => []Inv
    BY <1>2, InvHolds
  <2>. QED BY <2>1, <2>2, PTL
<1>. QED BY <1>2

\* A rollback finds the release it returns to on record.
THEOREM PreviousCanReturnHolds == Alone => (Spec => []PreviousCanReturn)
<1>1. ASSUME Alone, Inv PROVE PreviousCanReturn
  <2>1. PICK q \in Request : Request = {q}
    BY <1>1 DEF Alone
  <2>. QED BY <1>1, <2>1 DEF PreviousCanReturn, Inv, InvOf, RowInv, OnRecord, Intact
<1>2. ASSUME Alone PROVE Spec => []PreviousCanReturn
  <2>1. Inv => PreviousCanReturn
    BY <1>1, <1>2
  <2>2. Spec => []Inv
    BY <1>2, InvHolds
  <2>. QED BY <2>1, <2>2, PTL
<1>. QED BY <1>2

\* A success has recorded what was asked for; a deploy or an update that fails has
\* kept release and port, also where the way back fails in part.
THEOREM AllOrNothingHolds == Alone => (Spec => AllOrNothing)
<1>1. ASSUME Alone PROVE Spec => AllOrNothing
  <2>1. Inv /\ [Next]_vars => \A q \in Request : Outcome(q)
    BY <1>1, NextOutcome
  <2>2. (\A q \in Request : Outcome(q)) =>
          (\A q \in Request :
             mode[q] # "idle" /\ mode'[q] = "idle" =>
               /\ answer'[q] = "ok" => config' = next[q]
               /\ answer'[q] = "error" /\ mode[q] # "rollback"
                    /\ undone' \cap {"config", "row"} = {} /\ before[q] # None =>
                    config'.active = before[q].active /\ config'.port = before[q].port)
    BY DEF Outcome
  <2>3. Spec => []Inv
    BY <1>1, InvHolds
  <2>. QED BY <2>1, <2>2, <2>3, PTL DEF Spec, AllOrNothing
<1>. QED BY <1>1
=============================================================================
