---------------------------- MODULE PromptsProofs ----------------------------
(***************************************************************************)
(* Theorems about Prompts, for any finite set of administrators, any       *)
(* number of versions and any number of broken transactions.               *)
(***************************************************************************)
EXTENDS Prompts, FiniteSetTheorems, WellFoundedInduction, TLAPS

-----------------------------------------------------------------------------
(* The inductive invariant                                                 *)

\* Where a transaction is fits what it is for: only one that activates a version turns
\* others off, it is not about to commit before its row is active, and the row that it
\* makes active or edits is there, or it has just inserted it.
Fits(a) ==
    /\ Open(a) => txn[a].row \in Versions
    /\ txn[a].off # {} => txn[a].on = TRUE
    /\ txn[a].pc \in {"deactivate", "deactivating", "lock", "light"} => txn[a].on = TRUE
    /\ txn[a].pc = "edit" => txn[a].on = FALSE
    /\ txn[a].pc = "commit" => txn[a].lit = txn[a].on
    /\ txn[a].lit = TRUE => txn[a].pc = "commit"
    /\ txn[a].pc \in {"lock", "edit", "light", "commit"} =>
           txn[a].new = TRUE \/ txn[a].row \in exists

\* A transaction beside which no other was open has seen all that is committed.
Sees(a) ==
    /\ txn[a].pc = "insert" => txn[a].row \notin exists
    /\ txn[a].pc = "deactivating" => active \subseteq txn[a].todo \cup txn[a].off
    /\ txn[a].pc \in {"insert", "lock", "light"} /\ txn[a].on = TRUE => active \subseteq txn[a].off

AllFit == \A a \in Admins : Fits(a)

AloneSees ==
    \A a \in Admins : Open(a) /\ txn[a].met = FALSE => Others(a) = {} /\ Sees(a)

\* What the unique index on the active version enforces: at most one row is active, at
\* most one is about to be, and when it is, no other one remains.
OneActive ==
    /\ \A v, w \in active : v = w
    /\ \A a, b \in Admins : txn[a].lit = TRUE /\ txn[b].lit = TRUE => a = b
    /\ \A a \in Admins : txn[a].lit = TRUE => active \subseteq txn[a].off \cup {txn[a].row}

IInv == TypeOK /\ AllFit /\ AloneSees /\ OneActive /\ ConflictsOverlap

-----------------------------------------------------------------------------
(* Numbers and records                                                     *)

LEMMA Bound == IsFiniteSet(Admins) /\ MaxVersions \in Nat \ {0} /\ MaxFaults \in Nat
  BY ConstantsAssumption, Zenon DEF ConstantsAssumption

\* There is a last version, so that Create's is one more and is not there.
LEMMA LastVersion ==
    ASSUME exists \subseteq Versions
    PROVE  /\ MaxVersion \in 0..MaxVersions
           /\ MaxVersion + 1 \notin exists
<1> DEFINE T == {n \in Nat : n <= MaxVersions /\ MaxVersions - n \in exists \cup {0}}
<1>1. T \subseteq Nat /\ MaxVersions \in T
  BY Bound
<1>2. PICK x \in T : \A y \in T : <<y, x>> \notin OpToRel(<, Nat)
  <2> HIDE DEF T
  <2> QED
    BY <1>1, NatLessThanWellFounded, WFMin
<1>3. \A y \in T : x <= y
  <2> SUFFICES ASSUME NEW y \in T, y < x PROVE FALSE
    BY <1>1
  <2>1. <<y, x>> \in OpToRel(<, Nat)
    BY <1>1 DEF OpToRel
  <2> QED
    BY <2>1, <1>2
<1>4. \A w \in exists : w \in Nat /\ w <= MaxVersions - x
  <2> TAKE w \in exists
  <2>1. w \in 1..MaxVersions
    BY DEF Versions
  <2>2. MaxVersions - w \in T
    BY <2>1, Bound
  <2>3. x <= MaxVersions - w
    BY <2>2, <1>3
  <2> QED
    BY <2>1, <2>3, Bound, <1>1
<1>5. MaxVersion \in exists \cup {0} /\ \A w \in exists : w <= MaxVersion
  <2>1. MaxVersions - x \in exists \cup {0}
    BY <1>2
  <2> QED
    BY <1>4, <2>1 DEF MaxVersion
<1> QED
  BY <1>5, Bound DEF Versions

-----------------------------------------------------------------------------
(* What a step does to the transactions                                    *)

\* What a transaction is when its first statement comes next.
Fresh ==
    {t \in Txn :
        /\ t.row \in Versions
        /\ t.todo = {} /\ t.off = {} /\ t.new = FALSE /\ t.held = FALSE /\ t.lit = FALSE
        /\ \/ t.pc = "deactivate" /\ t.on = TRUE
           \/ t.pc = "insert" /\ t.on = FALSE /\ t.row \notin exists
           \/ t.pc = "edit" /\ t.on = FALSE /\ t.row \in exists}

LEMMA IdleType == Idle \in Txn
  BY Bound DEF Idle, Txn, PC

\* When the first statement comes next, nothing is written yet; an insert is of a row
\* that was not there, and an edit of one that was.
LEMMA EnteringFresh ==
    ASSUME NEW v \in Versions
    PROVE  /\ Entering("deactivate", v, TRUE) \in Fresh
           /\ v \notin exists => Entering("insert", v, FALSE) \in Fresh
           /\ v \in exists => Entering("edit", v, FALSE) \in Fresh
<1>1. ASSUME NEW p \in PC, NEW on \in BOOLEAN,
             \/ p = "deactivate" /\ on = TRUE
             \/ p = "insert" /\ on = FALSE /\ v \notin exists
             \/ p = "edit" /\ on = FALSE /\ v \in exists
      PROVE  Entering(p, v, on) \in Fresh
  <2>1. v \in 0..MaxVersions
    BY Bound DEF Versions
  <2> QED
    BY <1>1, <2>1 DEF Entering, Idle, Txn, Fresh
<1>2. /\ "deactivate" \in PC /\ "insert" \in PC /\ "edit" \in PC
      /\ TRUE \in BOOLEAN /\ FALSE \in BOOLEAN
  BY DEF PC
<1> QED
  BY <1>1, <1>2, Zenon

\* Every request enters with such a transaction.
LEMMA RequestEnters ==
    ASSUME TypeOK, NEW a \in Admins, Request(a)
    PROVE  \E t \in Fresh : Enter(a, t)
<1>1. ASSUME NEW v \in Versions
      PROVE  /\ Inserting(v, TRUE) = Entering("deactivate", v, TRUE)
             /\ Inserting(v, FALSE) = Entering("insert", v, FALSE)
  BY DEF Inserting
<1>2. ASSUME NEW v \in Versions, NEW on \in BOOLEAN, v \notin exists
      PROVE  Inserting(v, on) \in Fresh
  BY <1>1, <1>2, EnteringFresh
<1>3. MaxVersion < MaxVersions =>
          MaxVersion + 1 \in Versions /\ MaxVersion + 1 \notin exists
  BY LastVersion, Bound DEF Versions, TypeOK
<1>4. CASE \E on \in BOOLEAN : Create(a, on)
  BY <1>2, <1>3, <1>4 DEF Create
<1>5. CASE CreateCopy(a)
  BY <1>2, <1>3, <1>5 DEF CreateCopy
<1>6. CASE Seed(a)
  <2>1. 1 \in Versions /\ TRUE \in BOOLEAN
    BY Bound DEF Versions
  <2> QED
    BY <1>2, <1>6, <2>1, Zenon DEF Seed
<1>7. ASSUME NEW v \in Versions, Activate(a, v)
      PROVE  \E t \in Fresh : Enter(a, t)
  BY <1>7, EnteringFresh, Zenon DEF Activate
<1>8. ASSUME NEW v \in Versions, Edit(a, v)
      PROVE  \E t \in Fresh : Enter(a, t)
  BY <1>8, EnteringFresh, Zenon DEF Edit
<1> QED
  BY <1>4, <1>5, <1>6, <1>7, <1>8 DEF Request

\* The transaction t as it is but for having met another.
Like(t, u) ==
    /\ t.pc = u.pc /\ t.row = u.row /\ t.on = u.on /\ t.todo = u.todo /\ t.off = u.off
    /\ t.new = u.new /\ t.held = u.held /\ t.lit = u.lit

LEMMA EnterFacts ==
    ASSUME TypeOK, NEW a \in Admins, NEW t \in Fresh, Enter(a, t)
    PROVE  /\ txn' \in [Admins -> Txn]
           /\ Like(txn'[a], t)
           /\ txn'[a].met <=> Others(a) # {}
           /\ \A b \in Admins \ {a} : /\ Like(txn'[b], txn[b])
                                      /\ txn'[b].met <=> txn[b].met \/ Open(b)
<1>1. ASSUME NEW u \in Txn, NEW m \in BOOLEAN
      PROVE  /\ [u EXCEPT !.met = m] \in Txn
             /\ Like([u EXCEPT !.met = m], u)
             /\ [u EXCEPT !.met = m].met = m
             /\ u.met \in BOOLEAN
  BY DEF Txn, Like
<1>2. t \in Txn /\ \A b \in Admins : txn[b] \in Txn
  BY DEF Fresh, TypeOK
<1>3. txn' = [b \in Admins |->
                 IF b = a THEN [t EXCEPT !.met = Others(a) # {}]
                 ELSE [txn[b] EXCEPT !.met = txn[b].met \/ Open(b)]]
  BY DEF Enter
<1> DEFINE meets == Others(a) # {}
           beside(b) == txn[b].met \/ Open(b)
<1>4. /\ txn'[a] = [t EXCEPT !.met = meets]
      /\ \A b \in Admins \ {a} : txn'[b] = [txn[b] EXCEPT !.met = beside(b)]
  BY <1>3
<1>5. meets \in BOOLEAN /\ \A b \in Admins : beside(b) \in BOOLEAN
  BY DEF Open
<1> HIDE DEF meets, beside
<1>6. /\ txn'[a] \in Txn /\ Like(txn'[a], t)
      /\ txn'[a].met = meets
  BY <1>1, <1>2, <1>4, <1>5
<1>7. ASSUME NEW b \in Admins \ {a}
      PROVE  /\ txn'[b] \in Txn /\ Like(txn'[b], txn[b])
             /\ txn'[b].met = beside(b)
  <2>1. txn[b] \in Txn /\ beside(b) \in BOOLEAN
    BY <1>2, <1>5
  <2>2. txn'[b] = [txn[b] EXCEPT !.met = beside(b)]
    BY <1>4
  <2> QED
    BY <1>1, <2>1, <2>2
<1>8. txn' \in [Admins -> Txn]
  BY <1>3, <1>6, <1>7
<1> QED
  BY <1>6, <1>7, <1>8 DEF meets, beside

-----------------------------------------------------------------------------
(* What each step does to the invariant                                    *)

\* No other transaction of a's changes.
Own(a) ==
    /\ txn' \in [Admins -> Txn]
    /\ \A b \in Admins \ {a} : txn'[b] = txn[b]

\* While a is open, only a can be one that has met no other.
LEMMA OthersHaveMet ==
    ASSUME IInv, NEW a \in Admins, Open(a), NEW b \in Admins \ {a}, Open(b)
    PROVE  txn[b].met = TRUE /\ txn[a].met = TRUE
<1>1. a \in Others(b) /\ b \in Others(a)
  BY DEF Others
<1>2. txn[a] \in Txn /\ txn[b] \in Txn
  BY DEF IInv, TypeOK
<1> QED
  BY <1>1, <1>2 DEF IInv, AloneSees, Txn

\* A statement that does not end its transaction keeps the invariant when it does so for
\* this transaction.
LEMMA OwnKeeps ==
    ASSUME IInv, NEW a \in Admins, Open(a), Own(a), Open(a)',
           UNCHANGED <<exists, active, refused, faults>>,
           Fits(a)', Sees(a)' \/ txn[a].met = TRUE, txn'[a].met = txn[a].met,
           txn'[a].lit = TRUE => /\ \A b \in Others(a) : txn[b].lit = FALSE
                                 /\ active \subseteq txn'[a].off \cup {txn'[a].row}
    PROVE  IInv'
<1>1. TypeOK'
  BY DEF IInv, TypeOK, Own
<1>2. AllFit'
  <2> SUFFICES ASSUME NEW b \in Admins \ {a} PROVE Fits(b)'
    BY DEF AllFit
  <2> QED
    BY DEF IInv, AllFit, Own, Fits, Open
<1>3. AloneSees'
  <2> SUFFICES ASSUME NEW b \in Admins, Open(b)', txn'[b].met = FALSE
               PROVE  Others(b)' = {} /\ Sees(b)'
    BY DEF AloneSees
  <2>1. b = a
    BY OthersHaveMet DEF Own, Open
  <2>2. Others(a)' = Others(a)
    BY DEF Own, Others, Open
  <2> QED
    BY <2>1, <2>2 DEF IInv, AloneSees
<1>4. OneActive'
  <2>1. \A b \in Admins \ {a} : txn[b].lit = TRUE => b \in Others(a)
    BY DEF IInv, AllFit, Fits, Others, Open
  <2>2. \A v, w \in active' : v = w
    BY DEF IInv, OneActive
  <2>3. ASSUME NEW b \in Admins, NEW c \in Admins, txn'[b].lit = TRUE, txn'[c].lit = TRUE
        PROVE  b = c
    BY <2>1, <2>3 DEF IInv, OneActive, Own
  <2>4. ASSUME NEW b \in Admins, txn'[b].lit = TRUE
        PROVE  active' \subseteq txn'[b].off \cup {txn'[b].row}
    BY <2>4 DEF IInv, OneActive, Own
  <2> QED
    BY <2>2, <2>3, <2>4 DEF OneActive
<1>5. ConflictsOverlap'
  BY DEF IInv, ConflictsOverlap
<1> QED
  BY <1>1, <1>2, <1>3, <1>4, <1>5 DEF IInv

LEMMA BecomesFacts ==
    ASSUME TypeOK, NEW a \in Admins, NEW t \in Txn, Becomes(a, t)
    PROVE  Own(a) /\ txn'[a] = t /\ UNCHANGED <<exists, active, refused, faults>>
  BY DEF TypeOK, Becomes, Own

\* What the invariant says of a transaction, and what it is when it is beside no other.
LEMMA OwnFacts ==
    ASSUME IInv, NEW a \in Admins
    PROVE  /\ txn[a] \in Txn /\ Fits(a) /\ exists \subseteq Versions /\ active \subseteq exists
           /\ Open(a) => Sees(a) \/ txn[a].met = TRUE
           /\ txn[a].lit \in BOOLEAN /\ txn[a].on \in BOOLEAN /\ txn[a].new \in BOOLEAN
  BY DEF IInv, TypeOK, AllFit, AloneSees, Txn

\* The statements, one by one.
LEMMA DeactivateKeeps ==
    ASSUME IInv, NEW a \in Admins, Deactivate(a)
    PROVE  IInv'
<1> DEFINE t == [txn[a] EXCEPT !.pc = "deactivating", !.todo = active]
<1>1. /\ t \in Txn /\ t.pc = "deactivating" /\ t.row = txn[a].row /\ t.on = txn[a].on
      /\ t.todo = active /\ t.off = txn[a].off /\ t.lit = txn[a].lit /\ t.met = txn[a].met
  BY OwnFacts DEF Txn, PC
<1> HIDE DEF t
<1>2. Own(a) /\ txn'[a] = t /\ UNCHANGED <<exists, active, refused, faults>>
  BY <1>1, BecomesFacts DEF t, IInv, Deactivate
<1>3. Fits(a)' /\ Sees(a)' /\ Open(a) /\ Open(a)'
  BY <1>1, <1>2, OwnFacts DEF Fits, Sees, Open, Deactivate
<1>4. t.lit # TRUE
  BY <1>1, OwnFacts DEF Fits, Deactivate
<1> QED
  BY <1>1, <1>2, <1>3, <1>4, OwnKeeps

LEMMA DeactivateRowKeeps ==
    ASSUME IInv, NEW a \in Admins, NEW v \in Versions, DeactivateRow(a, v)
    PROVE  IInv'
<1> DEFINE t == [txn[a] EXCEPT !.todo = txn[a].todo \ {v},
                               !.off  = txn[a].off \cup ({v} \cap active)]
<1>1. /\ t \in Txn /\ t.pc = txn[a].pc /\ t.row = txn[a].row /\ t.on = txn[a].on
      /\ t.todo = txn[a].todo \ {v} /\ t.off = txn[a].off \cup ({v} \cap active)
      /\ t.lit = txn[a].lit /\ t.met = txn[a].met
  BY OwnFacts DEF Txn
<1> HIDE DEF t
<1>2. Own(a) /\ txn'[a] = t /\ UNCHANGED <<exists, active, refused, faults>>
  BY <1>1, BecomesFacts DEF t, IInv, DeactivateRow
<1>3. Fits(a)' /\ (Sees(a)' \/ txn[a].met = TRUE) /\ Open(a) /\ Open(a)'
  BY <1>1, <1>2, OwnFacts DEF Fits, Sees, Open, DeactivateRow
<1>4. t.lit # TRUE
  BY <1>1, OwnFacts DEF Fits, DeactivateRow
<1> QED
  BY <1>1, <1>2, <1>3, <1>4, OwnKeeps

LEMMA DeactivatedKeeps ==
    ASSUME IInv, NEW a \in Admins, Deactivated(a)
    PROVE  IInv'
<1> DEFINE p == IF txn[a].row \in exists THEN "lock" ELSE "insert"
           t == [txn[a] EXCEPT !.pc = p]
<1>1. /\ t \in Txn /\ t.pc = p /\ t.row = txn[a].row /\ t.on = txn[a].on
      /\ t.todo = txn[a].todo /\ t.off = txn[a].off /\ t.lit = txn[a].lit /\ t.met = txn[a].met
  BY OwnFacts DEF Txn, PC
<1> HIDE DEF t
<1>2. Own(a) /\ txn'[a] = t /\ UNCHANGED <<exists, active, refused, faults>>
  BY <1>1, BecomesFacts DEF t, IInv, Deactivated
<1>3. Fits(a)' /\ (Sees(a)' \/ txn[a].met = TRUE) /\ Open(a) /\ Open(a)'
  BY <1>1, <1>2, OwnFacts DEF Fits, Sees, Open, Deactivated
<1>4. t.lit # TRUE
  BY <1>1, OwnFacts DEF Fits, Deactivated
<1> QED
  BY <1>1, <1>2, <1>3, <1>4, OwnKeeps

LEMMA LockRowKeeps ==
    ASSUME IInv, NEW a \in Admins, LockRow(a)
    PROVE  IInv'
<1> DEFINE p == IF txn[a].on THEN "light" ELSE "commit"
           t == [txn[a] EXCEPT !.held = TRUE, !.pc = p]
<1>1. /\ t \in Txn /\ t.pc = p /\ t.row = txn[a].row /\ t.on = txn[a].on
      /\ t.off = txn[a].off /\ t.new = txn[a].new /\ t.lit = txn[a].lit /\ t.met = txn[a].met
  BY OwnFacts DEF Txn, PC
<1> HIDE DEF t
<1>2. Own(a) /\ txn'[a] = t /\ UNCHANGED <<exists, active, refused, faults>>
  BY <1>1, BecomesFacts DEF t, IInv, LockRow
<1>3. t.lit # TRUE
  BY <1>1, OwnFacts DEF Fits, LockRow
<1>4. Fits(a)' /\ (Sees(a)' \/ txn[a].met = TRUE) /\ Open(a) /\ Open(a)'
  BY <1>1, <1>2, <1>3, OwnFacts DEF Fits, Sees, Open, LockRow
<1> QED
  BY <1>1, <1>2, <1>3, <1>4, OwnKeeps

\* An insert that is not refused.
LEMMA InsertKeeps ==
    ASSUME IInv, NEW a \in Admins, Insert(a), txn[a].row \notin exists
    PROVE  IInv'
<1> DEFINE p == IF txn[a].on THEN "light" ELSE "commit"
           t == [txn[a] EXCEPT !.new = TRUE, !.pc = p]
<1>1. /\ t \in Txn /\ t.pc = p /\ t.row = txn[a].row /\ t.on = txn[a].on
      /\ t.off = txn[a].off /\ t.new = TRUE /\ t.lit = txn[a].lit /\ t.met = txn[a].met
  BY OwnFacts DEF Txn, PC
<1> HIDE DEF t
<1>2. Own(a) /\ txn'[a] = t /\ UNCHANGED <<exists, active, refused, faults>>
  BY <1>1, BecomesFacts DEF t, IInv, Insert
<1>3. t.lit # TRUE
  BY <1>1, OwnFacts DEF Fits, Insert
<1>4. Fits(a)' /\ (Sees(a)' \/ txn[a].met = TRUE) /\ Open(a) /\ Open(a)'
  BY <1>1, <1>2, <1>3, OwnFacts DEF Fits, Sees, Open, Insert
<1> QED
  BY <1>1, <1>2, <1>3, <1>4, OwnKeeps

\* An activation that is not refused: nobody else decides, so no other row is about to
\* be active, and those that are have been turned off.
LEMMA LightKeeps ==
    ASSUME IInv, NEW a \in Admins, Light(a), Forbidding(a) = {}
    PROVE  IInv'
<1> DEFINE t == [txn[a] EXCEPT !.lit = TRUE, !.pc = "commit"]
<1>1. /\ t \in Txn /\ t.pc = "commit" /\ t.row = txn[a].row /\ t.on = txn[a].on
      /\ t.off = txn[a].off /\ t.new = txn[a].new /\ t.lit = TRUE /\ t.met = txn[a].met
  BY OwnFacts DEF Txn, PC
<1> HIDE DEF t
<1>2. Own(a) /\ txn'[a] = t /\ UNCHANGED <<exists, active, refused, faults>>
  BY <1>1, BecomesFacts DEF t, IInv, Light
<1>3. Fits(a)' /\ Sees(a)' /\ Open(a) /\ Open(a)'
  BY <1>1, <1>2, OwnFacts DEF Fits, Sees, Open, Light
<1>4. \A b \in Others(a) : txn[b].lit = FALSE
  BY OwnFacts DEF Light, Deciders, Others
<1>5. active \subseteq txn'[a].off \cup {txn'[a].row}
  BY <1>1, <1>2 DEF Forbidding
<1> QED
  BY <1>1, <1>2, <1>3, <1>4, <1>5, OwnKeeps

-----------------------------------------------------------------------------
(* Transactions that end                                                   *)

\* Giving up changes nothing that is committed, and one that has met no other is not
\* refused.
LEMMA RollbackKeeps ==
    ASSUME IInv, NEW a \in Admins, NEW how \in Outcome, Rollback(a, how), how # "alone",
           faults' \in 0..MaxFaults
    PROVE  IInv'
<1>1. Own(a) /\ txn'[a] = Idle /\ UNCHANGED <<exists, active>>
  BY IdleType DEF IInv, TypeOK, Rollback, Own
<1>2. Idle.pc = "idle" /\ Idle.off = {} /\ Idle.lit = FALSE
  BY DEF Idle
<1>3. TypeOK'
  BY <1>1 DEF IInv, TypeOK, Own, Rollback
<1>4. AllFit'
  <2>1. Fits(a)'
    BY <1>1, <1>2 DEF Fits, Open
  <2>2. ASSUME NEW b \in Admins \ {a} PROVE Fits(b)'
    BY <1>1 DEF IInv, AllFit, Own, Fits, Open
  <2> QED
    BY <2>1, <2>2 DEF AllFit
<1>5. AloneSees'
  <2> SUFFICES ASSUME NEW b \in Admins, Open(b)', txn'[b].met = FALSE
               PROVE  Others(b)' = {} /\ Sees(b)'
    BY DEF AloneSees
  <2>1. b # a /\ txn'[b] = txn[b]
    BY <1>1, <1>2 DEF Own, Open
  <2>2. Others(b) = {} /\ Sees(b)
    BY <2>1 DEF IInv, AloneSees, Open
  <2>3. Others(b)' \subseteq Others(b)
    BY <1>1, <1>2 DEF Own, Others, Open
  <2> QED
    BY <1>1, <2>1, <2>2, <2>3 DEF Sees
<1>6. OneActive'
  BY <1>1, <1>2 DEF IInv, OneActive, Own
<1>7. ConflictsOverlap'
  BY DEF IInv, TypeOK, ConflictsOverlap, Rollback
<1> QED
  BY <1>3, <1>4, <1>5, <1>6, <1>7 DEF IInv

\* A transaction that has met no other is neither refused nor in a circle.
LEMMA RefusedHasMet ==
    ASSUME IInv, NEW a \in Admins, Open(a),
           \/ Insert(a) /\ txn[a].row \in exists
           \/ Light(a) /\ Forbidding(a) # {}
           \/ Victim(a)
    PROVE  How(a) = "overlapped"
<1>1. SUFFICES ASSUME txn[a].met = FALSE PROVE FALSE
  BY OwnFacts DEF How, Txn
<1>2. Sees(a) /\ Others(a) = {}
  BY <1>1 DEF IInv, AloneSees
<1>3. CASE Insert(a) /\ txn[a].row \in exists
  BY <1>2, <1>3 DEF Sees, Insert
<1>4. CASE Light(a) /\ Forbidding(a) # {}
  BY <1>2, <1>4, OwnFacts DEF Sees, Light, Forbidding, Fits
<1>5. CASE Victim(a)
  <2>1. PICK S \in SUBSET Admins : a \in S /\ Circle(S)
    BY <1>5 DEF Victim
  <2>2. Blockers(a) # {}
    BY <2>1 DEF Circle
  <2>3. \A v : Writers(a, v) = {}
    BY <1>2 DEF Writers
  <2>4. Inserters(a) = {} /\ Deciders(a) = {}
    BY <1>2 DEF Inserters, Deciders
  <2>5. UNION {Writers(a, v) : v \in txn[a].todo} = {}
    BY <2>3
  <2> QED
    BY <2>2, <2>3, <2>4, <2>5 DEF Blockers
<1> QED
  BY <1>3, <1>4, <1>5

\* A commit that makes a row active leaves that one only; any other leaves the active
\* row as it was.
LEMMA CommitActive ==
    ASSUME IInv, NEW a \in Admins, Commit(a)
    PROVE  IF txn[a].lit = TRUE THEN active' = {txn[a].row} ELSE active' = active
<1>1. CASE txn[a].lit = TRUE
  BY <1>1 DEF Commit, IInv, OneActive
<1>2. CASE txn[a].lit = FALSE
  <2>1. txn[a].off = {}
    BY <1>2, OwnFacts DEF Fits, Commit
  <2> QED
    BY <1>2, <2>1 DEF Commit
<1> QED
  BY <1>1, <1>2, OwnFacts

LEMMA CommitKeeps ==
    ASSUME IInv, NEW a \in Admins, Commit(a)
    PROVE  IInv'
<1>1. /\ Own(a) /\ txn'[a] = Idle /\ UNCHANGED <<refused, faults>>
      /\ Open(a) /\ exists \subseteq exists'
  BY IdleType DEF IInv, TypeOK, Commit, Own, Open
<1>2. Idle.pc = "idle" /\ Idle.off = {} /\ Idle.lit = FALSE
  BY DEF Idle
<1>3. TypeOK'
  <2>1. txn[a].row \in Versions
    BY <1>1, OwnFacts DEF Fits
  <2>2. exists' \subseteq Versions
    BY <2>1, OwnFacts DEF Commit
  <2>3. active' \subseteq exists'
    BY <1>1, CommitActive, OwnFacts DEF Commit, Fits
  <2> QED
    BY <1>1, <2>2, <2>3 DEF IInv, TypeOK, Own
<1>4. AllFit'
  <2>1. Fits(a)'
    BY <1>1, <1>2 DEF Fits, Open
  <2>2. ASSUME NEW b \in Admins \ {a} PROVE Fits(b)'
    BY <1>1 DEF IInv, AllFit, Own, Fits, Open
  <2> QED
    BY <2>1, <2>2 DEF AllFit
<1>5. AloneSees'
  <2> SUFFICES ASSUME NEW b \in Admins, Open(b)', txn'[b].met = FALSE
               PROVE  FALSE
    BY DEF AloneSees
  <2>1. b # a /\ Open(b) /\ txn[b].met = FALSE
    BY <1>1, <1>2 DEF Own, Open
  <2> QED
    BY <1>1, <2>1, OthersHaveMet
<1>6. OneActive'
  <2>1. \A b \in Admins : txn'[b].lit = TRUE => b # a /\ txn'[b] = txn[b]
    BY <1>1, <1>2 DEF Own
  <2>2. \A v, w \in active' : v = w
    BY CommitActive DEF IInv, OneActive
  <2>3. ASSUME NEW b \in Admins, txn'[b].lit = TRUE
        PROVE  active' \subseteq txn'[b].off \cup {txn'[b].row}
    BY <2>1, <2>3, CommitActive DEF IInv, OneActive
  <2> QED
    BY <2>1, <2>2, <2>3 DEF IInv, OneActive
<1>7. ConflictsOverlap'
  BY <1>1 DEF IInv, ConflictsOverlap
<1> QED
  BY <1>3, <1>4, <1>5, <1>6, <1>7 DEF IInv

-----------------------------------------------------------------------------
(* Transactions that begin                                                 *)

\* Each of those that are open when another begins has met one from then on.
LEMMA EnterKeeps ==
    ASSUME IInv, NEW a \in Admins, NEW t \in Fresh, Enter(a, t)
    PROVE  IInv'
<1>1. /\ txn' \in [Admins -> Txn]
      /\ Like(txn'[a], t)
      /\ txn'[a].met <=> Others(a) # {}
      /\ \A b \in Admins \ {a} : Like(txn'[b], txn[b]) /\ (txn'[b].met <=> txn[b].met \/ Open(b))
  BY EnterFacts DEF IInv
<1>2. UNCHANGED <<exists, active, faults>> /\ refused' = [refused EXCEPT ![a] = "no"]
  BY DEF Enter
<1>3. t \in Txn /\ t.lit = FALSE /\ t.off = {} /\ t.row \in Versions
  BY DEF Fresh
<1>4. TypeOK'
  BY <1>1, <1>2 DEF IInv, TypeOK, Outcome
<1>5. AllFit'
  <2>1. Fits(a)'
    BY <1>1, <1>2 DEF Fits, Open, Like, Fresh
  <2>2. ASSUME NEW b \in Admins \ {a} PROVE Fits(b)'
    BY <1>1, <1>2 DEF IInv, AllFit, Like, Fits, Open
  <2> QED
    BY <2>1, <2>2 DEF AllFit
<1>6. AloneSees'
  <2> SUFFICES ASSUME NEW b \in Admins, Open(b)', txn'[b].met = FALSE
               PROVE  Others(b)' = {} /\ Sees(b)'
    BY DEF AloneSees
  <2>1. b = a
    BY <1>1 DEF Like, Open
  <2>2. Others(a)' = Others(a)
    BY <1>1 DEF Others, Open, Like
  <2>3. Others(a) = {}
    BY <1>1, <2>1
  <2>4. Sees(a)'
    BY <1>1, <1>2 DEF Sees, Like, Fresh
  <2> QED
    BY <2>1, <2>2, <2>3, <2>4
<1>7. OneActive'
  <2>1. \A b \in Admins : txn'[b].lit = TRUE => b # a /\ Like(txn'[b], txn[b])
    BY <1>1, <1>3 DEF Like
  <2> QED
    BY <1>2, <2>1 DEF IInv, OneActive, Like
<1>8. ConflictsOverlap'
  BY <1>2 DEF IInv, TypeOK, ConflictsOverlap
<1> QED
  BY <1>4, <1>5, <1>6, <1>7, <1>8 DEF IInv

-----------------------------------------------------------------------------
(* The theorems                                                            *)

\* No version, no transaction.
LEMMA InitKeeps == Init => IInv
<1> SUFFICES ASSUME Init PROVE IInv
  OBVIOUS
<1>1. \A a \in Admins : txn[a] = Idle
  BY DEF Init
<1>2. Idle.pc = "idle" /\ Idle.off = {} /\ Idle.lit = FALSE
  BY DEF Idle
<1>3. TypeOK
  BY IdleType, Bound DEF Init, TypeOK, Outcome
<1>4. AllFit /\ AloneSees
  BY <1>1, <1>2 DEF AllFit, Fits, AloneSees, Open
<1>5. OneActive
  BY <1>1, <1>2 DEF OneActive, Init
<1> QED
  BY <1>3, <1>4, <1>5 DEF IInv, ConflictsOverlap, Init

LEMMA StepKeeps == IInv /\ [Next]_vars => IInv'
<1> SUFFICES ASSUME IInv, [Next]_vars PROVE IInv'
  OBVIOUS
<1>1. CASE UNCHANGED vars
  BY <1>1 DEF vars, IInv, TypeOK, AllFit, Fits, AloneSees, Sees, Others, Open, OneActive,
      ConflictsOverlap
<1>2. ASSUME NEW a \in Admins, Request(a)
      PROVE  IInv'
  BY <1>2, RequestEnters, EnterKeeps DEF IInv
<1>3. ASSUME NEW a \in Admins, Statement(a)
      PROVE  IInv'
  <2>1. CASE Insert(a) \/ Light(a)
    <3>1. CASE Insert(a) /\ txn[a].row \in exists
      <4>1. How(a) = "overlapped" /\ Rollback(a, How(a)) /\ faults' = faults
        BY <3>1, RefusedHasMet DEF Insert, Open
      <4> QED
        BY <4>1, RollbackKeeps DEF IInv, TypeOK, Outcome
    <3>2. CASE Light(a) /\ Forbidding(a) # {}
      <4>1. How(a) = "overlapped" /\ Rollback(a, How(a)) /\ faults' = faults
        BY <3>2, RefusedHasMet DEF Light, Open
      <4> QED
        BY <4>1, RollbackKeeps DEF IInv, TypeOK, Outcome
    <3> QED
      BY <2>1, <3>1, <3>2, InsertKeeps, LightKeeps
  <2> QED
    BY <1>3, <2>1, DeactivateKeeps, DeactivateRowKeeps, DeactivatedKeeps, LockRowKeeps,
       CommitKeeps DEF Statement
<1>4. ASSUME NEW a \in Admins, Victim(a)
      PROVE  IInv'
  <2>1. Open(a)
    BY <1>4 DEF Victim, Circle, Blockers, Open
  <2>2. How(a) = "overlapped" /\ Rollback(a, How(a)) /\ faults' = faults
    BY <1>4, <2>1, RefusedHasMet DEF Victim
  <2> QED
    BY <2>2, RollbackKeeps DEF IInv, TypeOK, Outcome
<1>5. ASSUME NEW a \in Admins, Fault(a)
      PROVE  IInv'
  <2>1. faults' \in 0..MaxFaults
    BY <1>5, Bound DEF Fault, IInv, TypeOK
  <2> QED
    BY <1>5, <2>1, RollbackKeeps DEF Fault, Outcome
<1> QED
  BY <1>1, <1>2, <1>3, <1>4, <1>5 DEF Next

\* What the argument rests on: the invariant of the indexes and of the transactions.
THEOREM Invariance == Spec => []IInv
  BY InitKeeps, StepKeeps, PTL DEF Spec

\* Versions, transactions and outcomes stay within their types (app/models/ai_prompt.py).
THEOREM TypeCorrect == Spec => []TypeOK
<1>1. IInv => TypeOK
  BY DEF IInv
<1> QED
  BY <1>1, Invariance, PTL

\* An administrator beside whom nobody else has a transaction open is never refused by
\* an index and never the victim of a deadlock (AiPromptRepository.create).
THEOREM OnlyOverlapsConflict == Spec => []ConflictsOverlap
<1>1. IInv => ConflictsOverlap
  BY DEF IInv
<1> QED
  BY <1>1, Invariance, PTL

LEMMA OneActiveStep ==
    ASSUME IInv, IInv', [Next]_vars
    PROVE  Cardinality(active') <= 1 /\ (active # {} => active' # {})
<1>1. Cardinality(active') <= 1
  <2>1. CASE active' = {}
    BY <2>1, FS_EmptySet
  <2>2. ASSUME NEW v \in active'
        PROVE  Cardinality(active') <= 1
    <3>1. active' = {v}
      BY DEF IInv, OneActive
    <3>2. Cardinality({v}) = 1
      BY FS_Singleton
    <3> QED
      BY <3>1, <3>2
  <2> QED
    BY <2>1, <2>2
<1>2. active' = active \/ \E a \in Admins : Commit(a)
  BY DEF Next, vars, Request, Statement, Create, CreateCopy, Seed, Activate, Edit, Enter,
     Deactivate, DeactivateRow, Deactivated, Insert, LockRow, Light, Victim, Fault,
     Becomes, Rollback
<1>3. active # {} => active' # {}
  BY <1>2, CommitActive
<1> QED
  BY <1>1, <1>3

\* However creations, activations and edits overlap or break off, no commit leaves two
\* active versions, or none where there was one (AiPromptRepository.deactivate_active_for_name).
THEOREM OneVersionActive == Spec => OneStaysActive
<1>1. IInv /\ IInv' /\ [Next]_vars =>
          [Cardinality(active') <= 1 /\ (active # {} => active' # {})]_vars
  BY OneActiveStep
<1> QED
  BY <1>1, Invariance, PTL DEF Spec, OneStaysActive
=============================================================================
