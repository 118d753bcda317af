------------------------ MODULE LedgerRebuildProofs ------------------------
(***************************************************************************)
(* That a day's snapshot never gives way to an older one and that fresh    *)
(* snapshots stay, for any number of workers, any history of the inputs,   *)
(* and whatever order a DELETE comes to its rows in.                       *)
(*                                                                         *)
(* Of the rows that share a unique key one can be in the table: whoever    *)
(* inserts another has deleted it. That is why a rebuild that takes a      *)
(* day's snapshot away has read its inputs after the one that wrote it,    *)
(* although the workers' DELETEs and reads mix in any order.               *)
(***************************************************************************)
EXTENDS LedgerRebuild, TLAPS

USE DaysAssumption, InputAssumption, QueueAssumption, CrashAssumption

Writing(w) == tx[w].pc \in {"insert_daily", "insert_weekly"}
Written(w) == tx[w].inserts \cup tx[w].todo
Own(w) == ByDay("events", w, tx[w].read) \cup ByDay("daily", w, tx[w].read)

(* What w has at hand is what the statements it has done leave.            *)
Stage(w) ==
    /\ tx[w].pc \notin Tables => tx[w].sees = {}
    /\ ~Writing(w) => Written(w) = {}
    /\ At(w, "insert_daily") => Written(w) = Own(w)
    /\ At(w, "insert_weekly") =>
        Own(w) \subseteq tx[w].inserts /\ \A r \in Written(w) \ Own(w) : r.table = "weekly"

(* What w sees or has deleted is there until w commits.                    *)
Held(w) == tx[w].sees \subseteq rows /\ tx[w].deletes \subseteq rows

Clash(r, s) == r.table # "events" /\ SameKey(r, s)

Keys(w) ==
    /\ \A r \in tx[w].inserts, s \in rows : Clash(r, s) => s \in tx[w].deletes
    /\ \A r, s \in Written(w) : Clash(r, s) => r = s

(* What w deletes was made of inputs no newer than those it then reads.    *)
Aged(w) ==
    /\ At(w, "reading") =>
        /\ tx[w].read.orders <= input.orders
        /\ \A r \in Of("daily", tx[w].deletes) : r.of[r.key].orders <= tx[w].read.orders
    /\ Writing(w) =>
        /\ Older(tx[w].read, input)
        /\ \A r \in Of("daily", tx[w].deletes) : Older(r.of[r.key], tx[w].read)

Apart(v, w) ==
    /\ tx[v].deletes \cap tx[w].deletes = {}
    /\ \A r \in tx[v].inserts, s \in tx[w].inserts : ~Clash(r, s)

Shape(r) == r.key \in Days /\ r.of \in [{r.key} -> Inputs]

TableInv ==
    /\ \A r, s \in rows : Clash(r, s) => r = s
    /\ \A r \in Of("daily", rows) : Shape(r) /\ Older(r.of[r.key], input)

IInv ==
    /\ TypeOK /\ TableInv
    /\ \A w \in Workers : Stage(w) /\ Held(w) /\ Keys(w) /\ Aged(w)
    /\ \A v, w \in Workers : v # w => Apart(v, w)

-----------------------------------------------------------------------------
(* The rows of a rebuild.                                                  *)
LEMMA DaysOfType == ASSUME NEW i \in Inputs PROVE DaysOf(i) \subseteq Days
BY DEF DaysOf, Inputs

LEMMA ByDayType ==
  ASSUME NEW table \in Tables, NEW w \in Workers, NEW i \in Inputs
  PROVE  /\ ByDay(table, w, i) \subseteq Row
         /\ \A r \in ByDay(table, w, i) :
              r.table = table /\ Shape(r) /\ r.of[r.key] = i
         /\ \A r, s \in ByDay(table, w, i) : r.key = s.key => r = s
<1> SUFFICES ASSUME NEW r \in ByDay(table, w, i)
             PROVE  /\ r \in Row /\ r.table = table /\ Shape(r) /\ r.of[r.key] = i
                    /\ \A s \in ByDay(table, w, i) : r.key = s.key => r = s
  OBVIOUS
<1>1. PICK d \in DaysOf(i) :
        r = [table |-> table, by |-> w, key |-> d, of |-> [x \in {d} |-> i]]
  BY DEF ByDay
<1>2. d \in Days /\ d \in Nat
  BY DaysOfType
<1>3. [x \in {d} |-> i] \in [{d} -> Inputs]
  OBVIOUS
<1>4. [x \in {d} |-> i] \in Contents
  BY <1>2, <1>3 DEF Contents
<1>5. r \in Row
  BY <1>1, <1>2, <1>4 DEF Row
<1>6. r.table = table /\ Shape(r) /\ r.of[r.key] = i
  BY <1>1, <1>2, <1>3 DEF Shape
<1>7. ASSUME NEW s \in ByDay(table, w, i), r.key = s.key PROVE r = s
  <2>1. PICK e \in DaysOf(i) :
          s = [table |-> table, by |-> w, key |-> e, of |-> [x \in {e} |-> i]]
    BY DEF ByDay
  <2>2. d = e
    BY <1>1, <1>7, <2>1
  <2> QED
    BY <1>1, <2>1, <2>2
<1> QED
  BY <1>5, <1>6, <1>7

LEMMA ByWeekType ==
  ASSUME NEW w \in Workers, NEW R \in SUBSET Row, \A r \in Of("daily", R) : Shape(r)
  PROVE  /\ ByWeek(w, R) \subseteq Row
         /\ \A r \in ByWeek(w, R) : r.table = "weekly"
         /\ \A r, s \in ByWeek(w, R) : r.key = s.key => r = s
<1> DEFINE In(k) == {r \in Of("daily", R) : Week[r.key] = k}
           DaysIn(k) == {r.key : r \in In(k)}
           Its(k) == [d \in DaysIn(k) |-> (CHOOSE r \in In(k) : r.key = d).of[d]]
           Of1(k) == [table |-> "weekly", by |-> w, key |-> k, of |-> Its(k)]
<1>1. ByWeek(w, R) = {Of1(k) : k \in {Week[r.key] : r \in Of("daily", R)}}
  BY DEF ByWeek
<1>2. ASSUME NEW k \in {Week[r.key] : r \in Of("daily", R)}
      PROVE  Of1(k) \in Row
  <2>1. k \in Nat
    BY DEF Shape
  <2>2. DaysIn(k) \subseteq Days
    BY DEF Shape
  <2>3. ASSUME NEW d \in DaysIn(k)
        PROVE  (CHOOSE r \in In(k) : r.key = d).of[d] \in Inputs
    <3> DEFINE c == CHOOSE r \in In(k) : r.key = d
    <3>1. c \in In(k) /\ c.key = d
      OBVIOUS
    <3> HIDE DEF c
    <3>2. c.of \in [{d} -> Inputs]
      BY <3>1 DEF Shape
    <3> QED
      BY <3>2 DEF c
  <2> HIDE DEF DaysIn, In
  <2>4. Its(k) \in [DaysIn(k) -> Inputs]
    BY <2>3
  <2> HIDE DEF Its
  <2>5. Its(k) \in Contents
    BY <2>2, <2>4 DEF Contents
  <2> QED
    BY <2>1, <2>5 DEF Row, Tables
<1> HIDE DEF Its
<1> QED
  BY <1>1, <1>2

LEMMA OlderTransitive ==
  ASSUME NEW i \in Inputs, NEW j \in Inputs, NEW k \in Inputs, Older(i, j), Older(j, k)
  PROVE  Older(i, k)
BY DEF Older, Inputs

LEMMA OlderReflexive == ASSUME NEW i \in Inputs PROVE Older(i, i)
BY DEF Older, Inputs

-----------------------------------------------------------------------------
(* The invariant.                                                          *)
LEMMA InitInv == Init => IInv
BY DEF Init, IInv, TypeOK, Transactions, NoTx, TableInv, Stage, Held, Keys, Aged, Apart, Writing,
       Written, At, Of, Inputs, NoInput, Tables

(* Inputs that only grow leave everything true.                            *)
LEMMA InputGrows ==
  ASSUME IInv, TypeOK', UNCHANGED <<rows, tx>>, Older(input, input')
  PROVE  IInv'
<1>1. input \in Inputs /\ input' \in Inputs
  BY DEF IInv, TypeOK
<1>2. TableInv'
  <2> SUFFICES ASSUME NEW r \in Of("daily", rows) PROVE Shape(r) /\ Older(r.of[r.key], input')
    BY DEF IInv, TableInv, Of
  <2>1. Shape(r) /\ Older(r.of[r.key], input)
    BY DEF IInv, TableInv
  <2>2. r.of[r.key] \in Inputs
    BY <2>1 DEF Shape
  <2> QED
    BY <1>1, <2>1, <2>2, OlderTransitive
<1>3. \A w \in Workers : Stage(w)' /\ Held(w)' /\ Keys(w)'
  BY DEF IInv, Stage, Held, Keys, Writing, Written, Own, At
<1>4. ASSUME NEW w \in Workers PROVE Aged(w)'
  <2>1. tx[w].read \in Inputs
    BY DEF IInv, TypeOK, Transactions
  <2>2. Writing(w) => Older(tx[w].read, input')
    BY <1>1, <2>1, OlderTransitive DEF IInv, Aged
  <2>3. At(w, "reading") => tx[w].read.orders <= input'.orders
    BY <1>1, <2>1 DEF IInv, Aged, Older, Inputs
  <2> QED
    BY <2>2, <2>3 DEF IInv, Aged, Writing, At
<1>5. \A v, w \in Workers : v # w => Apart(v, w)'
  BY DEF IInv, Apart
<1> QED
  BY <1>2, <1>3, <1>4, <1>5 DEF IInv

(* The tables as they are, and one transaction one step further.           *)
LEMMA Onwards ==
  ASSUME IInv, NEW w \in Workers, UNCHANGED <<input, rows>>, TypeOK',
         \A v \in Others(w) : tx'[v] = tx[v],
         Stage(w)', Held(w)', Keys(w)', Aged(w)',
         \A v \in Others(w) : Apart(v, w)'
  PROVE  IInv'
<1>1. TableInv'
  BY DEF IInv, TableInv
<1>2. ASSUME NEW v \in Others(w) PROVE Stage(v)' /\ Held(v)' /\ Keys(v)' /\ Aged(v)'
  <2> v \in Workers /\ tx'[v] = tx[v]
    BY DEF Others
  <2> QED
    BY DEF IInv, Stage, Held, Keys, Aged, Writing, Written, Own, At
<1>3. ASSUME NEW u \in Workers, NEW v \in Workers, u # v PROVE Apart(u, v)'
  <2>1. CASE u = w
    BY <1>3, <2>1 DEF Apart, Clash, SameKey, Others
  <2>2. CASE v = w
    BY <1>3, <2>2 DEF Others
  <2>3. CASE u # w /\ v # w
    BY <1>3, <2>3 DEF IInv, Apart, Others
  <2> QED
    BY <2>1, <2>2, <2>3
<1> QED
  BY <1>1, <1>2, <1>3 DEF IInv, Others

(* A transaction that ends without a commit leaves no claim behind.        *)
LEMMA Ended ==
  ASSUME IInv, NEW w \in Workers, TypeOK', UNCHANGED <<input, rows>>,
         tx' = [tx EXCEPT ![w] = NoTx]
  PROVE  IInv'
<1>1. tx'[w] = NoTx /\ \A v \in Others(w) : tx'[v] = tx[v]
  BY DEF IInv, TypeOK, Others
<1>2. Stage(w)' /\ Held(w)' /\ Keys(w)' /\ Aged(w)'
  BY <1>1 DEF NoTx, Stage, Held, Keys, Aged, Writing, Written, At
<1>3. \A v \in Others(w) : Apart(v, w)'
  BY <1>1 DEF NoTx, Apart
<1> QED
  BY <1>1, <1>2, <1>3, Onwards

(* A DELETE starts, or has taken a row.                                    *)
LEMMA Deleting ==
  ASSUME IInv, NEW w \in Workers, TypeOK', UNCHANGED <<input, rows>>,
         \A v \in Others(w) : tx'[v] = tx[v],
         tx'[w].pc \in Tables, tx[w].pc \in Tables \cup {"idle"},
         tx'[w].sees \subseteq rows, tx'[w].deletes \subseteq rows,
         tx[w].deletes \subseteq tx'[w].deletes,
         Written(w)' = Written(w), tx'[w].inserts = tx[w].inserts,
         \A v \in Others(w) : tx[v].deletes \cap tx'[w].deletes = {}
  PROVE  IInv'
<1>1. Stage(w)' /\ Held(w)' /\ Aged(w)'
  BY DEF IInv, Stage, Held, Aged, Writing, At, Tables
<1>2. Keys(w)'
  BY DEF IInv, Keys
<1>3. \A v \in Others(w) : Apart(v, w)'
  BY DEF IInv, Apart, Others
<1> QED
  BY <1>1, <1>2, <1>3, Onwards

(* What an action makes of its worker's transaction.                       *)
LEMMA BeginKeeps == ASSUME IInv, NEW w \in Workers, Begin(w) PROVE IInv'
<1>1. /\ tx'[w] = [tx[w] EXCEPT !.pc = "events", !.sees = Of("events", rows)]
      /\ \A v \in Others(w) : tx'[v] = tx[v]
      /\ UNCHANGED <<input, rows>>
  BY DEF IInv, TypeOK, Transactions, Begin, Others
<1>2. tx[w] \in Transactions /\ rows \subseteq Row
  BY DEF IInv, TypeOK
<1>3. TypeOK'
  <2>1. queue' \in 0..MaxQueue
    BY DEF IInv, TypeOK, Begin
  <2>2. tx'[w] \in Transactions
    BY <1>1, <1>2 DEF Transactions, Tables, Of
  <2> QED
    BY <1>1, <2>1, <2>2 DEF IInv, TypeOK, Begin, Others
<1>4. tx[w].deletes \subseteq rows /\ \A v \in Others(w) : tx[v].deletes \cap tx[w].deletes = {}
  BY DEF IInv, Held, Apart, Others
<1>5. /\ tx'[w].pc = "events" /\ tx'[w].sees = Of("events", rows)
      /\ tx'[w].deletes = tx[w].deletes
      /\ tx'[w].inserts = tx[w].inserts /\ tx'[w].todo = tx[w].todo
  BY <1>1, <1>2 DEF Transactions
<1>6. tx[w].pc = "idle" /\ "events" \in Tables /\ Of("events", rows) \subseteq rows
  BY DEF Begin, At, Tables, Of
<1> QED
  BY <1>1, <1>3, <1>4, <1>5, <1>6, Deleting DEF Written

LEMMA DeleteRowKeeps ==
  ASSUME IInv, NEW w \in Workers, NEW r \in tx[w].sees, DeleteRow(w, r)
  PROVE  IInv'
<1>1. /\ tx'[w] = [tx[w] EXCEPT !.sees = @ \ {r}, !.waits = {}, !.deletes = @ \cup {r}]
      /\ \A v \in Others(w) : tx'[v] = tx[v]
      /\ UNCHANGED <<input, rows, queue, crashes>>
  BY DEF IInv, TypeOK, Transactions, DeleteRow, Others
<1>2. /\ tx[w] \in Transactions /\ rows \subseteq Row
      /\ tx[w].sees \subseteq rows /\ tx[w].deletes \subseteq rows
  BY DEF IInv, TypeOK, Held
<1>3. TypeOK'
  <2>1. /\ tx[w].sees \ {r} \in SUBSET Row /\ {r} \in SUBSET Row /\ {} \in SUBSET Row
        /\ tx[w].deletes \cup {r} \in SUBSET Row
    BY <1>2
  <2>2. tx'[w] \in Transactions
    BY <1>1, <1>2, <2>1 DEF Transactions
  <2> QED
    BY <1>1, <2>2 DEF IInv, TypeOK, DeleteRow, Others
<1>4. tx[w].pc \in Tables
  BY DEF IInv, Stage
<1>5. \A v \in Others(w) : tx[v].deletes \cap (tx[w].deletes \cup {r}) = {}
  BY DEF IInv, Apart, Others, DeleteRow, Free
<1>6. /\ tx'[w].pc = tx[w].pc /\ tx'[w].sees = tx[w].sees \ {r}
      /\ tx'[w].deletes = tx[w].deletes \cup {r}
      /\ tx'[w].inserts = tx[w].inserts /\ tx'[w].todo = tx[w].todo
  BY <1>1, <1>2 DEF Transactions
<1> QED
  BY <1>1, <1>2, <1>3, <1>4, <1>5, <1>6, Deleting DEF Written

LEMMA WaitForRowKeeps ==
  ASSUME IInv, NEW w \in Workers, NEW r \in tx[w].sees, WaitForRow(w, r)
  PROVE  IInv'
<1>1. /\ tx'[w] = [tx[w] EXCEPT !.waits = {r}]
      /\ \A v \in Others(w) : tx'[v] = tx[v]
      /\ UNCHANGED <<input, rows, queue, crashes>>
  BY DEF IInv, TypeOK, Transactions, WaitForRow, Others
<1>2. /\ tx[w] \in Transactions /\ rows \subseteq Row
      /\ tx[w].sees \subseteq rows /\ tx[w].deletes \subseteq rows
  BY DEF IInv, TypeOK, Held
<1>3. TypeOK'
  <2>1. /\ tx[w].sees \ {r} \in SUBSET Row /\ {r} \in SUBSET Row /\ {} \in SUBSET Row
        /\ tx[w].deletes \cup {r} \in SUBSET Row
    BY <1>2
  <2>2. tx'[w] \in Transactions
    BY <1>1, <1>2, <2>1 DEF Transactions
  <2> QED
    BY <1>1, <2>2 DEF IInv, TypeOK, WaitForRow, Others
<1>4. tx[w].pc \in Tables
  BY DEF IInv, Stage
<1>5. \A v \in Others(w) : tx[v].deletes \cap tx[w].deletes = {}
  BY DEF IInv, Apart, Others
<1>6. /\ tx'[w].pc = tx[w].pc /\ tx'[w].sees = tx[w].sees
      /\ tx'[w].deletes = tx[w].deletes
      /\ tx'[w].inserts = tx[w].inserts /\ tx'[w].todo = tx[w].todo
  BY <1>1, <1>2 DEF Transactions
<1> QED
  BY <1>1, <1>2, <1>3, <1>4, <1>5, <1>6, Deleting DEF Written

LEMMA NextDeleteKeeps == ASSUME IInv, NEW w \in Workers, NextDelete(w) PROVE IInv'
<1>1. PICK next \in {<<"events", "daily">>, <<"daily", "weekly">>} :
        /\ At(w, next[1])
        /\ tx' = [tx EXCEPT ![w].pc = next[2], ![w].sees = Of(next[2], rows)]
  BY DEF NextDelete
<1>2. /\ tx'[w] = [tx[w] EXCEPT !.pc = next[2], !.sees = Of(next[2], rows)]
      /\ \A v \in Others(w) : tx'[v] = tx[v]
      /\ UNCHANGED <<input, rows, queue, crashes>>
  BY <1>1 DEF IInv, TypeOK, Transactions, NextDelete, Others
<1>3. tx[w] \in Transactions /\ rows \subseteq Row /\ tx[w].deletes \subseteq rows
  BY DEF IInv, TypeOK, Held
<1>4. tx[w].pc \in Tables /\ next[2] \in Tables
  BY <1>1 DEF At, Tables
<1>5. /\ tx'[w].pc = next[2] /\ tx'[w].sees = Of(next[2], rows)
      /\ tx'[w].deletes = tx[w].deletes
      /\ tx'[w].inserts = tx[w].inserts /\ tx'[w].todo = tx[w].todo
  BY <1>2, <1>3 DEF Transactions
<1>6. Of(next[2], rows) \subseteq rows
  BY DEF Of
<1>7. TypeOK'
  <2>1. tx'[w] \in Transactions
    BY <1>2, <1>3, <1>4, <1>6 DEF Transactions
  <2> QED
    BY <1>2, <2>1 DEF IInv, TypeOK, NextDelete, Others
<1>8. \A v \in Others(w) : tx[v].deletes \cap tx[w].deletes = {}
  BY DEF IInv, Apart, Others
<1> QED
  BY <1>2, <1>3, <1>4, <1>5, <1>6, <1>7, <1>8, Deleting DEF Written

LEMMA ReadOrdersKeeps == ASSUME IInv, NEW w \in Workers, ReadOrders(w) PROVE IInv'
<1> DEFINE i == [tx[w].read EXCEPT !.orders = input.orders]
<1>1. /\ tx'[w] = [tx[w] EXCEPT !.pc = "reading", !.read = i]
      /\ \A v \in Others(w) : tx'[v] = tx[v]
      /\ UNCHANGED <<input, rows, queue, crashes>>
  BY DEF IInv, TypeOK, Transactions, ReadOrders, Others
<1>2. /\ tx[w] \in Transactions /\ input \in Inputs
      /\ i \in Inputs /\ i.orders = input.orders
  BY DEF IInv, TypeOK, Transactions, Inputs
<1> HIDE DEF i
<1>3. tx[w].sees = {}
  BY DEF ReadOrders
<1>4. /\ tx'[w].pc = "reading" /\ tx'[w].sees = {} /\ tx'[w].deletes = tx[w].deletes
      /\ tx'[w].inserts = tx[w].inserts /\ tx'[w].todo = tx[w].todo
      /\ tx'[w].read.orders = input.orders
  BY <1>1, <1>2, <1>3 DEF Transactions
<1>5. TypeOK'
  <2>1. tx'[w] \in Transactions
    BY <1>1, <1>2 DEF Transactions
  <2> QED
    BY <1>1, <2>1 DEF IInv, TypeOK, ReadOrders, Others
<1>6. Stage(w)' /\ Held(w)' /\ Keys(w)'
  BY <1>1, <1>4 DEF IInv, Stage, Held, Keys, Writing, Written, At, ReadOrders, Tables
<1>7. Aged(w)'
  <2>1. \A r \in Of("daily", rows) : r.of[r.key].orders <= input.orders
    BY DEF IInv, TableInv, Older
  <2>2. Of("daily", tx[w].deletes) \subseteq Of("daily", rows)
    BY DEF IInv, Held, Of
  <2>3. input.orders <= input.orders
    BY <1>2 DEF Inputs
  <2> QED
    BY <1>1, <1>4, <2>1, <2>2, <2>3 DEF Aged, At, Writing
<1>8. \A v \in Others(w) : Apart(v, w)'
  BY <1>1, <1>4 DEF IInv, Apart, Others
<1> QED
  BY <1>1, <1>5, <1>6, <1>7, <1>8, Onwards

LEMMA ReadAdjustmentsKeeps == ASSUME IInv, NEW w \in Workers, ReadAdjustments(w) PROVE IInv'
<1> DEFINE i == [tx[w].read EXCEPT !.adjustments = input.adjustments]
<1>1. /\ tx'[w] = [tx[w] EXCEPT !.pc = "insert_daily", !.read = i,
                              !.inserts = ByDay("events", w, i), !.todo = ByDay("daily", w, i)]
      /\ \A v \in Others(w) : tx'[v] = tx[v]
      /\ UNCHANGED <<input, rows, queue, crashes>>
  BY DEF IInv, TypeOK, Transactions, ReadAdjustments, Others
<1>2. tx[w] \in Transactions /\ input \in Inputs /\ tx[w].read \in Inputs
  BY DEF IInv, TypeOK, Transactions
<1>3. i \in Inputs /\ i.orders = tx[w].read.orders /\ i.adjustments = input.adjustments
  BY <1>2 DEF Inputs
<1> HIDE DEF i
<1>4. /\ tx'[w].pc = "insert_daily" /\ tx'[w].sees = tx[w].sees
      /\ tx'[w].deletes = tx[w].deletes /\ tx'[w].read = i
      /\ tx'[w].inserts = ByDay("events", w, i) /\ tx'[w].todo = ByDay("daily", w, i)
  BY <1>1, <1>2 DEF Transactions
<1>5. /\ ByDay("events", w, i) \subseteq Row /\ ByDay("daily", w, i) \subseteq Row
      /\ \A r \in ByDay("events", w, i) : r.table = "events"
      /\ \A r \in ByDay("daily", w, i) : r.table = "daily"
      /\ \A r, s \in ByDay("daily", w, i) : r.key = s.key => r = s
  BY <1>3, ByDayType DEF Tables
<1>6. TypeOK'
  <2>1. tx'[w] \in Transactions
    BY <1>1, <1>2, <1>3, <1>5 DEF Transactions
  <2> QED
    BY <1>1, <2>1 DEF IInv, TypeOK, ReadAdjustments, Others
<1>7. tx[w].sees = {} /\ At(w, "reading")
  BY DEF IInv, Stage, ReadAdjustments, At, Tables
<1>8. Stage(w)' /\ Held(w)'
  BY <1>1, <1>4, <1>7 DEF IInv, Stage, Held, Writing, Written, Own, At
<1>9. Keys(w)'
  BY <1>1, <1>4, <1>5 DEF Keys, Written, Clash, SameKey
<1>10. Aged(w)'
  <2>1. Older(i, input)
    BY <1>2, <1>3, <1>7 DEF IInv, Aged, Older, Inputs
  <2>2. ASSUME NEW r \in Of("daily", tx[w].deletes) PROVE Older(r.of[r.key], i)
    <3>1. r.of[r.key].orders <= i.orders
      BY <1>3, <1>7 DEF IInv, Aged
    <3>2. r \in Of("daily", rows)
      BY DEF IInv, Held, Of
    <3>3. r.of[r.key].adjustments <= i.adjustments
      BY <1>3, <3>2 DEF IInv, TableInv, Older
    <3> QED
      BY <3>1, <3>3 DEF Older
  <2> QED
    BY <1>1, <1>4, <2>1, <2>2 DEF Aged, At, Writing
<1>11. \A v \in Others(w) : Apart(v, w)'
  BY <1>1, <1>4, <1>5 DEF IInv, Apart, Others, Clash, SameKey
<1> QED
  BY <1>1, <1>6, <1>8, <1>9, <1>10, <1>11, Onwards

LEMMA InsertRowKeeps ==
  ASSUME IInv, NEW w \in Workers, NEW r \in tx[w].todo, InsertRow(w, r)
  PROVE  IInv'
<1>1. /\ tx'[w] = [tx[w] EXCEPT !.todo = @ \ {r}, !.inserts = @ \cup {r}]
      /\ \A v \in Others(w) : tx'[v] = tx[v]
      /\ UNCHANGED <<input, rows, queue, crashes>>
  BY DEF IInv, TypeOK, Transactions, InsertRow, Others
<1>2. tx[w] \in Transactions /\ r \in Row
  BY DEF IInv, TypeOK, Transactions
<1>3. /\ tx[w].todo \ {r} \in SUBSET Row /\ tx[w].inserts \cup {r} \in SUBSET Row
  BY <1>2 DEF Transactions
<1>4. TypeOK'
  <2>1. tx'[w] \in Transactions
    BY <1>1, <1>2, <1>3 DEF Transactions
  <2> QED
    BY <1>1, <2>1 DEF IInv, TypeOK, InsertRow, Others
<1>5. /\ tx'[w].pc = tx[w].pc /\ tx'[w].sees = tx[w].sees
      /\ tx'[w].deletes = tx[w].deletes /\ tx'[w].read = tx[w].read
      /\ tx'[w].todo = tx[w].todo \ {r} /\ tx'[w].inserts = tx[w].inserts \cup {r}
  BY <1>1, <1>2 DEF Transactions
<1>6. Written(w)' = Written(w) /\ Own(w)' = Own(w)
  BY <1>5 DEF Written, Own
<1>7. Stage(w)' /\ Held(w)'
  BY <1>1, <1>5, <1>6 DEF IInv, Stage, Held, Writing, At
<1>8. Keys(w)'
  <2>1. \A s \in rows : Clash(r, s) => s \in tx[w].deletes
    BY DEF InsertRow, KeyTaken, Clash
  <2> QED
    BY <1>1, <1>5, <1>6, <2>1 DEF IInv, Keys
<1>9. Aged(w)'
  BY <1>1, <1>5 DEF IInv, Aged, At, Writing
<1>10. \A v \in Others(w) : Apart(v, w)'
  <2>1. \A v \in Others(w) : \A s \in tx[v].inserts : ~Clash(s, r) /\ ~Clash(r, s)
    BY DEF InsertRow, KeyFree, Clash, SameKey
  <2> QED
    BY <1>1, <1>5, <2>1 DEF IInv, Apart, Others
<1> QED
  BY <1>1, <1>4, <1>7, <1>8, <1>9, <1>10, Onwards

(* A transaction that is rolled back, for whatever reason.                 *)
LEMMA RollbackKeeps ==
  ASSUME IInv, NEW w \in Workers, UNCHANGED <<input, queue, rows>>, crashes' \in 0..MaxCrashes,
         tx' = [tx EXCEPT ![w] = NoTx]
  PROVE  IInv'
<1>1. NoTx \in Transactions
  BY DEF NoTx, Transactions, NoInput, Inputs
<1>2. TypeOK'
  BY <1>1 DEF IInv, TypeOK
<1> QED
  BY <1>2, Ended

(* What w's statements see of the daily snapshots.                         *)
LEMMA VisibleDaily ==
  ASSUME IInv, NEW w \in Workers
  PROVE  /\ Visible(w) \subseteq Row
         /\ \A r \in Of("daily", Visible(w)) : Shape(r)
         /\ \A r \in Of("daily", tx[w].inserts) : r.of[r.key] = tx[w].read
<1>1. tx[w] \in Transactions /\ rows \subseteq Row
  BY DEF IInv, TypeOK
<1>2. tx[w].inserts \subseteq Row /\ tx[w].read \in Inputs
  BY <1>1 DEF Transactions
<1>3. ASSUME NEW r \in Of("daily", tx[w].inserts)
      PROVE  r \in ByDay("daily", w, tx[w].read)
  <2>1. r \in Written(w) /\ r.table = "daily"
    BY DEF Of, Written
  <2>2. r \in Own(w)
    BY <2>1 DEF IInv, Stage, Writing, At
  <2>3. \A s \in ByDay("events", w, tx[w].read) : s.table = "events"
    BY <1>2, ByDayType DEF Tables
  <2> QED
    BY <2>1, <2>2, <2>3 DEF Own
<1>4. \A r \in Of("daily", tx[w].inserts) : Shape(r) /\ r.of[r.key] = tx[w].read
  BY <1>2, <1>3, ByDayType DEF Tables
<1>5. \A r \in Of("daily", rows) : Shape(r)
  BY DEF IInv, TableInv
<1> QED
  BY <1>1, <1>2, <1>4, <1>5 DEF Visible, Of

LEMMA BuildWeeklyKeeps == ASSUME IInv, NEW w \in Workers, BuildWeekly(w) PROVE IInv'
<1> DEFINE W == ByWeek(w, Visible(w))
<1>1. /\ tx'[w] = [tx[w] EXCEPT !.pc = "insert_weekly", !.todo = W]
      /\ \A v \in Others(w) : tx'[v] = tx[v]
      /\ UNCHANGED <<input, rows, queue, crashes>>
  BY DEF IInv, TypeOK, Transactions, BuildWeekly, Others
<1>2. /\ W \in SUBSET Row
      /\ \A r \in W : r.table = "weekly"
      /\ \A r, s \in W : r.key = s.key => r = s
  BY VisibleDaily, ByWeekType
<1> HIDE DEF W
<1>3. tx[w] \in Transactions /\ tx[w].read \in Inputs
  BY DEF IInv, TypeOK, Transactions
<1>4. TypeOK'
  <2>1. tx'[w] \in Transactions
    BY <1>1, <1>2, <1>3 DEF Transactions
  <2> QED
    BY <1>1, <2>1 DEF IInv, TypeOK, BuildWeekly, Others
<1>5. /\ tx'[w].pc = "insert_weekly" /\ tx'[w].sees = tx[w].sees
      /\ tx'[w].deletes = tx[w].deletes /\ tx'[w].read = tx[w].read
      /\ tx'[w].todo = W /\ tx'[w].inserts = tx[w].inserts
  BY <1>1, <1>3 DEF Transactions
<1>6. At(w, "insert_daily") /\ tx[w].inserts = Own(w) /\ tx[w].sees = {}
  BY DEF IInv, Stage, BuildWeekly, Written, At, Tables
<1>7. Stage(w)' /\ Held(w)'
  BY <1>1, <1>2, <1>5, <1>6 DEF IInv, Stage, Held, Writing, Written, Own, At
<1>8. Keys(w)'
  <2>1. \A r \in tx[w].inserts : r.table # "weekly"
    BY <1>3, <1>6, ByDayType DEF Own, Tables
  <2>2. \A r, s \in tx[w].inserts : Clash(r, s) => r = s
    BY DEF IInv, Keys, Written
  <2>3. \A r, s \in tx[w].inserts \cup W : Clash(r, s) => r = s
    BY <1>2, <2>1, <2>2 DEF Clash, SameKey
  <2> QED
    BY <1>1, <1>5, <2>3 DEF IInv, Keys, Written
<1>9. Aged(w)'
  BY <1>1, <1>5, <1>6 DEF IInv, Aged, At, Writing
<1>10. \A v \in Others(w) : Apart(v, w)'
  BY <1>1, <1>5 DEF IInv, Apart, Others
<1> QED
  BY <1>1, <1>4, <1>7, <1>8, <1>9, <1>10, Onwards

(* The rows that w deleted go, those that it inserted come, and others see *)
(* no longer what has gone.                                                *)
LEMMA CommitTables ==
  ASSUME IInv, NEW w \in Workers, Commit(w)
  PROVE  /\ rows' = Visible(w)
         /\ \A r, s \in rows' : Clash(r, s) => r = s
         /\ \A r \in Of("daily", rows') : Shape(r) /\ Older(r.of[r.key], input)
<1>1. rows' = (rows \ tx[w].deletes) \cup tx[w].inserts
  BY DEF Commit, Visible
<1>2. ASSUME NEW r \in rows', NEW s \in rows', Clash(r, s) PROVE r = s
  <2>1. r.table # "events" /\ Clash(s, r)
    BY <1>2 DEF Clash, SameKey
  <2>2. CASE r \in tx[w].inserts
    BY <1>1, <1>2, <2>2 DEF IInv, Keys, Written
  <2>3. CASE s \in tx[w].inserts
    BY <1>1, <1>2, <2>1, <2>3 DEF IInv, Keys, Written
  <2>4. CASE r \in rows /\ s \in rows
    BY <1>2, <2>4 DEF IInv, TableInv
  <2> QED
    BY <1>1, <2>2, <2>3, <2>4
<1>3. Older(tx[w].read, input)
  BY DEF IInv, Aged, Commit, At, Writing
<1>4. \A r \in Of("daily", tx[w].inserts) : Older(r.of[r.key], input)
  BY <1>3, VisibleDaily
<1>5. \A r \in Of("daily", rows) : Older(r.of[r.key], input)
  BY DEF IInv, TableInv
<1>6. \A r \in Of("daily", rows') : Shape(r)
  BY VisibleDaily DEF Commit
<1>7. \A r \in Of("daily", rows') : Older(r.of[r.key], input)
  BY <1>1, <1>4, <1>5 DEF Of
<1> QED
  BY <1>2, <1>6, <1>7 DEF Commit

LEMMA CommitKeeps == ASSUME IInv, NEW w \in Workers, Commit(w) PROVE IInv'
<1>1. /\ tx'[w] = NoTx
      /\ \A v \in Others(w) : tx'[v] = [tx[v] EXCEPT !.sees = @ \ tx[w].deletes,
                                                    !.waits = @ \ tx[w].deletes]
      /\ UNCHANGED <<input, queue, crashes>>
      /\ rows' = (rows \ tx[w].deletes) \cup tx[w].inserts
  BY DEF IInv, TypeOK, Commit, Others, Visible
<1>2. \A v \in Workers : tx[v] \in Transactions
  BY DEF IInv, TypeOK
<1>3. /\ tx'[w].pc = "idle" /\ tx'[w].sees = {} /\ tx'[w].deletes = {}
      /\ tx'[w].inserts = {} /\ tx'[w].todo = {}
  <2>1. tx'[w] = NoTx
    BY <1>1
  <2> QED
    BY <2>1 DEF NoTx
<1>4. ASSUME NEW v \in Others(w)
      PROVE  /\ v \in Workers /\ v # w
             /\ tx'[v].sees = tx[v].sees \ tx[w].deletes
             /\ tx'[v].pc = tx[v].pc /\ tx'[v].deletes = tx[v].deletes
             /\ tx'[v].read = tx[v].read
             /\ tx'[v].inserts = tx[v].inserts /\ tx'[v].todo = tx[v].todo
             /\ tx'[v] \in Transactions
  <2>1. v \in Workers /\ v # w /\ tx[v] \in Transactions
    BY <1>2 DEF Others
  <2>2. tx'[v] = [tx[v] EXCEPT !.sees = @ \ tx[w].deletes, !.waits = @ \ tx[w].deletes]
    BY <1>1
  <2>3. /\ tx[v].sees \ tx[w].deletes \in SUBSET Row
        /\ tx[v].waits \ tx[w].deletes \in SUBSET Row
    BY <2>1 DEF Transactions
  <2> QED
    BY <2>1, <2>2, <2>3 DEF Transactions
<1>5. TypeOK'
  <2>1. NoTx \in Transactions
    BY DEF NoTx, Transactions, NoInput, Inputs
  <2>2. \A v \in Workers : tx'[v] \in Transactions
    BY <1>1, <1>4, <2>1 DEF Others
  <2>3. tx' \in [Workers -> Transactions]
    BY <2>2 DEF Commit
  <2>4. rows' \subseteq Row
    BY CommitTables, VisibleDaily
  <2> QED
    BY <1>1, <2>3, <2>4 DEF IInv, TypeOK
<1>6. TableInv'
  BY <1>1, CommitTables DEF TableInv
<1>7. Stage(w)' /\ Held(w)' /\ Keys(w)' /\ Aged(w)'
  BY <1>3 DEF Stage, Held, Keys, Aged, Writing, Written, At
<1>8. ASSUME NEW v \in Others(w) PROVE Stage(v)' /\ Held(v)' /\ Keys(v)' /\ Aged(v)'
  <2> /\ Stage(v) /\ Held(v) /\ Keys(v) /\ Aged(v) /\ Apart(v, w)
    BY <1>4 DEF IInv
  <2>1. Stage(v)'
    BY <1>4 DEF Stage, Writing, Written, Own, At
  <2>2. Held(v)'
    BY <1>1, <1>4 DEF Held, Apart
  <2>3. Keys(v)'
    BY <1>1, <1>4 DEF Keys, Apart, Written
  <2>4. Aged(v)'
    BY <1>1, <1>4 DEF Aged, At, Writing
  <2> QED
    BY <2>1, <2>2, <2>3, <2>4
<1>9. ASSUME NEW u \in Workers, NEW v \in Workers, u # v PROVE Apart(u, v)'
  <2>2. CASE u = w \/ v = w
    BY <1>3, <2>2 DEF Apart
  <2>3. CASE u # w /\ v # w
    <3>1. /\ tx'[u].deletes = tx[u].deletes /\ tx'[u].inserts = tx[u].inserts
          /\ tx'[v].deletes = tx[v].deletes /\ tx'[v].inserts = tx[v].inserts
      BY <1>4, <2>3 DEF Others
    <3> QED
      BY <1>9, <3>1 DEF IInv, Apart
  <2> QED
    BY <2>2, <2>3
<1> QED
  BY <1>5, <1>6, <1>7, <1>8, <1>9 DEF IInv, Others

(* Changes of the inputs, and new tasks.                                   *)
LEMMA UsersKeep ==
  ASSUME IInv, ChangeOrders \/ ChangeAdjustments \/ HourlySync
  PROVE  IInv'
<1>1. input \in Inputs /\ queue \in 0..MaxQueue
  BY DEF IInv, TypeOK
<1>2. queue' \in 0..MaxQueue /\ UNCHANGED <<rows, tx, crashes>>
  BY <1>1 DEF ChangeOrders, ChangeAdjustments, HourlySync, Enqueue
<1>3. input' \in Inputs /\ Older(input, input')
  <2>1. CASE ChangeOrders
    BY <1>1, <2>1 DEF ChangeOrders, Inputs, Older
  <2>2. CASE ChangeAdjustments
    BY <1>1, <2>2 DEF ChangeAdjustments, Inputs, Older
  <2>3. CASE HourlySync
    BY <1>1, <2>3, OlderReflexive DEF HourlySync
  <2> QED
    BY <2>1, <2>2, <2>3
<1>4. TypeOK'
  BY <1>2, <1>3 DEF IInv, TypeOK
<1> QED
  BY <1>2, <1>3, <1>4, InputGrows

LEMMA StepKeeps == IInv /\ [Next]_vars => IInv'
<1> SUFFICES ASSUME IInv, [Next]_vars PROVE IInv'
  OBVIOUS
<1>1. CASE ChangeOrders \/ ChangeAdjustments \/ HourlySync
  BY <1>1, UsersKeep
<1>2. ASSUME NEW w \in Workers, Step(w) PROVE IInv'
  <2>1. CASE Begin(w)
    BY <2>1, BeginKeeps
  <2>2. ASSUME NEW r \in tx[w].sees, DeleteRow(w, r) \/ WaitForRow(w, r) PROVE IInv'
    BY <2>2, DeleteRowKeeps, WaitForRowKeeps
  <2>3. CASE NextDelete(w)
    BY <2>3, NextDeleteKeeps
  <2>4. CASE ReadOrders(w)
    BY <2>4, ReadOrdersKeeps
  <2>5. CASE ReadAdjustments(w)
    BY <2>5, ReadAdjustmentsKeeps
  <2>6. ASSUME NEW r \in tx[w].todo, InsertRow(w, r) PROVE IInv'
    BY <2>6, InsertRowKeeps
  <2>7. ASSUME NEW r \in tx[w].todo, DuplicateKey(w, r) PROVE IInv'
    BY <2>7, RollbackKeeps DEF DuplicateKey, IInv, TypeOK
  <2>8. CASE BuildWeekly(w)
    BY <2>8, BuildWeeklyKeeps
  <2>9. CASE Commit(w)
    BY <2>9, CommitKeeps
  <2> QED
    BY <1>2, <2>1, <2>2, <2>3, <2>4, <2>5, <2>6, <2>7, <2>8, <2>9 DEF Step
<1>3. ASSUME NEW w \in Workers, DeadlockVictim(w) PROVE IInv'
  BY <1>3, RollbackKeeps DEF DeadlockVictim, IInv, TypeOK
<1>4. ASSUME NEW w \in Workers, Crash(w) PROVE IInv'
  <2>1. crashes' \in 0..MaxCrashes
    BY <1>4 DEF Crash, IInv, TypeOK
  <2> QED
    BY <1>4, <2>1, RollbackKeeps DEF Crash
<1>5. CASE UNCHANGED vars
  <2>1. TypeOK' /\ UNCHANGED <<rows, tx, input>>
    BY <1>5 DEF IInv, TypeOK, vars
  <2>2. Older(input, input')
    BY <2>1, OlderReflexive DEF IInv, TypeOK
  <2> QED
    BY <2>1, <2>2, InputGrows
<1> QED
  BY <1>1, <1>2, <1>3, <1>4, <1>5 DEF Next

LEMMA Invariance == Spec => []IInv
  BY InitInv, StepKeeps, PTL DEF Spec

(* Transactions, tables, tasks and inputs keep their types for any number  *)
(* of workers, days and versions: a week's row is built from snapshots of  *)
(* days it has, whoever wrote them (engine.py:293-325).                    *)
THEOREM TypeCorrect == Spec => []TypeOK
<1>1. IInv => TypeOK
  BY DEF IInv
<1> QED
  BY <1>1, Invariance, PTL

-----------------------------------------------------------------------------
(* A day's snapshot never gives way to one of older orders or adjustments, *)
(* for any number of workers and rebuilds under way and any way in which   *)
(* their statements mix (engine.py:79-83).                                 *)
THEOREM OnlyNewer == Spec => NeverOlder
<1> DEFINE Newer ==
        \A r \in Of("daily", rows), s \in Of("daily", rows') :
            r.key = s.key => Older(r.of[r.key], s.of[s.key])
<1>1. ASSUME IInv, UNCHANGED rows PROVE Newer
  <2> SUFFICES ASSUME NEW r \in Of("daily", rows), NEW s \in Of("daily", rows'), r.key = s.key
               PROVE  Older(r.of[r.key], s.of[s.key])
    OBVIOUS
  <2>1. r = s
    BY <1>1 DEF IInv, TableInv, Of, Clash, SameKey
  <2>2. r.of[r.key] \in Inputs
    BY <1>1 DEF IInv, TableInv, Shape
  <2> QED
    BY <2>1, <2>2, OlderReflexive
<1>2. ASSUME IInv, NEW w \in Workers, Commit(w) PROVE Newer
  <2> SUFFICES ASSUME NEW r \in Of("daily", rows), NEW s \in Of("daily", rows'), r.key = s.key
               PROVE  Older(r.of[r.key], s.of[s.key])
    OBVIOUS
  <2>1. r \in rows /\ s \in rows' /\ Clash(r, s) /\ Clash(s, r)
    BY DEF Of, Clash, SameKey
  <2>2. CASE s \in rows
    <3>1. r = s
      BY <1>2, <2>1, <2>2 DEF IInv, TableInv
    <3>2. r.of[r.key] \in Inputs
      BY <1>2 DEF IInv, TableInv, Shape
    <3> QED
      BY <3>1, <3>2, OlderReflexive
  <2>3. CASE s \in tx[w].inserts
    <3>1. r \in Of("daily", tx[w].deletes)
      BY <1>2, <2>1, <2>3 DEF IInv, Keys, Of
    <3>2. Older(r.of[r.key], tx[w].read)
      BY <1>2, <3>1 DEF IInv, Aged, Commit, At, Writing
    <3>3. s.of[s.key] = tx[w].read
      BY <1>2, <2>3, VisibleDaily DEF Of
    <3> QED
      BY <3>2, <3>3
  <2> QED
    BY <1>2, <2>1, <2>2, <2>3 DEF Commit, Visible
<1>3. ASSUME [Next]_vars, \A w \in Workers : ~Commit(w) PROVE UNCHANGED rows
  BY <1>3 DEF Next, vars, ChangeOrders, ChangeAdjustments, HourlySync, Step, Begin, DeleteRow,
              WaitForRow, NextDelete, ReadOrders, ReadAdjustments, InsertRow, DuplicateKey,
              BuildWeekly, DeadlockVictim, Crash
<1>4. IInv /\ [Next]_vars => [Newer]_vars
  BY <1>1, <1>2, <1>3
<1> QED
  BY <1>4, Invariance, PTL DEF Spec, NeverOlder

-----------------------------------------------------------------------------
(* The snapshots are those of the inputs as they are, and every rebuild    *)
(* that has begun to read has read these.                                  *)
UpToDate(w) ==
    /\ At(w, "reading") => tx[w].read.orders = input.orders
    /\ Writing(w) => tx[w].read = input
    /\ At(w, "insert_weekly") => Content(Of("weekly", Written(w))) = Weekly(input)

Fresh == Shows(input) /\ \A w \in Workers : UpToDate(w)

LEMMA ContentOf ==
  ASSUME NEW R, NEW S PROVE Content(R \cup S) = Content(R) \cup Content(S)
BY DEF Content

LEMMA ContentSmaller == ASSUME NEW R, NEW S, S \subseteq R PROVE Content(S) \subseteq Content(R)
BY DEF Content

(* Daily and weekly snapshots can be told apart.                           *)
LEMMA ShowsBoth ==
  ASSUME NEW i \in Inputs, NEW R
  PROVE  Content(Of("daily", R) \cup Of("weekly", R)) = Daily(i) \cup Weekly(i)
            <=> /\ Content(Of("daily", R)) = Daily(i)
                /\ Content(Of("weekly", R)) = Weekly(i)
<1>1. \A c \in Content(Of("daily", R)) : c.table = "daily"
  BY DEF Content, Of
<1>2. \A c \in Content(Of("weekly", R)) : c.table = "weekly"
  BY DEF Content, Of
<1>3. ASSUME NEW c \in Daily(i) PROVE c.table = "daily"
  <2>1. PICK d \in DaysOf(i) : c = [table |-> "daily", key |-> d, of |-> [x \in {d} |-> i]]
    BY DEF Daily
  <2> QED
    BY <2>1
<1>4. ASSUME NEW c \in Weekly(i) PROVE c.table = "weekly"
  <2>1. PICK k \in {Week[d] : d \in DaysOf(i)} :
          c = [table |-> "weekly", key |-> k,
               of |-> [d \in {x \in DaysOf(i) : Week[x] = k} |-> i]]
    BY DEF Weekly
  <2> QED
    BY <2>1
<1>5. Content(Of("daily", R) \cup Of("weekly", R))
        = Content(Of("daily", R)) \cup Content(Of("weekly", R))
  BY ContentOf
<1> QED
  BY <1>1, <1>2, <1>3, <1>4, <1>5

LEMMA OwnDaily ==
  ASSUME NEW w \in Workers, NEW i PROVE Content(ByDay("daily", w, i)) = Daily(i)
<1>1. ASSUME NEW c \in Content(ByDay("daily", w, i)) PROVE c \in Daily(i)
  <2>1. PICK r \in ByDay("daily", w, i) : c = [table |-> r.table, key |-> r.key, of |-> r.of]
    BY DEF Content
  <2>2. PICK d \in DaysOf(i) :
          r = [table |-> "daily", by |-> w, key |-> d, of |-> [x \in {d} |-> i]]
    BY DEF ByDay
  <2>3. c = [table |-> "daily", key |-> d, of |-> [x \in {d} |-> i]]
    BY <2>1, <2>2
  <2> QED
    BY <2>3 DEF Daily
<1>2. ASSUME NEW c \in Daily(i) PROVE c \in Content(ByDay("daily", w, i))
  <2>1. PICK d \in DaysOf(i) : c = [table |-> "daily", key |-> d, of |-> [x \in {d} |-> i]]
    BY DEF Daily
  <2> DEFINE r == [table |-> "daily", by |-> w, key |-> d, of |-> [x \in {d} |-> i]]
  <2>2. r \in ByDay("daily", w, i)
    BY DEF ByDay
  <2>3. c = [table |-> r.table, key |-> r.key, of |-> r.of]
    BY <2>1
  <2> HIDE DEF r
  <2> QED
    BY <2>2, <2>3 DEF Content
<1> QED
  BY <1>1, <1>2

(* Weeks made of the daily snapshots of some inputs are those inputs'.     *)
LEMMA WeeksOf ==
  ASSUME NEW w \in Workers, NEW R, NEW i \in Inputs, Content(Of("daily", R)) = Daily(i)
  PROVE  Content(ByWeek(w, R)) = Weekly(i)
<1> DEFINE D == Of("daily", R)
           In(k) == {r \in D : Week[r.key] = k}
           Its(k) == [d \in {r.key : r \in In(k)} |-> (CHOOSE r \in In(k) : r.key = d).of[d]]
           Due(k) == [d \in {x \in DaysOf(i) : Week[x] = k} |-> i]
           Weeks == {Week[d] : d \in DaysOf(i)}
<1>1. ASSUME NEW r \in D PROVE r.key \in DaysOf(i) /\ r.of = [x \in {r.key} |-> i]
  <2>1. [table |-> r.table, key |-> r.key, of |-> r.of] \in Daily(i)
    BY DEF Content
  <2>2. PICK d \in DaysOf(i) : [table |-> r.table, key |-> r.key, of |-> r.of]
                              = [table |-> "daily", key |-> d, of |-> [x \in {d} |-> i]]
    BY <2>1 DEF Daily
  <2> QED
    BY <2>2
<1>2. ASSUME NEW d \in DaysOf(i) PROVE \E r \in D : r.key = d
  <2>1. [table |-> "daily", key |-> d, of |-> [x \in {d} |-> i]] \in Content(D)
    BY DEF Daily
  <2>2. PICK r \in D : [table |-> "daily", key |-> d, of |-> [x \in {d} |-> i]]
                      = [table |-> r.table, key |-> r.key, of |-> r.of]
    BY <2>1 DEF Content
  <2> QED
    BY <2>2
<1>3. ByWeek(w, R) = {[table |-> "weekly", by |-> w, key |-> k, of |-> Its(k)] :
                        k \in {Week[r.key] : r \in D}}
  BY DEF ByWeek
<1> HIDE DEF D
<1>4. {Week[r.key] : r \in D} = Weeks
  BY <1>1, <1>2
<1>5. ASSUME NEW k PROVE Its(k) = Due(k)
  <2>1. {r.key : r \in In(k)} = {x \in DaysOf(i) : Week[x] = k}
    BY <1>1, <1>2
  <2>2. ASSUME NEW d \in {r.key : r \in In(k)}
        PROVE  (CHOOSE r \in In(k) : r.key = d).of[d] = i
    <3> DEFINE c == CHOOSE r \in In(k) : r.key = d
    <3>1. c \in In(k) /\ c.key = d
      OBVIOUS
    <3> HIDE DEF c
    <3>2. c.of = [x \in {d} |-> i]
      BY <1>1, <3>1
    <3>3. c.of[d] = i
      BY <3>2
    <3> QED
      BY <3>3 DEF c
  <2> QED
    BY <2>1, <2>2
<1> HIDE DEF Its, Due, Weeks
<1>6. ByWeek(w, R) = {[table |-> "weekly", by |-> w, key |-> k, of |-> Due(k)] : k \in Weeks}
  BY <1>3, <1>4, <1>5
<1>7. Content(ByWeek(w, R)) = {[table |-> "weekly", key |-> k, of |-> Due(k)] : k \in Weeks}
  <2>1. ASSUME NEW c \in Content(ByWeek(w, R))
        PROVE  \E k \in Weeks : c = [table |-> "weekly", key |-> k, of |-> Due(k)]
    <3>1. PICK r \in ByWeek(w, R) : c = [table |-> r.table, key |-> r.key, of |-> r.of]
      BY DEF Content
    <3>2. PICK k \in Weeks : r = [table |-> "weekly", by |-> w, key |-> k, of |-> Due(k)]
      BY <1>6
    <3> QED
      BY <3>1, <3>2
  <2>2. ASSUME NEW k \in Weeks
        PROVE  [table |-> "weekly", key |-> k, of |-> Due(k)] \in Content(ByWeek(w, R))
    <3> DEFINE r == [table |-> "weekly", by |-> w, key |-> k, of |-> Due(k)]
    <3>1. r \in ByWeek(w, R)
      BY <1>6
    <3>2. [table |-> "weekly", key |-> k, of |-> Due(k)]
            = [table |-> r.table, key |-> r.key, of |-> r.of]
      OBVIOUS
    <3> HIDE DEF r
    <3> QED
      BY <3>1, <3>2 DEF Content
  <2> QED
    BY <2>1, <2>2
<1> QED
  BY <1>7 DEF Weekly, Due, Weeks

(* Among the days a rebuild of the inputs i sees are its own, and these    *)
(* are all of the inputs' days.                                            *)
LEMMA SeesFresh ==
  ASSUME IInv, NEW w \in Workers, Content(Of("daily", rows)) = Daily(tx[w].read),
         Own(w) \subseteq tx[w].inserts, Writing(w)
  PROVE  Content(Of("daily", Visible(w))) = Daily(tx[w].read)
<1> DEFINE i == tx[w].read
           mine == ByDay("daily", w, i)
<1>1. i \in Inputs
  BY DEF IInv, TypeOK, Transactions
<1>2. /\ \A r \in ByDay("events", w, i) : r.table = "events"
      /\ \A r \in mine : r.table = "daily"
  BY <1>1, ByDayType DEF Tables
<1>3. \A r \in tx[w].inserts : r \in Own(w) \/ r.table = "weekly"
  BY DEF IInv, Stage, Writing, Written, At
<1>4. Of("daily", tx[w].inserts) = mine
  BY <1>2, <1>3 DEF Of, Own
<1>5. Content(mine) = Daily(i)
  BY OwnDaily
<1> HIDE DEF mine, i
<1>6. Of("daily", Visible(w)) = Of("daily", rows \ tx[w].deletes) \cup mine
  BY <1>4 DEF Of, Visible
<1>7. Of("daily", rows \ tx[w].deletes) \subseteq Of("daily", rows)
  BY DEF Of
<1>8. Content(Of("daily", rows \ tx[w].deletes)) \subseteq Daily(i)
  <2>1. Content(Of("daily", rows \ tx[w].deletes)) \subseteq Content(Of("daily", rows))
    BY <1>7, ContentSmaller
  <2> QED
    BY <2>1 DEF i
<1>9. Content(Of("daily", Visible(w)))
        = Content(Of("daily", rows \ tx[w].deletes)) \cup Content(mine)
  BY <1>6, ContentOf
<1> QED
  BY <1>5, <1>8, <1>9 DEF i

LEMMA CommitFresh ==
  ASSUME IInv, Fresh, NEW w \in Workers, Commit(w) PROVE Shows(input)'
<1>1. rows \subseteq Row /\ rows' \subseteq Row /\ input' = input /\ input \in Inputs
  BY CommitKeeps DEF Commit, IInv, TypeOK
<1>2. Content(Of("daily", rows)) = Daily(input) /\ Content(Of("weekly", rows)) = Weekly(input)
  BY <1>1, ShowsBoth DEF Fresh, Shows
<1>3. /\ Writing(w) /\ Own(w) \subseteq tx[w].inserts /\ tx[w].read = input
      /\ Content(Of("weekly", tx[w].inserts)) = Weekly(input)
  BY DEF IInv, Stage, Fresh, UpToDate, Commit, At, Writing, Written
<1>4. Content(Of("daily", rows')) = Daily(input)
  BY <1>2, <1>3, SeesFresh DEF Commit
<1>5. Of("weekly", rows') = Of("weekly", rows \ tx[w].deletes) \cup Of("weekly", tx[w].inserts)
  BY DEF Commit, Visible, Of
<1>6. Of("weekly", rows \ tx[w].deletes) \subseteq Of("weekly", rows)
  BY DEF Of
<1>7. Content(Of("weekly", rows \ tx[w].deletes)) \subseteq Weekly(input)
  <2>1. Content(Of("weekly", rows \ tx[w].deletes)) \subseteq Content(Of("weekly", rows))
    BY <1>6, ContentSmaller
  <2> QED
    BY <1>2, <2>1
<1>8. Content(Of("weekly", rows')) = Content(Of("weekly", rows \ tx[w].deletes))
                                     \cup Content(Of("weekly", tx[w].inserts))
  BY <1>5, ContentOf
<1>9. Content(Of("weekly", rows')) = Weekly(input)
  BY <1>3, <1>7, <1>8
<1> QED
  BY <1>1, <1>4, <1>9, ShowsBoth DEF Shows

(* One transaction goes on, and the tables stay as they are.               *)
LEMMA OneGoesOn ==
  ASSUME Fresh, NEW w \in Workers, UNCHANGED <<input, rows>>,
         \A v \in Others(w) : tx'[v] = tx[v], UpToDate(w)'
  PROVE  Fresh'
<1>1. Shows(input)'
  BY DEF Fresh, Shows
<1>2. \A v \in Others(w) : UpToDate(v)'
  BY DEF Fresh, UpToDate, At, Writing, Written, Others
<1> QED
  BY <1>1, <1>2 DEF Fresh, Others

LEMMA FreshStep ==
  ASSUME IInv, Fresh, NEW w \in Workers, Step(w), ~Commit(w)
  PROVE  Fresh'
<1>1. tx[w] \in Transactions /\ \A v \in Workers : tx[v] \in Transactions
  BY DEF IInv, TypeOK
<1>2. UpToDate(w)
  BY DEF Fresh
<1>3. ASSUME NEW r \in tx[w].sees, DeleteRow(w, r) \/ WaitForRow(w, r) PROVE Fresh'
  <2>1. /\ \A v \in Others(w) : tx'[v] = tx[v]
        /\ UNCHANGED <<input, rows>>
        /\ tx'[w].pc = tx[w].pc /\ tx'[w].read = tx[w].read
        /\ tx'[w].inserts = tx[w].inserts /\ tx'[w].todo = tx[w].todo
    BY <1>1, <1>3 DEF DeleteRow, WaitForRow, IInv, TypeOK, Transactions, Others
  <2>2. UpToDate(w)'
    BY <1>2, <2>1 DEF UpToDate, At, Writing, Written
  <2> QED
    BY <2>1, <2>2, OneGoesOn
<1>4. CASE Begin(w) \/ NextDelete(w)
  <2>1. /\ \A v \in Others(w) : tx'[v] = tx[v]
        /\ UNCHANGED <<input, rows>>
        /\ tx'[w].pc \in Tables
    BY <1>1, <1>4 DEF Begin, NextDelete, IInv, TypeOK, Transactions, Others, Tables
  <2>2. UpToDate(w)'
    BY <2>1 DEF UpToDate, At, Writing, Tables
  <2> QED
    BY <2>1, <2>2, OneGoesOn
<1>5. CASE ReadOrders(w)
  <2>1. /\ \A v \in Others(w) : tx'[v] = tx[v]
        /\ UNCHANGED <<input, rows>>
        /\ tx'[w] = [tx[w] EXCEPT !.pc = "reading", !.read.orders = input.orders]
    BY <1>1, <1>5 DEF ReadOrders, IInv, TypeOK, Transactions, Others
  <2>2. tx[w].read \in Inputs
    BY <1>1 DEF Transactions
  <2>3. tx'[w].pc = "reading" /\ tx'[w].read.orders = input.orders
    BY <1>1, <2>1, <2>2 DEF Transactions, Inputs
  <2>4. UpToDate(w)'
    BY <2>1, <2>3 DEF UpToDate, At, Writing
  <2> QED
    BY <2>1, <2>4, OneGoesOn
<1>6. CASE ReadAdjustments(w)
  <2> DEFINE i == [tx[w].read EXCEPT !.adjustments = input.adjustments]
  <2>1. /\ \A v \in Others(w) : tx'[v] = tx[v]
        /\ UNCHANGED <<input, rows>>
        /\ tx'[w] = [tx[w] EXCEPT !.pc = "insert_daily", !.read = i,
                               !.inserts = ByDay("events", w, i), !.todo = ByDay("daily", w, i)]
    BY <1>1, <1>6 DEF ReadAdjustments, IInv, TypeOK, Transactions, Others
  <2>2. tx[w].read \in Inputs /\ input \in Inputs /\ tx[w].read.orders = input.orders
    BY <1>1, <1>2, <1>6 DEF Transactions, UpToDate, ReadAdjustments, IInv, TypeOK
  <2>3. i = input
    BY <2>2 DEF Inputs
  <2> HIDE DEF i
  <2>4. tx'[w].pc = "insert_daily" /\ tx'[w].read = input
    BY <1>1, <2>1, <2>3 DEF Transactions
  <2>5. UpToDate(w)'
    BY <2>1, <2>4 DEF UpToDate, At, Writing
  <2> QED
    BY <2>1, <2>5, OneGoesOn
<1>7. ASSUME NEW r \in tx[w].todo, InsertRow(w, r) PROVE Fresh'
  <2>1. /\ \A v \in Others(w) : tx'[v] = tx[v]
        /\ UNCHANGED <<input, rows>>
        /\ tx'[w] = [tx[w] EXCEPT !.todo = @ \ {r}, !.inserts = @ \cup {r}]
    BY <1>1, <1>7 DEF InsertRow, IInv, TypeOK, Transactions, Others
  <2>2. /\ tx'[w].pc = tx[w].pc /\ tx'[w].read = tx[w].read
        /\ tx'[w].inserts = tx[w].inserts \cup {r} /\ tx'[w].todo = tx[w].todo \ {r}
    BY <1>1, <2>1 DEF Transactions
  <2>3. Written(w)' = Written(w)
    BY <2>2 DEF Written
  <2>4. UpToDate(w)'
    BY <1>2, <2>1, <2>2, <2>3 DEF UpToDate, At, Writing
  <2> QED
    BY <2>1, <2>4, OneGoesOn
<1>8. CASE BuildWeekly(w)
  <2> DEFINE W == ByWeek(w, Visible(w))
  <2>1. /\ \A v \in Others(w) : tx'[v] = tx[v]
        /\ UNCHANGED <<input, rows>>
        /\ tx'[w] = [tx[w] EXCEPT !.pc = "insert_weekly", !.todo = W]
    BY <1>1, <1>8 DEF BuildWeekly, IInv, TypeOK, Transactions, Others
  <2>2. /\ Writing(w) /\ tx[w].read = input /\ tx[w].inserts = Own(w)
    BY <1>2, <1>8 DEF BuildWeekly, UpToDate, Writing, At, IInv, Stage, Written
  <2>3. input \in Inputs /\ Content(Of("daily", rows)) = Daily(input)
    BY ShowsBoth DEF IInv, TypeOK, Fresh, Shows
  <2>4. Content(Of("daily", Visible(w))) = Daily(input)
    BY <2>2, <2>3, SeesFresh
  <2>5. Content(W) = Weekly(input)
    BY <2>3, <2>4, WeeksOf
  <2>6. \A r \in W : r.table = "weekly"
    BY VisibleDaily, ByWeekType
  <2> HIDE DEF W
  <2>7. /\ tx'[w].pc = "insert_weekly" /\ tx'[w].read = input
        /\ tx'[w].inserts = tx[w].inserts /\ tx'[w].todo = W
    BY <1>1, <2>1, <2>2 DEF Transactions
  <2>8. \A r \in tx[w].inserts : r.table # "weekly"
    BY <1>1, <2>2, ByDayType DEF Own, Tables, Transactions
  <2>9. Of("weekly", tx[w].inserts \cup W) = W
    BY <2>6, <2>8 DEF Of
  <2>10. UpToDate(w)'
    BY <2>1, <2>5, <2>7, <2>9 DEF UpToDate, At, Writing, Written
  <2> QED
    BY <2>1, <2>10, OneGoesOn
<1>9. ASSUME NEW r \in tx[w].todo, DuplicateKey(w, r) PROVE Fresh'
  <2>1. /\ \A v \in Others(w) : tx'[v] = tx[v]
        /\ UNCHANGED <<input, rows>>
        /\ tx'[w] = NoTx
    BY <1>1, <1>9 DEF DuplicateKey, IInv, TypeOK, Others
  <2>2. UpToDate(w)'
    BY <2>1 DEF UpToDate, At, Writing, NoTx
  <2> QED
    BY <2>1, <2>2, OneGoesOn
<1> QED
  BY <1>3, <1>4, <1>5, <1>6, <1>7, <1>8, <1>9 DEF Step

(* While the inputs rest, the snapshots of the latest ones stay whatever   *)
(* rebuilds begin, overlap, lose a key, die or are rolled back, once every *)
(* rebuild under way has read these inputs: what EventuallyFresh promises  *)
(* to come, stays (engine.py:77-193).                                      *)
THEOREM FreshStays == Spec => [][Fresh /\ UNCHANGED input => Fresh']_vars
<1>1. ASSUME IInv, [Next]_vars, Fresh, UNCHANGED input PROVE Fresh'
  <2>1. CASE ChangeOrders \/ ChangeAdjustments
    BY <1>1, <2>1 DEF ChangeOrders, ChangeAdjustments, IInv, TypeOK, Inputs
  <2>2. CASE HourlySync \/ UNCHANGED vars
    BY <1>1, <2>2 DEF HourlySync, vars, Fresh, Shows, UpToDate, At, Writing, Written
  <2>3. ASSUME NEW w \in Workers, Step(w) PROVE Fresh'
    <3>1. CASE ~Commit(w)
      BY <1>1, <2>3, <3>1, FreshStep
    <3>2. CASE Commit(w)
      <4>1. Shows(input)'
        BY <1>1, <3>2, CommitFresh
      <4>2. ASSUME NEW v \in Workers PROVE UpToDate(v)'
        <5>1. tx[v] \in Transactions
          BY <1>1 DEF IInv, TypeOK
        <5>2. \/ tx'[v] = NoTx
              \/ /\ tx'[v].pc = tx[v].pc /\ tx'[v].read = tx[v].read
                 /\ tx'[v].inserts = tx[v].inserts /\ tx'[v].todo = tx[v].todo
          BY <3>2, <5>1 DEF Commit, Transactions
        <5>3. CASE tx'[v] = NoTx
          BY <5>3 DEF UpToDate, At, Writing, NoTx
        <5>4. CASE /\ tx'[v].pc = tx[v].pc /\ tx'[v].read = tx[v].read
                   /\ tx'[v].inserts = tx[v].inserts /\ tx'[v].todo = tx[v].todo
          BY <1>1, <5>4 DEF Fresh, UpToDate, At, Writing, Written
        <5> QED
          BY <5>2, <5>3, <5>4
      <4> QED
        BY <4>1, <4>2 DEF Fresh
    <3> QED
      BY <3>1, <3>2
  <2>4. ASSUME NEW w \in Workers, DeadlockVictim(w) \/ Crash(w) PROVE Fresh'
    <3>1. /\ \A v \in Others(w) : tx'[v] = tx[v]
          /\ UNCHANGED <<input, rows>>
          /\ tx'[w] = NoTx
      BY <1>1, <2>4 DEF DeadlockVictim, Crash, IInv, TypeOK, Others
    <3>2. UpToDate(w)'
      BY <3>1 DEF UpToDate, At, Writing, NoTx
    <3> QED
      BY <1>1, <3>1, <3>2, OneGoesOn
  <2> QED
    BY <1>1, <2>1, <2>2, <2>3, <2>4 DEF Next
<1>2. IInv /\ [Next]_vars => [Fresh /\ UNCHANGED input => Fresh']_vars
  BY <1>1
<1> QED
  BY <1>2, Invariance, PTL DEF Spec

=============================================================================
