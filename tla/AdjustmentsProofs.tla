-------------------------- MODULE AdjustmentsProofs --------------------------
(***************************************************************************)
(* Proofs about the requests that book adjustments, for any number of      *)
(* rows, web workers and changes, and any forms: an investor's capital is  *)
(* what the adjustment says, the rows live as AdjustmentLife promises, and *)
(* the books are off what was stated by the corrections there are.         *)
(*                                                                         *)
(* For the first two, rows and requests are typed as far as a status or a  *)
(* link depends on them (IInv). The last is about a sum over the rows: the *)
(* library's has its laws (SumRules) by induction over the subsets of a    *)
(* finite set, and a row more adds its amount (BalanceOfNew).              *)
(***************************************************************************)
EXTENDS Adjustments, FiniteSetTheorems, TLAPS

(* A row has its columns; capital is booked in whole steps, as entered.    *)
IsRow(row) ==
    /\ row = [kind |-> row.kind, amount |-> row.amount, counted |-> row.counted,
              deleted |-> row.deleted]
    /\ row.kind \in Kinds
    /\ row.kind = "capital" => row.amount \in Int

RowInv ==
    /\ adj = [a \in Ids |-> adj[a]]
    /\ links \in [Ids -> Seq(Int)]
    /\ raced \subseteq Ids
    /\ \A a \in Ids : adj[a] = NoRow \/ IsRow(adj[a])
    /\ \A a \in Ids : adj[a] = NoRow => links[a] = <<>> /\ a \notin raced

Hand(r) == req[r].pc = "hand"

(* A request that has a row in hand knows it as it is, and is alone with   *)
(* it unless all of them edit, or the row is contested.                    *)
HandInv ==
    /\ req = [r \in Requests |-> req[r]]
    /\ \A r \in Requests : Hand(r) =>
        /\ req[r].op \in {"edit", "delete", "link"}
        /\ req[r].id \in Ids
        /\ IsRow(req[r].copy)
        /\ adj[req[r].id] # NoRow
        /\ req[r].op = "link" => req[r].copy.kind = "capital"
        /\ req[r].id \notin raced =>
            /\ links[req[r].id] = <<>>
            /\ ~adj[req[r].id].deleted
            /\ req[r].op # "edit" => req[r].copy = adj[req[r].id]
    /\ \A r, q \in Requests :
        r # q /\ Hand(r) /\ Hand(q) /\ req[r].id = req[q].id /\ req[r].id \notin raced
            => req[r].op = "edit" /\ req[q].op = "edit"

IInv == RowInv /\ HandInv /\ CapitalIsBooked

-----------------------------------------------------------------------------
LEMMA NewRow ==
  ASSUME NEW kind \in Kinds, NEW amount, NEW counted, kind = "capital" => amount \in Int
  PROVE  IsRow(Row(kind, amount, counted)) /\ ~Row(kind, amount, counted).deleted
  BY DEF IsRow, Row

LEMMA RowIsThere == ASSUME NEW row, IsRow(row) PROVE row # NoRow
  BY DEF IsRow, NoRow, Kinds

LEMMA SavedForm == ASSUME NEW form \in Forms PROVE IsRow(Saved(form)) /\ ~Saved(form).deleted
  BY FormsAssumption, NewRow DEF Saved

LEMMA DeletedRow ==
  ASSUME NEW row, IsRow(row)
  PROVE  IsRow([row EXCEPT !.deleted = TRUE]) /\ [row EXCEPT !.deleted = TRUE].deleted
<1> DEFINE Columns(deleted) == [kind : {row.kind}, amount : {row.amount},
                                counted : {row.counted}, deleted : {deleted}]
<1>1. row \in Columns(row.deleted)
  BY DEF IsRow
<1>2. [row EXCEPT !.deleted = TRUE] \in Columns(TRUE)
  BY <1>1
<1>3. ASSUME NEW after \in Columns(TRUE) PROVE IsRow(after)
  <2>1. after = [kind |-> after.kind, amount |-> after.amount, counted |-> after.counted,
                 deleted |-> after.deleted]
    OBVIOUS
  <2>2. after.kind = row.kind /\ after.amount = row.amount
    OBVIOUS
  <2> HIDE DEF Columns
  <2> QED BY <2>1, <2>2 DEF IsRow
<1>4. \A after \in Columns(TRUE) : after.deleted = TRUE
  OBVIOUS
<1> HIDE DEF Columns
<1> QED BY <1>2, <1>3, <1>4

LEMMA OneLink == ASSUME NEW amount \in Int PROVE Append(<<>>, amount) = <<amount>>
  OBVIOUS

LEMMA FreshRow == ASSUME HasFresh PROVE Fresh \in Ids /\ adj[Fresh] = NoRow
  BY DEF HasFresh, Fresh

(* A new row in a place that was empty: nobody has it in hand, and it is   *)
(* linked by the step alone, if at all.                                    *)
LEMMA Booking ==
  ASSUME IInv, HasFresh, NEW row, IsRow(row), ~row.deleted,
         NEW link, link = <<>> \/ (row.kind = "capital" /\ link = <<row.amount>>),
         NEW r \in Requests, NEW own,
         adj' = [adj EXCEPT ![Fresh] = row],
         links' = [links EXCEPT ![Fresh] = link],
         Free(r), req' = [req EXCEPT ![r] = [Idle EXCEPT !.pc = "queue", !.own = own]],
         UNCHANGED raced
  PROVE  IInv'
<1>1. Fresh \in Ids /\ adj[Fresh] = NoRow
  BY FreshRow
<1>2. /\ \A a \in Ids : adj'[a] = IF a = Fresh THEN row ELSE adj[a]
      /\ \A a \in Ids : links'[a] = IF a = Fresh THEN link ELSE links[a]
      /\ adj' = [a \in Ids |-> adj'[a]]
  BY <1>1 DEF IInv, RowInv
<1>3. row # NoRow
  BY RowIsThere
<1>4. link \in Seq(Int)
  <2>1. CASE link = <<>>
    BY <2>1
  <2>2. CASE row.kind = "capital" /\ link = <<row.amount>>
    <3>1. row.amount \in Int
      BY <2>2 DEF IsRow
    <3> QED BY <2>2, <3>1
  <2> QED BY <2>1, <2>2
<1>5. RowInv'
  BY <1>1, <1>2, <1>3, <1>4 DEF IInv, RowInv
<1>6. /\ req' = [q \in Requests |-> req'[q]]
      /\ \A q \in Requests : req'[q].pc = "hand" => q # r /\ req'[q] = req[q]
  BY DEF IInv, HandInv, Idle
<1>7. HandInv'
  BY <1>1, <1>2, <1>3, <1>6 DEF IInv, HandInv, Hand
<1>8. CapitalIsBooked'
  BY <1>1, <1>2 DEF IInv, CapitalIsBooked
<1> QED BY <1>5, <1>7, <1>8 DEF IInv

(* A request that lets go of what it has, or does not have a row.          *)
LEMMA LettingGo ==
  ASSUME IInv, NEW r \in Requests, NEW after, after.pc # "hand",
         req' = [req EXCEPT ![r] = after], UNCHANGED <<adj, links, raced>>
  PROVE  IInv'
<1>1. /\ req' = [q \in Requests |-> req'[q]]
      /\ \A q \in Requests : req'[q].pc = "hand" => q # r /\ req'[q] = req[q]
  BY DEF IInv, HandInv
<1>2. HandInv'
  BY <1>1 DEF IInv, HandInv, Hand
<1> QED BY <1>2 DEF IInv, RowInv, CapitalIsBooked

(* A request saves the row it has in hand, or links it. What it leaves is  *)
(* free if it edits, and nobody else's concern if it does not.             *)
LEMMA Saving ==
  ASSUME IInv, NEW r \in Requests, Hand(r), NEW row, IsRow(row), NEW link \in Seq(Int),
         NEW after, after.pc # "hand", req' = [req EXCEPT ![r] = after],
         adj' = [adj EXCEPT ![req[r].id] = row], links' = [links EXCEPT ![req[r].id] = link],
         UNCHANGED raced,
         req[r].id \notin raced =>
            \/ link = <<>> /\ (req[r].op = "edit" => ~row.deleted)
            \/ /\ req[r].op # "edit" /\ link = <<row.amount>>
               /\ row.kind = "capital" /\ ~row.deleted
  PROVE  IInv'
<1> DEFINE a == req[r].id
<1>1. a \in Ids /\ adj[a] # NoRow
  BY DEF IInv, HandInv
<1>2. /\ \A b \in Ids : adj'[b] = IF b = a THEN row ELSE adj[b]
      /\ \A b \in Ids : links'[b] = IF b = a THEN link ELSE links[b]
      /\ adj' = [b \in Ids |-> adj'[b]]
  BY <1>1 DEF IInv, RowInv
<1>3. row # NoRow
  BY RowIsThere
<1>4. RowInv'
  BY <1>1, <1>2, <1>3 DEF IInv, RowInv
<1>5. /\ req' = [q \in Requests |-> req'[q]]
      /\ \A q \in Requests : req'[q].pc = "hand" => q # r /\ req'[q] = req[q]
  BY DEF IInv, HandInv
<1>6. \A q \in Requests :
        q # r /\ Hand(q) /\ req[q].id = a /\ a \notin raced
            => req[r].op = "edit" /\ req[q].op = "edit"
  BY DEF IInv, HandInv
<1>7. HandInv'
  BY <1>1, <1>2, <1>3, <1>5, <1>6 DEF IInv, HandInv, Hand
<1>8. CapitalIsBooked'
  BY <1>1, <1>2 DEF IInv, CapitalIsBooked
<1> QED BY <1>4, <1>7, <1>8 DEF IInv

(* A request takes a row in hand: if another one has it the row becomes    *)
(* contested, unless both edit.                                            *)
LEMMA Looking ==
  ASSUME IInv, NEW r \in Requests, NEW op \in {"edit", "delete", "link"}, NEW a \in Ids,
         Look(r, op, a)
  PROVE  IInv'
<1>1. /\ Free(r) /\ adj[a] # NoRow /\ ~adj[a].deleted /\ links[a] = <<>>
      /\ op = "link" => adj[a].kind = "capital"
      /\ raced' = IF Races(r, op, a) THEN raced \cup {a} ELSE raced
      /\ UNCHANGED <<adj, links>>
  BY DEF Look, Linkable
<1>2. PICK own : req' = [req EXCEPT ![r] = [op |-> op, pc |-> "hand", id |-> a,
                                            copy |-> adj[a], own |-> own]]
  BY DEF Look
<1>3. IsRow(adj[a])
  BY <1>1 DEF IInv, RowInv
<1>4. /\ req' = [q \in Requests |-> req'[q]]
      /\ \A q \in Requests : q # r => req'[q] = req[q]
      /\ req'[r].op = op /\ req'[r].pc = "hand" /\ req'[r].id = a /\ req'[r].copy = adj[a]
  BY <1>2 DEF IInv, HandInv
<1>5. RowInv'
  BY <1>1 DEF IInv, RowInv
<1>6. \A q \in Requests :
        q # r /\ Hand(q) /\ req[q].id = a /\ a \notin raced'
            => op = "edit" /\ req[q].op = "edit"
  BY <1>1 DEF Races, Hand
<1>7. HandInv'
  BY <1>1, <1>3, <1>4, <1>6 DEF IInv, HandInv, Hand
<1>8. CapitalIsBooked'
  BY <1>1 DEF IInv, CapitalIsBooked
<1> QED BY <1>5, <1>7, <1>8 DEF IInv

-----------------------------------------------------------------------------
LEMMA LifeInit == Init => IInv
<1> SUFFICES ASSUME Init PROVE IInv
  OBVIOUS
<1>1. RowInv
  BY DEF Init, RowInv
<1>2. HandInv
  BY DEF Init, HandInv, Hand, Idle
<1>3. CapitalIsBooked
  BY DEF Init, CapitalIsBooked
<1> QED BY <1>1, <1>2, <1>3 DEF IInv

(* What a request that has committed goes on as.                           *)
LEMMA AfterCommit ==
  ASSUME NEW own
  PROVE  Idle.pc # "hand" /\ [Idle EXCEPT !.pc = "queue", !.own = own].pc # "hand"
  BY DEF Idle

LEMMA LifeStep == IInv /\ [Next]_vars => IInv'
<1> SUFFICES ASSUME IInv, [Next]_vars PROVE IInv'
  OBVIOUS
<1>1. ASSUME NEW r \in Requests, NEW form \in Forms, Create(r, form) PROVE IInv'
  <2>1. links' = [links EXCEPT ![Fresh] = <<>>]
    BY <1>1, FreshRow DEF Create, IInv, RowInv
  <2> QED BY <1>1, <2>1, SavedForm, Booking DEF Create, Book, Committed
<1>2. ASSUME NEW r \in Requests, NEW amount \in Amounts, Move(r, amount) PROVE IInv'
  <2> DEFINE row == Row("capital", amount, TRUE)
  <2>1. IsRow(row) /\ ~row.deleted
    BY AmountsAssumption, NewRow DEF Kinds
  <2>2. row.kind = "capital" /\ row.amount = amount
    BY DEF Row
  <2>3. /\ Free(r) /\ HasFresh /\ UNCHANGED raced
        /\ adj' = [adj EXCEPT ![Fresh] = row]
        /\ links' = [links EXCEPT ![Fresh] = <<row.amount>>]
        /\ req' = [req EXCEPT ![r] = [Idle EXCEPT !.pc = "queue", !.own = TRUE]]
    BY <1>2, <2>2 DEF Move, Book, Committed
  <2> HIDE DEF row
  <2> QED BY <2>1, <2>2, <2>3, Booking
<1>3. ASSUME NEW r \in Requests, NEW op \in {"edit", "delete", "link"}, NEW a \in Ids,
             Look(r, op, a)
      PROVE  IInv'
  BY <1>3, Looking
<1>4. ASSUME NEW r \in Requests, NEW form \in Forms, Edit(r, form) PROVE IInv'
  <2> DEFINE a == req[r].id
  <2>1. Hand(r) /\ req[r].op = "edit" /\ a \in Ids
    BY <1>4 DEF Edit, InHand, Hand, IInv, HandInv
  <2>2. links[a] \in Seq(Int) /\ links' = [links EXCEPT ![a] = links[a]]
    BY <1>4, <2>1 DEF Edit, IInv, RowInv
  <2>3. a \notin raced => links[a] = <<>>
    BY <2>1 DEF IInv, HandInv
  <2>4. adj' = [adj EXCEPT ![a] = Saved(form)] /\ UNCHANGED raced
    BY <1>4 DEF Edit, Book
  <2>5. PICK after : after.pc # "hand" /\ req' = [req EXCEPT ![r] = after]
    BY <1>4, AfterCommit DEF Edit, Committed
  <2> QED BY <2>1, <2>2, <2>3, <2>4, <2>5, SavedForm, Saving
<1>5. ASSUME NEW r \in Requests, Delete(r) PROVE IInv'
  <2> DEFINE a == req[r].id
             row == [req[r].copy EXCEPT !.deleted = TRUE]
  <2>1. Hand(r) /\ req[r].op = "delete" /\ a \in Ids /\ IsRow(req[r].copy)
    BY <1>5 DEF Delete, InHand, Hand, IInv, HandInv
  <2>2. links[a] \in Seq(Int) /\ links' = [links EXCEPT ![a] = links[a]]
    BY <1>5, <2>1 DEF Delete, IInv, RowInv
  <2>3. a \notin raced => links[a] = <<>>
    BY <2>1 DEF IInv, HandInv
  <2>4. adj' = [adj EXCEPT ![a] = row] /\ UNCHANGED raced
    BY <1>5 DEF Delete, Book
  <2>5. PICK after : after.pc # "hand" /\ req' = [req EXCEPT ![r] = after]
    BY <1>5, AfterCommit DEF Delete, Committed
  <2>6. IsRow(row)
    BY <2>1, DeletedRow
  <2> HIDE DEF row
  <2> QED BY <2>1, <2>2, <2>3, <2>4, <2>5, <2>6, Saving
<1>6. ASSUME NEW r \in Requests, Link(r) PROVE IInv'
  <2> DEFINE a == req[r].id
             copy == req[r].copy
             link == Append(links[a], copy.amount)
  <2>1. /\ Hand(r) /\ req[r].op = "link" /\ a \in Ids /\ adj[a] # NoRow
        /\ IsRow(copy) /\ copy.kind = "capital"
    BY <1>6 DEF Link, InHand, Hand, IInv, HandInv
  <2>2. copy.amount \in Int
    BY <2>1 DEF IsRow
  <2>3. links[a] \in Seq(Int) /\ link \in Seq(Int) /\ links' = [links EXCEPT ![a] = link]
    BY <1>6, <2>1, <2>2 DEF Link, IInv, RowInv
  <2>4. a \notin raced => links[a] = <<>> /\ copy = adj[a] /\ ~adj[a].deleted
    BY <2>1 DEF IInv, HandInv
  <2>5. a \notin raced => link = <<copy.amount>>
    BY <2>2, <2>4, OneLink
  <2>6. adj' = [adj EXCEPT ![a] = adj[a]] /\ IsRow(adj[a]) /\ UNCHANGED raced
    BY <1>6, <2>1 DEF Link, IInv, RowInv
  <2>7. PICK after : after.pc # "hand" /\ req' = [req EXCEPT ![r] = after]
    BY <1>6, AfterCommit DEF Link
  <2> HIDE DEF link
  <2> QED BY <2>1, <2>3, <2>4, <2>5, <2>6, <2>7, Saving
<1>7. ASSUME NEW r \in Requests,
             \/ \E fact \in Facts : ReadOrders(r, fact)
             \/ ReadAdjustments(r) \/ Save(r)
      PROVE  IInv'
  <2>1. ASSUME NEW pc \in {"orders", "state"}, NEW fact, NEW state
        PROVE  Check(pc, fact, state).pc # "hand"
    BY DEF Check
  <2>2. PICK after : after.pc # "hand" /\ req' = [req EXCEPT ![r] = after]
    BY <1>7, <2>1, AfterCommit DEF ReadOrders, ReadAdjustments, Save
  <2>3. UNCHANGED <<adj, links, raced>>
    BY <1>7 DEF ReadOrders, ReadAdjustments, Save
  <2> QED BY <2>2, <2>3, LettingGo
<1>8. ASSUME NEW r \in Requests, NEW s \in Sides, Correct(r, s) PROVE IInv'
  <2>1. CASE snap.diff[s] = 0
    <3>1. UNCHANGED <<adj, links, raced>>
          /\ req' = [req EXCEPT ![r] = [Idle EXCEPT !.pc = "queue", !.own = TRUE]]
      BY <1>8, <2>1 DEF Correct, Committed
    <3> QED BY <3>1, AfterCommit, LettingGo
  <2>2. CASE snap.diff[s] # 0
    <3> DEFINE row == Row(IF s = "bank" THEN "other" ELSE "usdt", snap.diff[s], TRUE)
    <3>1. IsRow(row) /\ ~row.deleted
      BY NewRow DEF Kinds
    <3>2. /\ Free(r) /\ HasFresh /\ UNCHANGED <<links, raced>>
          /\ adj' = [adj EXCEPT ![Fresh] = row]
          /\ req' = [req EXCEPT ![r] = [Idle EXCEPT !.pc = "queue", !.own = TRUE]]
      BY <1>8, <2>2 DEF Correct, Committed
    <3>3. links' = [links EXCEPT ![Fresh] = <<>>]
      BY <3>2, FreshRow DEF IInv, RowInv
    <3> HIDE DEF row
    <3> QED BY <3>1, <3>2, <3>3, Booking
  <2> QED BY <2>1, <2>2
<1>9. ASSUME NEW r \in Requests, Queue(r) \/ GiveUp(r) PROVE IInv'
  BY <1>9, AfterCommit, LettingGo DEF Queue, GiveUp
<1>10. CASE \/ UNCHANGED vars \/ HourlySync \/ Rebuild
            \/ \E t \in Trades : Trade(t)
            \/ \E to \in {"shown", "hidden", "inactive"} : Switch(to)
  <2>1. UNCHANGED <<adj, links, req, raced>>
    BY <1>10 DEF vars, HourlySync, Rebuild, Switch, Trade
  <2> QED BY <2>1 DEF IInv, RowInv, HandInv, Hand, CapitalIsBooked
<1> QED
  BY <1>1, <1>2, <1>3, <1>4, <1>5, <1>6, <1>7, <1>8, <1>9, <1>10 DEF Next

LEMMA LifeInvariant == Spec => []IInv
<1> QED BY LifeInit, LifeStep, PTL DEF Spec

(* What is an investor's is what the adjustment books, for any number of   *)
(* requests and rows.                                                      *)
THEOREM CapitalBooked == Spec => []CapitalIsBooked
<1>1. IInv => CapitalIsBooked
  BY DEF IInv
<1> QED BY <1>1, LifeInvariant, PTL

-----------------------------------------------------------------------------
(* The refinement: each step turns the status of one row or of none.       *)
LEMMA TurnStep ==
  ASSUME NEW a \in Ids, NEW from, NEW to, Status(a) = from, Status(a)' = to,
         \A b \in Ids \ {a} : Status(b)' = Status(b)
  PROVE  Life!Turn(a, from, to)
  BY DEF Life!Turn

LEMMA NoTurn ==
  ASSUME \A a \in Ids : Status(a)' = Status(a)
  PROVE  UNCHANGED [a \in Ids |-> Status(a)]
  OBVIOUS

(* Deleted rows are contested or deleted ones, links make a row owned.     *)
LEMMA BookingTurns ==
  ASSUME IInv, HasFresh, NEW a \in Ids, a = Fresh,
         NEW row, IsRow(row), ~row.deleted,
         adj' = [adj EXCEPT ![a] = row], \A b \in Ids \ {a} : links'[b] = links[b],
         UNCHANGED raced
  PROVE  /\ links'[a] # <<>> => Life!Turn(a, "absent", "owned")
         /\ links'[a] = <<>> => Life!Turn(a, "absent", "free")
<1>1. adj[a] = NoRow /\ a \notin raced
  BY FreshRow DEF IInv, RowInv
<1>2. \A b \in Ids : adj'[b] = IF b = a THEN row ELSE adj[b]
  BY DEF IInv, RowInv
<1>3. row # NoRow
  BY RowIsThere
<1>4. Status(a) = "absent" /\ Status(a)' = IF links'[a] # <<>> THEN "owned" ELSE "free"
  BY <1>1, <1>2, <1>3 DEF Status
<1>5. \A b \in Ids \ {a} : Status(b)' = Status(b)
  BY <1>2 DEF Status
<1> QED BY <1>4, <1>5, TurnStep

(* A contested row stays so, and one that is in hand alone, or of edits,   *)
(* is free until then.                                                     *)
LEMMA SavingTurns ==
  ASSUME IInv, NEW r \in Requests, Hand(r), NEW a \in Ids, a = req[r].id,
         NEW row, IsRow(row), NEW link,
         adj' = [adj EXCEPT ![a] = row], links' = [links EXCEPT ![a] = link],
         UNCHANGED raced
  PROVE  \/ UNCHANGED [b \in Ids |-> Status(b)]
         \/ row.deleted /\ Life!Turn(a, "free", "deleted")
         \/ ~row.deleted /\ link # <<>> /\ Life!Turn(a, "free", "owned")
         \/ ~row.deleted /\ link = <<>> /\ Life!Turn(a, "free", "free")
<1>1. adj[a] # NoRow
  BY DEF IInv, HandInv
<1>2. /\ \A b \in Ids : adj'[b] = IF b = a THEN row ELSE adj[b]
      /\ \A b \in Ids : links'[b] = IF b = a THEN link ELSE links[b]
  BY <1>1 DEF IInv, RowInv
<1>3. row # NoRow
  BY RowIsThere
<1>4. \A b \in Ids \ {a} : Status(b)' = Status(b)
  BY <1>2 DEF Status
<1>5. CASE a \in raced
  <2>1. Status(a)' = Status(a)
    BY <1>1, <1>2, <1>3, <1>5 DEF Status
  <2> QED BY <1>4, <2>1, NoTurn
<1>6. CASE a \notin raced
  <2>1. Status(a) = "free"
    BY <1>1, <1>6 DEF Status, IInv, HandInv
  <2>2. Status(a)' = IF row.deleted THEN "deleted" ELSE IF link # <<>> THEN "owned" ELSE "free"
    BY <1>1, <1>2, <1>3, <1>6 DEF Status
  <2> QED BY <1>1, <1>4, <2>1, <2>2, TurnStep
<1> QED BY <1>5, <1>6

LEMMA LookingTurns ==
  ASSUME IInv, NEW r \in Requests, NEW op \in {"edit", "delete", "link"}, NEW a \in Ids,
         Look(r, op, a)
  PROVE  UNCHANGED [b \in Ids |-> Status(b)] \/ Life!Contest(a)
<1>1. /\ adj[a] # NoRow /\ ~adj[a].deleted /\ links[a] = <<>>
      /\ raced' = raced \/ raced' = raced \cup {a}
      /\ UNCHANGED <<adj, links>>
  BY DEF Look
<1>2. CASE raced' = raced \/ a \in raced
  <2>1. raced' = raced
    BY <1>1, <1>2
  <2> QED BY <1>1, <2>1, NoTurn DEF Status
<1>3. CASE raced' = raced \cup {a} /\ a \notin raced
  <2>1. Status(a) = "free" /\ Status(a)' = "contested"
    BY <1>1, <1>3 DEF Status
  <2>2. \A b \in Ids \ {a} : Status(b)' = Status(b)
    BY <1>1, <1>3 DEF Status
  <2> QED BY <2>1, <2>2, TurnStep DEF Life!Contest
<1> QED BY <1>1, <1>2, <1>3

LEMMA LifeTurns == IInv /\ [Next]_vars => [Life!Next]_([a \in Ids |-> Status(a)])
<1> SUFFICES ASSUME IInv, [Next]_vars
             PROVE  Life!Next \/ UNCHANGED [a \in Ids |-> Status(a)]
  OBVIOUS
<1>1. ASSUME NEW r \in Requests, NEW form \in Forms, Create(r, form) PROVE Life!Next
  <2> PICK a \in Ids : a = Fresh
    BY <1>1, FreshRow DEF Create
  <2>1. /\ HasFresh /\ UNCHANGED raced
        /\ adj' = [adj EXCEPT ![a] = Saved(form)]
        /\ links' = links /\ links[a] = <<>>
    BY <1>1, FreshRow DEF Create, Book, IInv, RowInv
  <2>2. Life!Turn(a, "absent", "free")
    BY <2>1, SavedForm, BookingTurns
  <2> QED BY <2>2 DEF Life!Next, Life!Create
<1>2. ASSUME NEW r \in Requests, NEW amount \in Amounts, Move(r, amount) PROVE Life!Next
  <2> PICK row : row = Row("capital", amount, TRUE)
    OBVIOUS
  <2> PICK a \in Ids : a = Fresh
    BY <1>2, FreshRow DEF Move
  <2>1. IsRow(row) /\ ~row.deleted
    BY AmountsAssumption, NewRow DEF Kinds
  <2>2. /\ HasFresh /\ UNCHANGED raced
        /\ adj' = [adj EXCEPT ![a] = row]
        /\ links' = [links EXCEPT ![a] = <<amount>>]
    BY <1>2 DEF Move, Book
  <2>3. links'[a] # <<>> /\ \A b \in Ids \ {a} : links'[b] = links[b]
    BY <2>2, AmountsAssumption DEF IInv, RowInv
  <2>4. Life!Turn(a, "absent", "owned")
    BY <2>1, <2>2, <2>3, BookingTurns
  <2> QED BY <2>4 DEF Life!Next, Life!Move
<1>3. ASSUME NEW r \in Requests, NEW op \in {"edit", "delete", "link"}, NEW a \in Ids,
             Look(r, op, a)
      PROVE  Life!Next \/ UNCHANGED [b \in Ids |-> Status(b)]
  BY <1>3, LookingTurns DEF Life!Next
<1>4. ASSUME NEW r \in Requests, NEW form \in Forms, Edit(r, form)
      PROVE  UNCHANGED [a \in Ids |-> Status(a)]
  <2> PICK a \in Ids : a = req[r].id
    BY <1>4 DEF Edit, InHand, Hand, IInv, HandInv
  <2>1. Hand(r) /\ adj[a] # NoRow
    BY <1>4 DEF Edit, InHand, Hand, IInv, HandInv
  <2>2. a \notin raced => links[a] = <<>> /\ ~adj[a].deleted
    BY <2>1 DEF IInv, HandInv
  <2>3. adj' = [adj EXCEPT ![a] = Saved(form)] /\ UNCHANGED <<links, raced>>
    BY <1>4 DEF Edit, Book
  <2>4. Saved(form) # NoRow /\ ~Saved(form).deleted
    BY SavedForm, RowIsThere
  <2>5. \A b \in Ids : adj'[b] = IF b = a THEN Saved(form) ELSE adj[b]
    BY <2>1, <2>3 DEF IInv, RowInv
  <2>6. \A b \in Ids : Status(b)' = Status(b)
    BY <2>1, <2>2, <2>3, <2>4, <2>5 DEF Status
  <2> QED BY <2>6, NoTurn
<1>5. ASSUME NEW r \in Requests, Delete(r)
      PROVE  Life!Next \/ UNCHANGED [a \in Ids |-> Status(a)]
  <2> PICK a \in Ids : a = req[r].id
    BY <1>5 DEF Delete, InHand, Hand, IInv, HandInv
  <2> DEFINE row == [req[r].copy EXCEPT !.deleted = TRUE]
  <2>1. Hand(r) /\ IsRow(req[r].copy)
    BY <1>5 DEF Delete, InHand, Hand, IInv, HandInv
  <2>2. IsRow(row) /\ row.deleted
    BY <2>1, DeletedRow
  <2>3. /\ adj' = [adj EXCEPT ![a] = row] /\ UNCHANGED raced
        /\ links' = [links EXCEPT ![a] = links[a]]
    BY <1>5, <2>1 DEF Delete, Book, IInv, RowInv
  <2> HIDE DEF row
  <2>4. UNCHANGED [b \in Ids |-> Status(b)] \/ Life!Turn(a, "free", "deleted")
    BY <2>1, <2>2, <2>3, SavingTurns
  <2> QED BY <2>1, <2>4 DEF Life!Next, Life!Delete
<1>6. ASSUME NEW r \in Requests, Link(r)
      PROVE  Life!Next \/ UNCHANGED [a \in Ids |-> Status(a)]
  <2> PICK a \in Ids : a = req[r].id
    BY <1>6 DEF Link, InHand, Hand, IInv, HandInv
  <2> DEFINE copy == req[r].copy
  <2> PICK link : link = Append(links[a], copy.amount)
    OBVIOUS
  <2>1. /\ Hand(r) /\ req[r].op = "link" /\ adj[a] # NoRow
        /\ IsRow(copy) /\ copy.kind = "capital"
    BY <1>6 DEF Link, InHand, Hand, IInv, HandInv
  <2>2. copy.amount \in Int /\ links[a] \in Seq(Int)
    BY <2>1 DEF IsRow, IInv, RowInv
  <2>3. link # <<>>
    BY <2>2
  <2>4. /\ adj' = [adj EXCEPT ![a] = adj[a]] /\ IsRow(adj[a]) /\ UNCHANGED raced
        /\ links' = [links EXCEPT ![a] = link]
    BY <1>6, <2>1 DEF Link, IInv, RowInv
  <2>5. CASE adj[a].deleted
    <3>1. a \in raced
      BY <2>1, <2>5 DEF IInv, HandInv
    <3>2. \A b \in Ids : adj'[b] = adj[b] /\ (b # a => links'[b] = links[b])
      BY <2>4 DEF IInv, RowInv
    <3>3. \A b \in Ids : Status(b)' = Status(b)
      BY <2>4, <3>1, <3>2 DEF Status
    <3> QED BY <3>3, NoTurn
  <2>6. CASE ~adj[a].deleted
    <3>1. UNCHANGED [b \in Ids |-> Status(b)] \/ Life!Turn(a, "free", "owned")
      BY <2>1, <2>3, <2>4, <2>6, SavingTurns
    <3> QED BY <2>1, <3>1 DEF Life!Next, Life!Link
  <2> QED BY <2>5, <2>6
<1>7. ASSUME NEW r \in Requests, NEW s \in Sides, Correct(r, s)
      PROVE  Life!Next \/ UNCHANGED [a \in Ids |-> Status(a)]
  <2>1. CASE snap.diff[s] = 0
    <3>1. UNCHANGED <<adj, links, raced>>
      BY <1>7, <2>1 DEF Correct
    <3> QED BY <3>1, NoTurn DEF Status
  <2>2. CASE snap.diff[s] # 0
    <3> PICK a \in Ids : a = Fresh
      BY <1>7, <2>2, FreshRow DEF Correct
    <3> DEFINE row == Row(IF s = "bank" THEN "other" ELSE "usdt", snap.diff[s], TRUE)
    <3>1. IsRow(row) /\ ~row.deleted
      BY NewRow DEF Kinds
    <3>2. /\ HasFresh /\ UNCHANGED raced
          /\ adj' = [adj EXCEPT ![a] = row]
          /\ links' = links /\ links[a] = <<>>
      BY <1>7, <2>2, FreshRow DEF Correct, IInv, RowInv
    <3> HIDE DEF row
    <3>3. Life!Turn(a, "absent", "free")
      BY <3>1, <3>2, BookingTurns
    <3> QED BY <3>3 DEF Life!Next, Life!Create
  <2> QED BY <2>1, <2>2
<1>8. CASE \/ UNCHANGED vars
           \/ \E r \in Requests : \/ \E fact \in Facts : ReadOrders(r, fact)
                                 \/ ReadAdjustments(r) \/ Save(r)
                                 \/ Queue(r) \/ GiveUp(r)
           \/ HourlySync \/ Rebuild \/ \E t \in Trades : Trade(t)
           \/ \E to \in {"shown", "hidden", "inactive"} : Switch(to)
  <2>1. UNCHANGED <<adj, links, raced>>
    BY <1>8 DEF vars, ReadOrders, ReadAdjustments, Save, Queue, GiveUp, HourlySync,
                Rebuild, Switch, Trade
  <2> QED BY <2>1, NoTurn DEF Status
<1> QED
  BY <1>1, <1>2, <1>3, <1>4, <1>5, <1>6, <1>7, <1>8 DEF Next

(* However requests interleave and end, rows live as promised: those that  *)
(* two requests have in hand at once are the contested ones, and no other  *)
(* is linked twice, linked and deleted, or changed when linked.            *)
THEOREM RowsLiveAsPromised == Spec => ImplementsLife
<1>1. Init => Life!Init
  BY DEF Init, Life!Init, Status
<1> QED BY <1>1, LifeTurns, LifeInvariant, PTL DEF Spec, ImplementsLife, Life!Spec

-----------------------------------------------------------------------------
(* Induction over the subsets of a finite set: none of them is a smallest  *)
(* one outside G.                                                          *)
LEMMA SubsetDescent ==
  ASSUME NEW S, IsFiniteSet(S), NEW G,
         {} \in G,
         \A T \in SUBSET S : T # {} /\ (\A x \in T : T \ {x} \in G) => T \in G
  PROVE  SUBSET S \subseteq G
<1> DEFINE Bad == {T \in SUBSET S : T \notin G}
<1>1. SUFFICES ASSUME Bad # {} PROVE FALSE
  OBVIOUS
<1>2. IsWellFoundedOn(StrictSubsetOrdering(S), SUBSET S)
  BY FS_StrictSubsetOrderingWellFounded, FS_FiniteSubsetsOfFinite
<1>3. PICK T \in Bad : \A U \in Bad : ~(<<U, T>> \in StrictSubsetOrdering(S))
  <2>1. Bad \subseteq SUBSET S
    OBVIOUS
  <2> HIDE DEF Bad
  <2> QED BY <1>1, <1>2, <2>1, WFMin
<1>4. ASSUME NEW x \in T PROVE T \ {x} \in G
  <2>1. T \ {x} \in SUBSET S /\ <<T \ {x}, T>> \in StrictSubsetOrdering(S)
    BY <1>3, <1>4 DEF StrictSubsetOrdering
  <2> QED BY <1>3, <2>1
<1> QED BY <1>3, <1>4

(* The same from below: a set that holds {}, and with a subset of S each   *)
(* that has one element more, holds them all.                              *)
LEMMA SubsetInduction ==
  ASSUME NEW S, IsFiniteSet(S), NEW G,
         {} \in G,
         \A T \in SUBSET S : \A x \in S \ T : T \in G => T \cup {x} \in G
  PROVE  SUBSET S \subseteq G
<1>1. ASSUME NEW T \in SUBSET S, T # {}, \A x \in T : T \ {x} \in G
      PROVE  T \in G
  <2>1. PICK x \in T : TRUE
    BY <1>1
  <2>2. /\ T \ {x} \in SUBSET S /\ x \in S \ (T \ {x})
        /\ (T \ {x}) \cup {x} = T /\ T \ {x} \in G
    BY <1>1, <2>1
  <2> QED BY <2>2
<1> QED BY <1>1, SubsetDescent

(* A function on the subsets of S that adds up f.                          *)
Adds(g, f, S) ==
    /\ g \in [SUBSET S -> Int]
    /\ g[{}] = 0
    /\ \A T \in SUBSET S : \A x \in T : g[T] = f[x] + g[T \ {x}]

LEMMA SumExists ==
  ASSUME NEW S, IsFiniteSet(S), NEW f, \A x \in S : f[x] \in Int
  PROVE  \E g : Adds(g, f, S)
<1> DEFINE G == {T \in SUBSET S : \E g : Adds(g, f, T)}
<1>1. {} \in G
  <2> DEFINE g == [T \in SUBSET {} |-> 0]
  <2>1. Adds(g, f, {})
    BY DEF Adds
  <2> HIDE DEF g
  <2> QED BY <2>1
<1>2. ASSUME NEW T \in SUBSET S, NEW x \in S \ T, T \in G
      PROVE  T \cup {x} \in G
  <2>1. PICK g : Adds(g, f, T)
    BY <1>2
  <2> DEFINE h == [U \in SUBSET (T \cup {x}) |->
                     IF x \in U THEN f[x] + g[U \ {x}] ELSE g[U]]
  <2>2. h \in [SUBSET (T \cup {x}) -> Int]
    <3> SUFFICES ASSUME NEW U \in SUBSET (T \cup {x}) PROVE h[U] \in Int
      OBVIOUS
    <3>1. U \ {x} \in SUBSET T /\ (x \notin U => U \in SUBSET T) /\ f[x] \in Int
      OBVIOUS
    <3>2. g[U \ {x}] \in Int /\ (x \notin U => g[U] \in Int)
      BY <2>1, <3>1 DEF Adds
    <3> QED BY <3>1, <3>2
  <2>3. h[{}] = 0
    BY <2>1 DEF Adds
  <2>4. ASSUME NEW U \in SUBSET (T \cup {x}), NEW y \in U
        PROVE  h[U] = f[y] + h[U \ {y}]
    <3>1. CASE x \notin U
      <4>1. h[U] = g[U] /\ h[U \ {y}] = g[U \ {y}] /\ U \in SUBSET T
        BY <3>1
      <4> QED BY <2>1, <4>1 DEF Adds
    <3>2. CASE y = x
      <4>1. U \ {y} \in SUBSET (T \cup {x}) /\ x \notin U \ {y}
        BY <3>2
      <4> QED BY <3>2, <4>1
    <3>3. CASE x \in U /\ y # x
      <4>1. U \ {x} \in SUBSET T /\ y \in U \ {x} /\ U \ {y} \in SUBSET (T \cup {x})
            /\ x \in U \ {y} /\ (U \ {y}) \ {x} = (U \ {x}) \ {y}
            /\ (U \ {x}) \ {y} \in SUBSET T
        BY <3>3
      <4>2. g[U \ {x}] = f[y] + g[(U \ {x}) \ {y}] /\ g[(U \ {x}) \ {y}] \in Int
        BY <2>1, <4>1 DEF Adds
      <4>3. h[U] = f[x] + g[U \ {x}] /\ h[U \ {y}] = f[x] + g[(U \ {x}) \ {y}]
        BY <3>3, <4>1
      <4>4. f[x] \in Int /\ f[y] \in Int
        OBVIOUS
      <4> HIDE DEF h
      <4> QED BY <4>2, <4>3, <4>4
    <3> QED BY <3>1, <3>2, <3>3
  <2>5. Adds(h, f, T \cup {x})
    <3> HIDE DEF h
    <3> QED BY <2>2, <2>3, <2>4 DEF Adds
  <2>6. T \cup {x} \in SUBSET S
    OBVIOUS
  <2> HIDE DEF h
  <2> QED BY <2>5, <2>6
<1>3. SUBSET S \subseteq G
  <2> HIDE DEF G
  <2> QED BY <1>1, <1>2, SubsetInduction
<1> QED BY <1>3

(* The sum of the library is the one such function.                        *)
LEMMA SumIs ==
  ASSUME NEW S, IsFiniteSet(S), NEW f, NEW g, Adds(g, f, S)
  PROVE  SumFunctionOnSet(f, S) = g[S]
<1> DEFINE Pick(s) == CHOOSE x \in s : TRUE
           Folds(h) == h = [s \in SUBSET S |->
                              IF s = {} THEN 0 ELSE f[Pick(s)] + h[s \ {Pick(s)}]]
<1>1. SumFunctionOnSet(f, S) = (CHOOSE h : Folds(h))[S]
  BY DEF SumFunctionOnSet, FoldFunctionOnSet, MapThenFoldSet
<1>2. Folds(g)
  <2>1. ASSUME NEW s \in SUBSET S, s # {}
        PROVE  g[s] = f[Pick(s)] + g[s \ {Pick(s)}]
    <3>1. Pick(s) \in s
      BY <2>1
    <3> HIDE DEF Pick
    <3> QED BY <3>1 DEF Adds
  <2>2. g[{}] = 0 /\ g = [s \in SUBSET S |-> g[s]]
    BY DEF Adds
  <2> HIDE DEF Pick
  <2> QED BY <2>1, <2>2
<1>3. ASSUME NEW h, Folds(h) PROVE h[S] = g[S]
  <2> DEFINE G == {T \in SUBSET S : h[T] = g[T]}
  <2>1. {} \in G
    BY <1>3 DEF Adds
  <2>2. ASSUME NEW T \in SUBSET S, T # {}, \A x \in T : T \ {x} \in G
        PROVE  T \in G
    <3>1. Pick(T) \in T
      BY <2>2
    <3>2. h[T] = f[Pick(T)] + h[T \ {Pick(T)}]
      BY <1>3, <2>2
    <3> HIDE DEF Pick
    <3> QED BY <2>2, <3>1, <3>2 DEF Adds
  <2>3. SUBSET S \subseteq G
    <3> HIDE DEF G
    <3> QED BY <2>1, <2>2, SubsetDescent
  <2> QED BY <2>3
<1> HIDE DEF Folds
<1> QED BY <1>1, <1>2, <1>3

(* What is to be known of sums.                                            *)
LEMMA SumRules ==
  ASSUME NEW S, IsFiniteSet(S), NEW f, \A x \in S : f[x] \in Int
  PROVE  /\ SumFunctionOnSet(f, {}) = 0
         /\ \A T \in SUBSET S : SumFunctionOnSet(f, T) \in Int
         /\ \A T \in SUBSET S : \A x \in T :
              SumFunctionOnSet(f, T) = f[x] + SumFunctionOnSet(f, T \ {x})
<1>1. PICK g : Adds(g, f, S)
  BY SumExists
<1>2. ASSUME NEW T \in SUBSET S PROVE SumFunctionOnSet(f, T) = g[T]
  <2> DEFINE h == [U \in SUBSET T |-> g[U]]
  <2>1. Adds(h, f, T)
    BY <1>1 DEF Adds
  <2>2. IsFiniteSet(T)
    BY FS_Subset
  <2>3. h[T] = g[T]
    OBVIOUS
  <2> HIDE DEF h
  <2> QED BY <2>1, <2>2, <2>3, SumIs
<1>3. {} \in SUBSET S
  OBVIOUS
<1> QED BY <1>1, <1>2, <1>3 DEF Adds

(* Functions that differ in one place have sums that differ by as much.    *)
LEMMA SumOfChange ==
  ASSUME NEW S, IsFiniteSet(S), NEW f, NEW g, NEW x \in S,
         \A y \in S : f[y] \in Int /\ g[y] \in Int /\ (y # x => g[y] = f[y])
  PROVE  SumFunctionOnSet(g, S) = SumFunctionOnSet(f, S) + (g[x] - f[x])
<1> DEFINE R == S \ {x}
           G == {T \in SUBSET R : SumFunctionOnSet(g, T) = SumFunctionOnSet(f, T)}
<1>1. {} \in G
  BY SumRules
<1>2. ASSUME NEW T \in SUBSET R, NEW y \in R \ T, T \in G
      PROVE  T \cup {y} \in G
  <2> DEFINE U == T \cup {y}
  <2>1. U \in SUBSET S /\ U \in SUBSET R /\ y \in U /\ U \ {y} = T /\ g[y] = f[y]
    OBVIOUS
  <2>2. /\ SumFunctionOnSet(f, U) = f[y] + SumFunctionOnSet(f, T)
        /\ SumFunctionOnSet(g, U) = g[y] + SumFunctionOnSet(g, T)
    <3> HIDE DEF U, G
    <3> QED BY <2>1, SumRules
  <2> QED BY <1>2, <2>1, <2>2
<1>3. R \in G
  <2>1. IsFiniteSet(R) /\ R \in SUBSET R
    BY FS_Subset
  <2> HIDE DEF R, G
  <2> QED BY <1>1, <1>2, <2>1, SubsetInduction
<1>4. /\ SumFunctionOnSet(f, S) = f[x] + SumFunctionOnSet(f, R)
      /\ SumFunctionOnSet(g, S) = g[x] + SumFunctionOnSet(g, R)
      /\ SumFunctionOnSet(f, R) \in Int
  <2>1. S \in SUBSET S /\ R \in SUBSET S
    OBVIOUS
  <2> QED BY <2>1, SumRules
<1>5. SumFunctionOnSet(g, R) = SumFunctionOnSet(f, R)
  BY <1>3
<1> HIDE DEF R
<1> QED BY <1>4, <1>5

-----------------------------------------------------------------------------
(* What a row adds to the balance of a side.                               *)
Amount(rows, s) == [a \in Ids |-> IF Counts(rows[a], s) THEN rows[a].amount ELSE 0]

LEMMA AmountInt ==
  ASSUME NEW rows \in [Ids -> Rows \cup {NoRow}], NEW s
  PROVE  \A a \in Ids : Amount(rows, s)[a] \in Int
<1> SUFFICES ASSUME NEW a \in Ids PROVE Amount(rows, s)[a] \in Int
  OBVIOUS
<1>1. Counts(rows[a], s) => rows[a] \in Rows
  BY DEF Counts
<1>2. \A row \in Rows : row.amount \in Int
  BY DEF Rows
<1> QED BY <1>1, <1>2 DEF Amount

LEMMA BalanceIs ==
  ASSUME NEW rows, NEW s
  PROVE  Balance(rows, s) = SumFunctionOnSet(Amount(rows, s), Ids)
<1>1. DOMAIN Amount(rows, s) = Ids
  BY DEF Amount
<1> QED BY <1>1 DEF Balance, SumFunction, Amount

(* Balances are whole steps.                                               *)
LEMMA BalanceInt ==
  ASSUME NEW rows \in [Ids -> Rows \cup {NoRow}], NEW s
  PROVE  Balance(rows, s) \in Int
<1>1. Ids \in SUBSET Ids
  OBVIOUS
<1> QED BY <1>1, IdsAssumption, AmountInt, BalanceIs, SumRules

(* A row more that counts adds its amount to its side, and to no other.    *)
LEMMA BalanceOfNew ==
  ASSUME NEW rows \in [Ids -> Rows \cup {NoRow}], NEW a \in Ids, rows[a] = NoRow,
         NEW row \in Rows, row.counted, ~row.deleted, NEW s
  PROVE  Balance([rows EXCEPT ![a] = row], s)
           = Balance(rows, s) + (IF Side(row.kind) = s THEN row.amount ELSE 0)
<1> DEFINE after == [rows EXCEPT ![a] = row]
           f == Amount(rows, s)
           g == Amount(after, s)
           n == IF Side(row.kind) = s THEN row.amount ELSE 0
<1>1. /\ after \in [Ids -> Rows \cup {NoRow}] /\ after[a] = row
      /\ \A b \in Ids : b # a => after[b] = rows[b]
  OBVIOUS
<1> HIDE DEF after
<1>2. \A b \in Ids : f[b] \in Int /\ g[b] \in Int
  BY <1>1, AmountInt
<1>3. \A b \in Ids : b # a => g[b] = f[b]
  BY <1>1 DEF Amount
<1>4. f[a] = 0
  BY DEF Amount, Counts
<1>5. g[a] = n
  <2>1. row # NoRow
    BY DEF Rows, NoRow, Kinds
  <2> QED BY <1>1, <2>1 DEF Amount, Counts
<1> HIDE DEF f, g
<1>6. SumFunctionOnSet(g, Ids) = SumFunctionOnSet(f, Ids) + (g[a] - f[a])
  BY <1>2, <1>3, IdsAssumption, SumOfChange
<1>7. /\ Balance(after, s) = SumFunctionOnSet(g, Ids)
      /\ Balance(rows, s) = SumFunctionOnSet(f, Ids)
  BY BalanceIs DEF f, g
<1>8. n \in Int
  BY DEF Rows
<1> HIDE DEF n
<1>9. g[a] - f[a] = n
  BY <1>4, <1>5, <1>8
<1> QED BY <1>6, <1>7, <1>9 DEF after, n

-----------------------------------------------------------------------------
RequestStates ==
    {Idle} \cup [op : {"edit", "delete", "link"}, pc : {"hand"}, id : Ids,
                 copy : Rows, own : BOOLEAN]
          \cup [op : {"none"}, pc : {"queue"}, id : {"none"}, copy : {NoRow},
                own : BOOLEAN]
          \cup [op : {"check"}, pc : {"orders", "state"}, fact : [Sides -> Int],
                state : [Sides -> Int]]
Snapshots == [by : Requests, fact : [Sides -> Int], diff : [Sides -> Int],
              booked : [Sides -> Nat]]
Sums == [Requests -> [Sides -> Int]]
Tables == [Ids -> Rows \cup {NoRow}]

(* What a request has in hand is a row.                                    *)
LEMMA HandType ==
  ASSUME TypeOK, NEW r \in Requests, req[r].pc = "hand"
  PROVE  req[r].id \in Ids /\ req[r].copy \in Rows /\ req[r].own \in BOOLEAN
<1>1. req[r] \in RequestStates
  BY DEF TypeOK, RequestStates
<1>2. req[r] # Idle
  BY DEF Idle
<1>3. req[r].id \in Ids /\ req[r].copy \in Rows
  BY <1>1, <1>2 DEF RequestStates
<1>4. req[r].own \in BOOLEAN
  BY <1>1, <1>2 DEF RequestStates
<1> QED BY <1>3, <1>4

(* And what a reconciliation has read are amounts.                         *)
LEMMA CheckType ==
  ASSUME TypeOK, NEW r \in Requests, req[r].pc \in {"orders", "state"}
  PROVE  req[r].fact \in [Sides -> Int] /\ req[r].state \in [Sides -> Int]
<1>1. req[r] \in RequestStates
  BY DEF TypeOK, RequestStates
<1>2. req[r] # Idle
  BY DEF Idle
<1> QED BY <1>1, <1>2 DEF RequestStates

LEMMA CheckIsState ==
  ASSUME NEW pc \in {"orders", "state"}, NEW fact \in [Sides -> Int],
         NEW state \in [Sides -> Int]
  PROVE  /\ Check(pc, fact, state) \in RequestStates
         /\ Check(pc, fact, state).pc = pc /\ Check(pc, fact, state).fact = fact
         /\ Check(pc, fact, state).state = state
  BY DEF Check, RequestStates

LEMMA CommittedType ==
  ASSUME TypeOK, NEW r \in Requests, NEW own \in BOOLEAN, Committed(r, own)
  PROVE  req' \in [Requests -> RequestStates]
<1>1. [Idle EXCEPT !.pc = "queue", !.own = own] \in RequestStates
  BY DEF Idle, RequestStates
<1> QED BY <1>1 DEF Committed, TypeOK, RequestStates

LEMMA IdleType ==
  ASSUME TypeOK, NEW r \in Requests, req' = [req EXCEPT ![r] = Idle]
  PROVE  req' \in [Requests -> RequestStates]
  BY DEF TypeOK, RequestStates

LEMMA RowType ==
  ASSUME NEW kind \in Kinds, NEW amount \in Int, NEW counted \in BOOLEAN
  PROVE  /\ Row(kind, amount, counted) \in Rows
         /\ Row(kind, amount, counted).counted = counted
         /\ ~Row(kind, amount, counted).deleted
         /\ Row(kind, amount, counted).kind = kind
         /\ Row(kind, amount, counted).amount = amount
  BY DEF Row, Rows

LEMMA ChangeType == ASSUME TypeOK, Change PROVE changes' \in 0..MaxChanges
  BY ChangesAssumption DEF TypeOK, Change

(* A booking keeps rows and sums whole.                                    *)
LEMMA BookType ==
  ASSUME TypeOK, NEW rows \in Tables, Book(rows)
  PROVE  adj' \in Tables /\ moved' \in Sums
<1>1. \A r \in Requests, s \in Sides : moved[r][s] + Balance(rows, s) - Balance(adj, s) \in Int
  <2> SUFFICES ASSUME NEW r \in Requests, NEW s \in Sides
               PROVE  moved[r][s] + Balance(rows, s) - Balance(adj, s) \in Int
    OBVIOUS
  <2>1. moved[r][s] \in Int /\ adj \in Tables
    BY DEF TypeOK, Tables
  <2>2. Balance(rows, s) \in Int /\ Balance(adj, s) \in Int
    BY <2>1, BalanceInt DEF Tables
  <2> QED BY <2>1, <2>2
<1> QED BY <1>1 DEF Book, TypeOK, Sums

(* Every variable keeps its type, however requests interleave: amounts     *)
(* stay whole steps, and what a request has in hand is a row.              *)
THEOREM TypeCorrect == Spec => []TypeOK
<1>1. Init => TypeOK
  <2> SUFFICES ASSUME Init PROVE TypeOK
    OBVIOUS
  <2>1. Idle \in RequestStates /\ <<>> \in Seq(Int) /\ Nothing \in [Sides -> Int]
    BY DEF RequestStates, Nothing
  <2>2. /\ adj \in Tables /\ links \in [Ids -> Seq(Int)]
        /\ req \in [Requests -> RequestStates]
    BY <2>1 DEF Init, Tables
  <2>3. /\ ledger \in [Sides -> Int] /\ traded \in [Sides -> Int] /\ raced \subseteq Ids
        /\ moved \in Sums /\ changes \in 0..MaxChanges
    BY <2>1, ChangesAssumption DEF Init, Sums
  <2> QED BY <2>2, <2>3 DEF Init, TypeOK, Tables, RequestStates, Sums
<1>2. TypeOK /\ [Next]_vars => TypeOK'
  <2> SUFFICES ASSUME TypeOK, [Next]_vars PROVE TypeOK'
    OBVIOUS
  <2>1. /\ adj \in Tables /\ links \in [Ids -> Seq(Int)]
        /\ req \in [Requests -> RequestStates] /\ snap \in {NoSnapshot} \cup Snapshots
        /\ account \in {"shown", "hidden", "inactive"} /\ rebuild \in BOOLEAN
        /\ ledger \in [Sides -> Int] /\ traded \in [Sides -> Int] /\ raced \subseteq Ids
        /\ moved \in Sums /\ changes \in 0..MaxChanges
    BY DEF TypeOK, Tables, RequestStates, Snapshots, Sums
  <2> DEFINE Typed == /\ adj' \in Tables /\ links' \in [Ids -> Seq(Int)]
                      /\ req' \in [Requests -> RequestStates]
                      /\ snap' \in {NoSnapshot} \cup Snapshots
                      /\ account' \in {"shown", "hidden", "inactive"}
                      /\ rebuild' \in BOOLEAN /\ ledger' \in [Sides -> Int]
                      /\ traded' \in [Sides -> Int] /\ raced' \subseteq Ids
                      /\ moved' \in Sums /\ changes' \in 0..MaxChanges
  <2>2. SUFFICES Typed
    BY DEF TypeOK, Tables, RequestStates, Snapshots, Sums
  <2>3. \A form \in Forms : Saved(form) \in Rows
    <3> TAKE form \in Forms
    <3>1. form.kind \in Kinds /\ form.amount \in Int /\ form.counted \in BOOLEAN
      BY FormsAssumption
    <3> QED BY <3>1, RowType DEF Saved
  <2>4. \A a \in Ids, row \in Rows : [adj EXCEPT ![a] = row] \in Tables
    BY <2>1 DEF Tables
  <2>5. ASSUME NEW r \in Requests, NEW form \in Forms, Create(r, form) PROVE Typed
    <3>1. adj' \in Tables /\ moved' \in Sums
      BY <2>3, <2>4, <2>5, FreshRow, BookType DEF Create
    <3>2. req' \in [Requests -> RequestStates] /\ changes' \in 0..MaxChanges
      BY <2>5, CommittedType, ChangeType DEF Create
    <3> QED BY <2>1, <2>5, <3>1, <3>2 DEF Create
  <2>6. ASSUME NEW r \in Requests, NEW amount \in Amounts, Move(r, amount) PROVE Typed
    <3>1. amount \in Int
      BY AmountsAssumption
    <3>2. adj' \in Tables /\ moved' \in Sums
      <4>1. Row("capital", amount, TRUE) \in Rows
        BY <3>1, RowType DEF Kinds
      <4> QED BY <2>4, <2>6, <4>1, FreshRow, BookType DEF Move
    <3>3. req' \in [Requests -> RequestStates] /\ changes' \in 0..MaxChanges
      BY <2>6, CommittedType, ChangeType DEF Move
    <3>4. links' \in [Ids -> Seq(Int)]
      <4>1. <<amount>> \in Seq(Int)
        BY <3>1
      <4> QED BY <2>1, <2>6, <4>1 DEF Move
    <3> QED BY <2>1, <2>6, <3>2, <3>3, <3>4 DEF Move
  <2>7. ASSUME NEW r \in Requests, NEW op \in {"edit", "delete", "link"}, NEW a \in Ids,
               Look(r, op, a)
        PROVE  Typed
    <3>1. adj[a] \in Rows
      BY <2>1, <2>7 DEF Look, Tables
    <3>2. [op |-> op, pc |-> "hand", id |-> a, copy |-> adj[a],
           own |-> op = "delete" \/ account = "shown"] \in RequestStates
      BY <3>1 DEF RequestStates
    <3>3. req' \in [Requests -> RequestStates]
      BY <2>1, <2>7, <3>2 DEF Look
    <3>4. raced' \subseteq Ids
      BY <2>1, <2>7 DEF Look
    <3> QED BY <2>1, <2>7, <3>3, <3>4 DEF Look
  <2>8. ASSUME NEW r \in Requests, NEW form \in Forms, Edit(r, form) PROVE Typed
    <3>1. req[r].id \in Ids /\ req[r].own \in BOOLEAN
      BY <2>8, HandType DEF Edit, InHand
    <3>2. adj' \in Tables /\ moved' \in Sums
      BY <2>3, <2>4, <2>8, <3>1, BookType DEF Edit
    <3>3. req' \in [Requests -> RequestStates] /\ changes' \in 0..MaxChanges
      BY <2>8, <3>1, CommittedType, ChangeType DEF Edit
    <3> QED BY <2>1, <2>8, <3>2, <3>3 DEF Edit
  <2>9. ASSUME NEW r \in Requests, Delete(r) PROVE Typed
    <3>1. req[r].id \in Ids /\ req[r].own \in BOOLEAN /\ req[r].copy \in Rows
      BY <2>9, HandType DEF Delete, InHand
    <3>2. adj' \in Tables /\ moved' \in Sums
      <4>1. [req[r].copy EXCEPT !.deleted = TRUE] \in Rows
        BY <3>1 DEF Rows
      <4> QED BY <2>4, <2>9, <3>1, <4>1, BookType DEF Delete
    <3>3. req' \in [Requests -> RequestStates] /\ changes' \in 0..MaxChanges
      BY <2>9, <3>1, CommittedType, ChangeType DEF Delete
    <3> QED BY <2>1, <2>9, <3>2, <3>3 DEF Delete
  <2>10. ASSUME NEW r \in Requests, Link(r) PROVE Typed
    <3>1. req[r].id \in Ids /\ req[r].copy.amount \in Int
      BY <2>10, HandType DEF Link, InHand, Rows
    <3>2. links' \in [Ids -> Seq(Int)]
      <4>1. Append(links[req[r].id], req[r].copy.amount) \in Seq(Int)
        BY <2>1, <3>1
      <4> QED BY <2>1, <2>10, <3>1, <4>1 DEF Link
    <3>3. req' \in [Requests -> RequestStates] /\ changes' \in 0..MaxChanges
      BY <2>10, IdleType, ChangeType DEF Link
    <3> QED BY <2>1, <2>10, <3>2, <3>3 DEF Link
  <2>11. ASSUME NEW r \in Requests,
                \/ \E fact \in Facts : ReadOrders(r, fact)
                \/ ReadAdjustments(r) \/ Save(r)
         PROVE  Typed
    <3>1. CASE \E fact \in Facts : ReadOrders(r, fact)
      <4>1. PICK fact \in Facts : ReadOrders(r, fact)
        BY <3>1
      <4>2. Check("orders", fact, traded) \in RequestStates
        BY <2>1, FactsAssumption, CheckIsState
      <4>3. req' \in [Requests -> RequestStates]
        BY <2>1, <4>1, <4>2 DEF ReadOrders
      <4> QED BY <2>1, <4>1, <4>3 DEF ReadOrders
    <3>2. CASE ReadAdjustments(r)
      <4> DEFINE state == [s \in Sides |-> req[r].state[s] + Balance(adj, s)]
      <4>1. req[r].fact \in [Sides -> Int] /\ req[r].state \in [Sides -> Int]
        BY <3>2, CheckType DEF ReadAdjustments
      <4>2. state \in [Sides -> Int]
        <5>1. \A s \in Sides : req[r].state[s] \in Int /\ Balance(adj, s) \in Int
          BY <2>1, <4>1, BalanceInt DEF Tables
        <5> QED BY <5>1
      <4>3. req' = [req EXCEPT ![r] = Check("state", req[r].fact, state)]
        BY <3>2 DEF ReadAdjustments
      <4> HIDE DEF state
      <4>4. req' \in [Requests -> RequestStates]
        BY <2>1, <4>1, <4>2, <4>3, CheckIsState
      <4> QED BY <2>1, <3>2, <4>4 DEF ReadAdjustments
    <3>3. CASE Save(r)
      <4>1. req[r].fact \in [Sides -> Int] /\ req[r].state \in [Sides -> Int]
        BY <3>3, CheckType DEF Save
      <4>2. snap' \in Snapshots
        BY <3>3, <4>1 DEF Save, Snapshots, Nothing
      <4>3. req' \in [Requests -> RequestStates] /\ changes' \in 0..MaxChanges
        BY <3>3, IdleType, ChangeType DEF Save
      <4>4. moved' \in Sums
        BY <2>1, <3>3 DEF Save, Sums, Nothing
      <4> QED BY <2>1, <3>3, <4>2, <4>3, <4>4 DEF Save
    <3> QED BY <2>11, <3>1, <3>2, <3>3
  <2>12. ASSUME NEW r \in Requests, NEW s \in Sides, Correct(r, s) PROVE Typed
    <3>1. req' \in [Requests -> RequestStates] /\ changes' \in 0..MaxChanges
      BY <2>12, CommittedType, ChangeType DEF Correct
    <3>2. adj' \in Tables /\ snap' \in {NoSnapshot} \cup Snapshots
      <4>1. CASE snap.diff[s] = 0
        BY <2>1, <2>12, <4>1 DEF Correct
      <4>2. CASE snap.diff[s] # 0
        <5>1. snap \in Snapshots /\ snap.diff[s] \in Int
          BY <2>1, <2>12 DEF Correct, Snapshots
        <5>2. Row(IF s = "bank" THEN "other" ELSE "usdt", snap.diff[s], TRUE) \in Rows
          BY <5>1, RowType DEF Kinds
        <5>3. adj' \in Tables
          BY <2>4, <2>12, <4>2, <5>2, FreshRow DEF Correct
        <5>4. snap' \in Snapshots
          BY <2>12, <4>2, <5>1 DEF Correct, Snapshots
        <5> QED BY <5>3, <5>4
      <4> QED BY <4>1, <4>2
    <3> QED BY <2>1, <2>12, <3>1, <3>2 DEF Correct
  <2>13. ASSUME NEW r \in Requests, Queue(r) PROVE Typed
    <3>1. (rebuild \/ req[r].own) \in BOOLEAN
      OBVIOUS
    <3> QED BY <2>1, <2>13, <3>1, IdleType DEF Queue
  <2>14. ASSUME NEW r \in Requests, GiveUp(r) PROVE Typed
    <3>1. moved' \in Sums
      BY <2>1, <2>14 DEF GiveUp, Sums, Nothing
    <3> QED BY <2>1, <2>14, <3>1, IdleType DEF GiveUp
  <2>15. CASE Rebuild
    <3>1. \A s \in Sides : Balance(adj, s) \in Int
      BY <2>1, BalanceInt DEF Tables
    <3>2. ledger' \in [Sides -> Int]
      BY <2>15, <3>1 DEF Rebuild, Balances
    <3> QED BY <2>1, <2>15, <3>2 DEF Rebuild
  <2>16. ASSUME UNCHANGED vars \/ HourlySync
                  \/ \E to \in {"shown", "hidden", "inactive"} : Switch(to)
         PROVE  Typed
    BY <2>1, <2>16 DEF vars, HourlySync, Switch
  <2>17. ASSUME NEW t \in Trades, Trade(t) PROVE Typed
    <3>1. t \in [Sides -> Int]
      BY FactsAssumption
    <3>2. traded' \in [Sides -> Int] /\ moved' \in Sums
      BY <2>1, <2>17, <3>1 DEF Trade, Sums
    <3> QED BY <2>1, <2>17, <3>2, ChangeType DEF Trade
  <2> HIDE DEF Typed
  <2> QED BY <2>5, <2>6, <2>7, <2>8, <2>9, <2>10, <2>11, <2>12, <2>13, <2>14, <2>15, <2>16,
             <2>17
          DEF Next
<1> QED BY <1>1, <1>2, PTL DEF Spec

-----------------------------------------------------------------------------
(* What a reconciliation has read is off the books by what moved since.    *)
ReadIsDated(r) ==
    snap = NoSnapshot =>
        /\ req[r].pc = "orders" =>
             \A s \in Sides : traded[s] = req[r].state[s] + moved[r][s]
        /\ req[r].pc = "state" =>
             \A s \in Sides : traded[s] + Balance(adj, s) = req[r].state[s] + moved[r][s]
        /\ req[r].pc \notin {"orders", "state"} => moved[r] = Nothing

SettleInv == (\A r \in Requests : ReadIsDated(r)) /\ CorrectionSettles

LEMMA NotSnapshot == \A s \in Snapshots : s # NoSnapshot /\ s.by \in Requests
  BY DEF Snapshots, NoSnapshot

LEMMA Integers ==
  ASSUME TypeOK
  PROVE  /\ adj \in Tables
         /\ \A s \in Sides : traded[s] \in Int /\ Balance(adj, s) \in Int
         /\ \A r \in Requests, s \in Sides : moved[r][s] \in Int
         /\ \A r \in Requests : req[r].pc \in {"orders", "state"} =>
              \A s \in Sides : req[r].fact[s] \in Int /\ req[r].state[s] \in Int
         /\ snap # NoSnapshot =>
              /\ snap \in Snapshots /\ snap.by \in Requests
              /\ \A s \in Sides : /\ snap.fact[s] \in Int
                                  /\ (snap.booked[s] - 1) * snap.diff[s] \in Int
<1>1. adj \in Tables /\ traded \in [Sides -> Int] /\ moved \in [Requests -> [Sides -> Int]]
      /\ (snap # NoSnapshot => snap \in Snapshots)
  BY DEF TypeOK, Tables, Snapshots
<1>2. \A s \in Sides : Balance(adj, s) \in Int
  BY <1>1, BalanceInt DEF Tables
<1>3. ASSUME snap # NoSnapshot, NEW s \in Sides
      PROVE  snap.by \in Requests /\ snap.fact[s] \in Int
             /\ (snap.booked[s] - 1) * snap.diff[s] \in Int
  <2>1. snap.by \in Requests /\ snap.fact[s] \in Int /\ snap.booked[s] \in Int
        /\ snap.diff[s] \in Int
    BY <1>1, <1>3 DEF Snapshots
  <2>2. \A m, n \in Int : (m - 1) * n \in Int
    OBVIOUS
  <2> QED BY <2>1, <2>2
<1>4. snap # NoSnapshot => snap.by \in Requests
  BY <1>1 DEF Snapshots
<1> QED BY <1>1, <1>2, <1>3, <1>4, CheckType

(* A request that does not reconcile lets go, and nothing moves.           *)
LEMMA RestSettles ==
  ASSUME TypeOK, SettleInv, NEW r \in Requests, NEW after,
         req[r].pc \notin {"orders", "state"}, after.pc \notin {"orders", "state"},
         req' = [req EXCEPT ![r] = after], UNCHANGED <<adj, snap, traded, moved>>
  PROVE  SettleInv'
<1>1. \A q \in Requests : req'[q] = IF q = r THEN after ELSE req[q]
  BY DEF TypeOK
<1>2. ASSUME NEW q \in Requests PROVE ReadIsDated(q)'
  BY <1>1 DEF SettleInv, ReadIsDated
<1>3. CorrectionSettles'
  BY DEF SettleInv, CorrectionSettles
<1> QED BY <1>2, <1>3 DEF SettleInv

(* Whatever is booked, edited or deleted goes to rows and to moved alike.  *)
LEMMA BookSettles ==
  ASSUME TypeOK, SettleInv, NEW r \in Requests, NEW rows \in Tables, Book(rows),
         NEW own, Committed(r, own),
         req[r].pc \notin {"orders", "state"}, UNCHANGED <<snap, traded>>
  PROVE  SettleInv'
<1>1. /\ adj' = rows /\ \A s \in Sides : Balance(rows, s) \in Int
      /\ \A q \in Requests : moved'[q] =
            IF HasState(q)
            THEN [s \in Sides |-> moved[q][s] + Balance(rows, s) - Balance(adj, s)]
            ELSE moved[q]
  BY BalanceInt DEF Book, Tables
<1>2. /\ \A q \in Requests \ {r} : req'[q] = req[q]
      /\ req'[r].pc = "queue"
  BY DEF Committed, TypeOK, Idle
<1>3. ASSUME NEW q \in Requests PROVE ReadIsDated(q)'
  <2> SUFFICES ASSUME snap = NoSnapshot PROVE ReadIsDated(q)'
    BY DEF ReadIsDated
  <2>1. ReadIsDated(q)
    BY DEF SettleInv
  <2>2. CASE q # r /\ req[q].pc = "state"
    <3>1. \A s \in Sides : moved'[q][s] = moved[q][s] + Balance(rows, s) - Balance(adj, s)
      BY <1>1, <2>2 DEF HasState
    <3>2. \A s \in Sides : traded[s] + Balance(adj, s) = req[q].state[s] + moved[q][s]
      BY <2>1, <2>2 DEF ReadIsDated
    <3>3. ASSUME NEW s \in Sides
          PROVE  traded[s] + Balance(rows, s) = req[q].state[s] + moved'[q][s]
      BY <1>1, <2>2, <3>1, <3>2, Integers
    <3> QED BY <1>1, <1>2, <2>2, <3>3 DEF ReadIsDated
  <2>3. CASE q = r \/ req[q].pc # "state"
    <3>1. moved'[q] = moved[q]
      BY <1>1, <2>3 DEF HasState
    <3> QED BY <1>1, <1>2, <2>1, <2>3, <3>1 DEF ReadIsDated
  <2> QED BY <2>2, <2>3
<1>4. CorrectionSettles'
  <2> SUFFICES ASSUME snap # NoSnapshot, NEW s \in Sides
               PROVE  traded[s] + Balance(rows, s)
                        = snap.fact[s] + (snap.booked[s] - 1) * snap.diff[s]
                            + moved'[snap.by][s]
    BY <1>1 DEF CorrectionSettles
  <2> DEFINE k == (snap.booked[s] - 1) * snap.diff[s]
  <2>1. /\ k \in Int /\ snap.by \in Requests /\ snap.fact[s] \in Int
        /\ traded[s] \in Int /\ Balance(adj, s) \in Int /\ moved[snap.by][s] \in Int
    BY Integers
  <2>2. moved'[snap.by][s] = moved[snap.by][s] + Balance(rows, s) - Balance(adj, s)
    BY <1>1, <2>1 DEF HasState
  <2>3. traded[s] + Balance(adj, s) = snap.fact[s] + k + moved[snap.by][s]
    BY DEF SettleInv, CorrectionSettles
  <2> HIDE DEF k
  <2>4. traded[s] + Balance(rows, s) = snap.fact[s] + k + moved'[snap.by][s]
    BY <1>1, <2>1, <2>2, <2>3
  <2> QED BY <2>4 DEF k
<1> QED BY <1>3, <1>4 DEF SettleInv

(* So does what is traded, once the orders have been read.                 *)
LEMMA TradeSettles ==
  ASSUME TypeOK, SettleInv, NEW t \in Trades, Trade(t)
  PROVE  SettleInv'
<1>1. /\ \A s \in Sides : t[s] \in Int /\ traded'[s] = traded[s] + t[s]
      /\ UNCHANGED <<adj, req, snap>>
      /\ \A q \in Requests : moved'[q] =
            IF HasOrders(q) THEN [s \in Sides |-> moved[q][s] + t[s]] ELSE moved[q]
  BY FactsAssumption DEF Trade
<1>2. ASSUME NEW q \in Requests PROVE ReadIsDated(q)'
  <2> SUFFICES ASSUME snap = NoSnapshot PROVE ReadIsDated(q)'
    BY <1>1 DEF ReadIsDated
  <2>1. ReadIsDated(q)
    BY DEF SettleInv
  <2>2. CASE req[q].pc \in {"orders", "state"}
    <3>1. \A s \in Sides : moved'[q][s] = moved[q][s] + t[s]
      BY <1>1, <2>2 DEF HasOrders, HasState
    <3>2. ASSUME NEW s \in Sides, traded[s] = req[q].state[s] + moved[q][s]
          PROVE  traded'[s] = req[q].state[s] + moved'[q][s]
      BY <1>1, <2>2, <3>1, <3>2, Integers
    <3>3. ASSUME NEW s \in Sides,
                 traded[s] + Balance(adj, s) = req[q].state[s] + moved[q][s]
          PROVE  traded'[s] + Balance(adj, s) = req[q].state[s] + moved'[q][s]
      BY <1>1, <2>2, <3>1, <3>3, Integers
    <3> QED BY <1>1, <2>1, <2>2, <3>2, <3>3 DEF ReadIsDated
  <2>3. CASE req[q].pc \notin {"orders", "state"}
    <3>1. moved'[q] = moved[q]
      BY <1>1, <2>3 DEF HasOrders, HasState
    <3> QED BY <1>1, <2>1, <2>3, <3>1 DEF ReadIsDated
  <2> QED BY <2>2, <2>3
<1>3. CorrectionSettles'
  <2> SUFFICES ASSUME snap # NoSnapshot, NEW s \in Sides
               PROVE  traded'[s] + Balance(adj, s)
                        = snap.fact[s] + (snap.booked[s] - 1) * snap.diff[s]
                            + moved'[snap.by][s]
    BY <1>1 DEF CorrectionSettles
  <2> DEFINE k == (snap.booked[s] - 1) * snap.diff[s]
  <2>1. /\ k \in Int /\ snap.by \in Requests /\ snap.fact[s] \in Int
        /\ traded[s] \in Int /\ Balance(adj, s) \in Int /\ moved[snap.by][s] \in Int
    BY Integers
  <2>2. moved'[snap.by][s] = moved[snap.by][s] + t[s]
    BY <1>1, <2>1 DEF HasOrders, HasState
  <2>3. traded[s] + Balance(adj, s) = snap.fact[s] + k + moved[snap.by][s]
    BY DEF SettleInv, CorrectionSettles
  <2> HIDE DEF k
  <2>4. traded'[s] + Balance(adj, s) = snap.fact[s] + k + moved'[snap.by][s]
    BY <1>1, <2>1, <2>2, <2>3
  <2> QED BY <2>4 DEF k
<1> QED BY <1>2, <1>3 DEF SettleInv

(* The two statements of a reconciliation.                                 *)
LEMMA ReadSettles ==
  ASSUME TypeOK, SettleInv, NEW r \in Requests,
         (\E fact \in Facts : ReadOrders(r, fact)) \/ ReadAdjustments(r)
  PROVE  SettleInv'
<1>1. snap = NoSnapshot /\ UNCHANGED <<adj, snap, traded, moved>>
  BY DEF ReadOrders, ReadAdjustments
<1>2. \A q \in Requests \ {r} : req'[q] = req[q]
  BY DEF ReadOrders, ReadAdjustments, TypeOK
<1>3. ASSUME NEW q \in Requests \ {r} PROVE ReadIsDated(q)'
  BY <1>1, <1>2 DEF SettleInv, ReadIsDated
<1>4. ASSUME \E fact \in Facts : ReadOrders(r, fact) PROVE ReadIsDated(r)'
  <2>1. req[r] = Idle /\ req'[r].pc = "orders" /\ req'[r].state = traded
    BY <1>4 DEF ReadOrders, Free, TypeOK, Check
  <2>2. moved[r] = Nothing
    BY <1>1, <2>1 DEF SettleInv, ReadIsDated, Idle
  <2>3. \A s \in Sides : traded[s] = req'[r].state[s] + moved[r][s]
    BY <2>1, <2>2, Integers DEF Nothing
  <2> QED BY <1>1, <2>1, <2>3 DEF ReadIsDated
<1>5. ASSUME ReadAdjustments(r) PROVE ReadIsDated(r)'
  <2>1. /\ req[r].pc = "orders" /\ req'[r].pc = "state"
        /\ \A s \in Sides : req'[r].state[s] = req[r].state[s] + Balance(adj, s)
    BY <1>5 DEF ReadAdjustments, TypeOK, Check
  <2>2. \A s \in Sides : traded[s] = req[r].state[s] + moved[r][s]
    BY <1>1, <2>1 DEF SettleInv, ReadIsDated
  <2>3. ASSUME NEW s \in Sides
        PROVE  traded[s] + Balance(adj, s) = req'[r].state[s] + moved[r][s]
    BY <2>1, <2>2, Integers
  <2> QED BY <1>1, <2>1, <2>3 DEF ReadIsDated
<1>6. ReadIsDated(r)'
  BY <1>4, <1>5
<1>7. CorrectionSettles'
  BY <1>1 DEF CorrectionSettles
<1> QED BY <1>3, <1>6, <1>7 DEF SettleInv

(* The books as the reconciliation found them, one correction short.       *)
LEMMA SaveSettles ==
  ASSUME TypeOK, SettleInv, NEW r \in Requests, Save(r)
  PROVE  SettleInv'
<1>1. /\ snap = NoSnapshot /\ req[r].pc = "state" /\ moved'[r] = moved[r]
      /\ UNCHANGED <<adj, traded>>
      /\ snap' = [by |-> r, fact |-> req[r].fact, booked |-> Nothing,
                  diff |-> [s \in Sides |-> req[r].fact[s] - req[r].state[s]]]
  BY DEF Save
<1>2. snap' # NoSnapshot
  BY <1>1 DEF NoSnapshot
<1>3. ASSUME NEW s \in Sides
      PROVE  traded[s] + Balance(adj, s)
               = snap'.fact[s] + (snap'.booked[s] - 1) * snap'.diff[s] + moved[r][s]
  <2>1. /\ traded[s] \in Int /\ Balance(adj, s) \in Int /\ moved[r][s] \in Int
        /\ req[r].fact[s] \in Int /\ req[r].state[s] \in Int
    BY <1>1, Integers
  <2>2. /\ snap'.fact[s] = req[r].fact[s] /\ snap'.booked[s] = 0
        /\ snap'.diff[s] = req[r].fact[s] - req[r].state[s]
    BY <1>1 DEF Nothing
  <2>3. traded[s] + Balance(adj, s) = req[r].state[s] + moved[r][s]
    BY <1>1 DEF SettleInv, ReadIsDated
  <2>4. \A m, n, k \in Int : n + k = m + (0 - 1) * (m - n) + k
    OBVIOUS
  <2> QED BY <2>1, <2>2, <2>3, <2>4
<1>4. snap'.by = r
  BY <1>1
<1> QED BY <1>1, <1>2, <1>3, <1>4 DEF SettleInv, ReadIsDated, CorrectionSettles

LEMMA GiveUpSettles ==
  ASSUME TypeOK, SettleInv, NEW r \in Requests, GiveUp(r)
  PROVE  SettleInv'
<1>1. /\ UNCHANGED <<adj, snap, traded>>
      /\ \A q \in Requests : req'[q] = IF q = r THEN Idle ELSE req[q]
  BY DEF GiveUp, TypeOK
<1>2. ASSUME NEW q \in Requests PROVE ReadIsDated(q)'
  <2> SUFFICES ASSUME snap = NoSnapshot PROVE ReadIsDated(q)'
    BY <1>1 DEF ReadIsDated
  <2>1. moved'[q] = IF q = r THEN Nothing ELSE moved[q]
    BY DEF GiveUp, TypeOK
  <2> QED BY <1>1, <2>1 DEF SettleInv, ReadIsDated, Idle
<1>3. CorrectionSettles'
  <2>1. snap # NoSnapshot => moved' = moved
    BY DEF GiveUp
  <2> QED BY <1>1, <2>1 DEF SettleInv, CorrectionSettles
<1> QED BY <1>2, <1>3 DEF SettleInv

(* A correction is a row of the difference more, and one more is booked.   *)
LEMMA CorrectSettles ==
  ASSUME TypeOK, SettleInv, NEW r \in Requests, NEW t \in Sides, Correct(r, t)
  PROVE  SettleInv'
<1>1. /\ snap \in Snapshots /\ snap # NoSnapshot /\ UNCHANGED <<traded, moved>>
  BY Integers DEF Correct
<1>2. CASE snap.diff[t] = 0
  <2>1. UNCHANGED <<adj, snap>>
    BY <1>2 DEF Correct
  <2> QED BY <1>1, <2>1 DEF SettleInv, ReadIsDated, CorrectionSettles
<1>3. CASE snap.diff[t] # 0
  <2> DEFINE row == Row(IF t = "bank" THEN "other" ELSE "usdt", snap.diff[t], TRUE)
  <2>1. /\ row \in Rows /\ row.counted /\ ~row.deleted /\ row.amount = snap.diff[t]
        /\ Side(row.kind) = t
    <3>1. snap.diff[t] \in Int
      BY <1>1 DEF Snapshots
    <3>2. /\ row \in Rows /\ row.counted = TRUE /\ ~row.deleted
          /\ row.amount = snap.diff[t]
          /\ row.kind = IF t = "bank" THEN "other" ELSE "usdt"
      BY <3>1, RowType DEF Kinds
    <3> HIDE DEF row
    <3> QED BY <3>2 DEF Side, Sides
  <2>2. /\ Fresh \in Ids /\ adj[Fresh] = NoRow /\ adj' = [adj EXCEPT ![Fresh] = row]
        /\ snap' = [snap EXCEPT !.booked[t] = @ + 1]
    BY <1>3, FreshRow DEF Correct
  <2> HIDE DEF row
  <2>3. ASSUME NEW s \in Sides
        PROVE  Balance(adj', s) = Balance(adj, s) + (IF t = s THEN snap.diff[t] ELSE 0)
    <3>1. Balance([adj EXCEPT ![Fresh] = row], s)
            = Balance(adj, s) + (IF Side(row.kind) = s THEN row.amount ELSE 0)
      <4>1. adj \in [Ids -> Rows \cup {NoRow}]
        BY DEF TypeOK
      <4> QED BY <2>1, <2>2, <4>1, BalanceOfNew
    <3> QED BY <2>1, <2>2, <3>1
  <2>4. /\ snap'.fact = snap.fact /\ snap'.diff = snap.diff /\ snap'.by = snap.by
        /\ \A s \in Sides : snap'.booked[s] = IF s = t THEN snap.booked[s] + 1
                                               ELSE snap.booked[s]
        /\ snap' \in Snapshots
    BY <1>1, <2>2 DEF Snapshots
  <2>5. ASSUME NEW s \in Sides
        PROVE  traded[s] + Balance(adj', s)
                 = snap'.fact[s] + (snap'.booked[s] - 1) * snap'.diff[s] + moved[snap.by][s]
    <3> DEFINE b == snap.booked[s]
               d == snap.diff[s]
               f == snap.fact[s]
               m == moved[snap.by][s]
               o == traded[s]
               n == Balance(adj, s)
    <3>1. /\ b \in Int /\ d \in Int /\ f \in Int /\ m \in Int /\ o \in Int /\ n \in Int
      BY <1>1, Integers DEF Snapshots
    <3>2. o + n = f + (b - 1) * d + m
      BY <1>1 DEF SettleInv, CorrectionSettles
    <3>3. snap'.fact[s] = f /\ snap'.diff[s] = d
      BY <2>4
    <3>4. CASE s = t
      <4>1. snap'.booked[s] = b + 1 /\ Balance(adj', s) = n + d
        BY <2>3, <2>4, <3>4
      <4> HIDE DEF b, d, f, m, o, n
      <4>2. f + (b - 1) * d + m + d = f + ((b + 1) - 1) * d + m
        BY <3>1
      <4>3. o + (n + d) = (o + n) + d
        BY <3>1
      <4> QED BY <3>2, <3>3, <4>1, <4>2, <4>3 DEF m, o
    <3>5. CASE s # t
      <4>1. snap'.booked[s] = b /\ Balance(adj', s) = n + 0
        BY <2>3, <2>4, <3>5
      <4>2. Balance(adj', s) = n
        BY <3>1, <4>1
      <4> HIDE DEF b, d, f, n
      <4> QED BY <3>2, <3>3, <4>1, <4>2
    <3> QED BY <3>4, <3>5
  <2>6. snap' # NoSnapshot
    BY <2>4, NotSnapshot
  <2> QED BY <1>1, <2>4, <2>5, <2>6 DEF SettleInv, ReadIsDated, CorrectionSettles
<1> QED BY <1>2, <1>3

(* A correction closes the difference from what was read, each repetition  *)
(* opens it again by as much, and what else moves the books from the two   *)
(* reads on is counted, for any number of rows and however requests and    *)
(* syncs interleave.                                                       *)
THEOREM CorrectionsSettle == Spec => []CorrectionSettles
<1>1. Init => SettleInv
  <2> SUFFICES ASSUME Init PROVE SettleInv
    OBVIOUS
  <2>1. snap = NoSnapshot /\ \A r \in Requests : req[r].pc = "idle" /\ moved[r] = Nothing
    BY DEF Init, Idle
  <2> QED BY <2>1 DEF SettleInv, ReadIsDated, CorrectionSettles
<1>2. TypeOK /\ SettleInv /\ [Next]_vars => SettleInv'
  <2> SUFFICES ASSUME TypeOK, SettleInv, [Next]_vars PROVE SettleInv'
    OBVIOUS
  <2>1. adj \in Tables
    BY DEF TypeOK, Tables
  <2>2. \A a \in Ids, row \in Rows : [adj EXCEPT ![a] = row] \in Tables
    BY <2>1 DEF Tables
  <2>3. \A form \in Forms : Saved(form) \in Rows
    <3> TAKE form \in Forms
    <3>1. form.kind \in Kinds /\ form.amount \in Int /\ form.counted \in BOOLEAN
      BY FormsAssumption
    <3> QED BY <3>1, RowType DEF Saved
  <2>4. \A r \in Requests : Free(r) => req[r].pc \notin {"orders", "state"}
    BY DEF Free, Idle
  <2>5. ASSUME NEW r \in Requests, NEW form \in Forms, Create(r, form) PROVE SettleInv'
    <3>1. /\ Book([adj EXCEPT ![Fresh] = Saved(form)]) /\ Committed(r, TRUE)
          /\ UNCHANGED <<snap, traded>> /\ Free(r) /\ HasFresh
      BY <2>5 DEF Create
    <3> QED BY <2>2, <2>3, <2>4, <3>1, FreshRow, BookSettles
  <2>6. ASSUME NEW r \in Requests, NEW amount \in Amounts, Move(r, amount) PROVE SettleInv'
    <3>1. Row("capital", amount, TRUE) \in Rows
      BY AmountsAssumption, RowType DEF Kinds
    <3>2. /\ Book([adj EXCEPT ![Fresh] = Row("capital", amount, TRUE)]) /\ Committed(r, TRUE)
          /\ UNCHANGED <<snap, traded>> /\ Free(r) /\ HasFresh
      BY <2>6 DEF Move
    <3> QED BY <2>2, <2>4, <3>1, <3>2, FreshRow, BookSettles
  <2>7. ASSUME NEW r \in Requests, NEW form \in Forms, Edit(r, form) PROVE SettleInv'
    <3>1. req[r].id \in Ids /\ req[r].pc = "hand"
      BY <2>7, HandType DEF Edit, InHand
    <3>2. /\ Book([adj EXCEPT ![req[r].id] = Saved(form)]) /\ Committed(r, req[r].own)
          /\ UNCHANGED <<snap, traded>>
      BY <2>7 DEF Edit
    <3> QED BY <2>2, <2>3, <3>1, <3>2, BookSettles
  <2>8. ASSUME NEW r \in Requests, Delete(r) PROVE SettleInv'
    <3>1. req[r].id \in Ids /\ req[r].copy \in Rows /\ req[r].pc = "hand"
      BY <2>8, HandType DEF Delete, InHand
    <3>2. [req[r].copy EXCEPT !.deleted = TRUE] \in Rows
      BY <3>1 DEF Rows
    <3>3. /\ Book([adj EXCEPT ![req[r].id] = [req[r].copy EXCEPT !.deleted = TRUE]])
          /\ Committed(r, req[r].own) /\ UNCHANGED <<snap, traded>>
      BY <2>8 DEF Delete
    <3> QED BY <2>2, <3>1, <3>2, <3>3, BookSettles
  <2>9. ASSUME NEW r \in Requests,
               (\E fact \in Facts : ReadOrders(r, fact)) \/ ReadAdjustments(r)
        PROVE  SettleInv'
    BY <2>9, ReadSettles
  <2>10. ASSUME NEW r \in Requests, Save(r) PROVE SettleInv'
    BY <2>10, SaveSettles
  <2>11. ASSUME NEW r \in Requests, NEW s \in Sides, Correct(r, s) PROVE SettleInv'
    BY <2>11, CorrectSettles
  <2>12. ASSUME NEW t \in Trades, Trade(t) PROVE SettleInv'
    BY <2>12, TradeSettles
  <2>13. ASSUME NEW r \in Requests, GiveUp(r) PROVE SettleInv'
    BY <2>13, GiveUpSettles
  <2>14. ASSUME NEW r \in Requests,
                \/ Link(r) \/ Queue(r)
                \/ \E op \in {"edit", "delete", "link"}, a \in Ids : Look(r, op, a)
         PROVE  SettleInv'
    <3>1. req[r].pc \notin {"orders", "state"} /\ UNCHANGED <<adj, snap, traded, moved>>
      BY <2>4, <2>14 DEF Link, Queue, Look, InHand
    <3>2. PICK after : after.pc \notin {"orders", "state"} /\ req' = [req EXCEPT ![r] = after]
      BY <2>14 DEF Link, Queue, Look, Idle
    <3> QED BY <3>1, <3>2, RestSettles
  <2>15. ASSUME UNCHANGED vars \/ HourlySync \/ Rebuild
                  \/ \E to \in {"shown", "hidden", "inactive"} : Switch(to)
         PROVE  SettleInv'
    <3>1. UNCHANGED <<adj, req, snap, traded, moved>>
      BY <2>15 DEF vars, HourlySync, Rebuild, Switch
    <3> QED BY <3>1 DEF SettleInv, ReadIsDated, CorrectionSettles
  <2> QED BY <2>5, <2>6, <2>7, <2>8, <2>9, <2>10, <2>11, <2>12, <2>13, <2>14, <2>15 DEF Next
<1>3. SettleInv => CorrectionSettles
  BY DEF SettleInv
<1> QED BY <1>1, <1>2, <1>3, TypeCorrect, PTL DEF Spec
=============================================================================
