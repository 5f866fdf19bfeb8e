--------------------------- MODULE TimerListProofs ---------------------------
(***************************************************************************)
(* The array of CTimerEngine, its search and the loop that removes items   *)
(* while it walks the array implement TimerEngine, for any timers, times   *)
(* and size of a DWORD; with what TimerEngineProofs proves of TimerEngine, *)
(* every timer then counts down on its own, as long as times are modest.   *)
(***************************************************************************)
EXTENDS TimerList, SequenceTheorems, TLAPS

-----------------------------------------------------------------------------
(* Arrays of items and the functions of items they stand for. *)

LEMMA EntriesOf ==
  ASSUME NEW items \in Seq(Entry), NEW n \in DOMAIN items
  PROVE  /\ Len(items) \in Nat /\ DOMAIN items = 1 .. Len(items) /\ n \in 1 .. Len(items)
         /\ items[n] \in Entry
         /\ items[n].id \in Ids /\ items[n].elapse \in Dword /\ items[n].left \in Dword
         /\ items[n].repeat \in Dword \ {0}
         /\ items[n].id \in Numbers(items)
<1>1. /\ Len(items) \in Nat /\ DOMAIN items = 1 .. Len(items) /\ items[n] \in Entry
  OBVIOUS
<1> QED
  BY <1>1 DEF Entry, Numbers

LEMMA NumbersAreIds ==
  ASSUME NEW items \in Seq(Entry)
  PROVE  Numbers(items) \subseteq Ids
  BY EntriesOf DEF Numbers

LEMMA FieldsAreItem ==
  ASSUME NEW entry \in Entry
  PROVE  Fields(entry) \in Item
  BY DEF Entry, Item, Fields

(* The item of a number is the one entry that has the number. *)
LEMMA ItemOfEntry ==
  ASSUME NEW items \in Seq(Entry), NoneTwice(items), NEW n \in DOMAIN items
  PROVE  ItemsOf(items)[items[n].id] = Fields(items[n])
<1> DEFINE chosen == CHOOSE m \in DOMAIN items : items[m].id = items[n].id
<1>1. chosen \in DOMAIN items /\ items[chosen].id = items[n].id
  OBVIOUS
<1>2. chosen = n
  BY <1>1 DEF NoneTwice
<1> HIDE DEF chosen
<1>3. items[n].id \in Ids /\ items[n].id \in Numbers(items)
  BY EntriesOf
<1>4. ItemsOf(items)[items[n].id] = Fields(items[chosen])
  BY <1>3 DEF ItemsOf, chosen
<1> QED
  BY <1>2, <1>4

LEMMA NoItemOf ==
  ASSUME NEW items, NEW id \in Ids, id \notin Numbers(items)
  PROVE  ItemsOf(items)[id] = NoItem
  BY DEF ItemsOf

LEMMA ItemsType ==
  ASSUME NEW items \in Seq(Entry)
  PROVE  ItemsOf(items) \in [Ids -> Item \cup {NoItem}]
<1> DEFINE itemOf(id) == IF id \in Numbers(items)
                         THEN Fields(items[CHOOSE n \in DOMAIN items : items[n].id = id])
                         ELSE NoItem
<1>1. ItemsOf(items) = [id \in Ids |-> itemOf(id)]
  BY DEF ItemsOf
<1>2. ASSUME NEW id \in Ids PROVE itemOf(id) \in Item \cup {NoItem}
  <2>1. CASE id \in Numbers(items)
    <3> DEFINE chosen == CHOOSE n \in DOMAIN items : items[n].id = id
    <3>1. chosen \in DOMAIN items
      BY <2>1 DEF Numbers
    <3> HIDE DEF chosen
    <3>2. Fields(items[chosen]) \in Item
      BY <3>1, EntriesOf, FieldsAreItem
    <3> QED
      BY <2>1, <3>2 DEF chosen
  <2>2. CASE id \notin Numbers(items)
    BY <2>2
  <2> QED
    BY <2>1, <2>2
<1> HIDE DEF itemOf
<1> QED
  BY <1>1, <1>2

(* A function of items that agrees with every entry is the one. *)
LEMMA ItemsDetermined ==
  ASSUME NEW items \in Seq(Entry), NoneTwice(items),
         NEW function \in [Ids -> Item \cup {NoItem}],
         \A n \in DOMAIN items : function[items[n].id] = Fields(items[n]),
         \A id \in Ids \ Numbers(items) : function[id] = NoItem
  PROVE  ItemsOf(items) = function
<1>1. ASSUME NEW id \in Ids PROVE ItemsOf(items)[id] = function[id]
  <2>1. CASE id \in Numbers(items)
    <3>1. PICK n \in DOMAIN items : items[n].id = id
      BY <2>1 DEF Numbers
    <3> QED
      BY <3>1, ItemOfEntry
  <2>2. CASE id \notin Numbers(items)
    BY <2>2, NoItemOf
  <2> QED
    BY <2>1, <2>2
<1> QED
  BY <1>1, ItemsType

LEMMA Added ==
  ASSUME NEW items \in Seq(Entry), NoneTwice(items), NEW entry \in Entry,
         \A n \in DOMAIN items : items[n].id # entry.id
  PROVE  /\ Append(items, entry) \in Seq(Entry)
         /\ NoneTwice(Append(items, entry))
         /\ Numbers(Append(items, entry)) = Numbers(items) \cup {entry.id}
         /\ ItemsOf(Append(items, entry))
              = [ItemsOf(items) EXCEPT ![entry.id] = Fields(entry)]
<1> DEFINE new == Append(items, entry)
           last == Len(items) + 1
<1>1. /\ new \in Seq(Entry) /\ Len(items) \in Nat /\ Len(new) = last
      /\ DOMAIN new = 1 .. last /\ DOMAIN items = 1 .. Len(items)
      /\ \A n \in DOMAIN items : new[n] = items[n] /\ n \in DOMAIN new /\ n # last
      /\ new[last] = entry /\ last \in DOMAIN new
      /\ \A n \in DOMAIN new : n = last \/ n \in DOMAIN items
  BY AppendProperties
<1> HIDE DEF new, last
<1>2. NoneTwice(new)
  BY <1>1 DEF NoneTwice
<1>3. Numbers(new) = Numbers(items) \cup {entry.id}
  <2>1. ASSUME NEW n \in DOMAIN new PROVE new[n].id \in Numbers(items) \cup {entry.id}
    BY <1>1, <2>1 DEF Numbers
  <2>2. ASSUME NEW n \in DOMAIN items PROVE items[n].id \in Numbers(new)
    <3>1. new[n].id = items[n].id /\ n \in DOMAIN new
      BY <1>1
    <3> QED
      BY <3>1 DEF Numbers
  <2>3. entry.id \in Numbers(new)
    <3>1. new[last].id = entry.id /\ last \in DOMAIN new
      BY <1>1
    <3> QED
      BY <3>1 DEF Numbers
  <2>4. Numbers(new) \subseteq Numbers(items) \cup {entry.id}
    BY <2>1 DEF Numbers
  <2>5. Numbers(items) \subseteq Numbers(new)
    BY <2>2 DEF Numbers
  <2> QED
    BY <2>3, <2>4, <2>5
<1>4. ItemsOf(new) = [ItemsOf(items) EXCEPT ![entry.id] = Fields(entry)]
  <2> DEFINE function == [ItemsOf(items) EXCEPT ![entry.id] = Fields(entry)]
  <2>1. entry.id \in Ids
    BY DEF Entry
  <2>2. /\ function \in [Ids -> Item \cup {NoItem}] /\ function[entry.id] = Fields(entry)
        /\ \A id \in Ids \ {entry.id} : function[id] = ItemsOf(items)[id]
    BY <2>1, ItemsType, FieldsAreItem
  <2> HIDE DEF function
  <2>3. ASSUME NEW n \in DOMAIN new PROVE function[new[n].id] = Fields(new[n])
    <3>1. CASE n = last
      BY <1>1, <2>2, <3>1
    <3>2. CASE n \in DOMAIN items
      <4>1. new[n] = items[n] /\ items[n].id \in Ids \ {entry.id}
        BY <1>1, <3>2, EntriesOf
      <4> QED
        BY <2>2, <3>2, <4>1, ItemOfEntry
    <3> QED
      BY <1>1, <3>1, <3>2
  <2>4. \A id \in Ids \ Numbers(new) : function[id] = NoItem
    BY <1>3, <2>2, NoItemOf
  <2>5. ItemsOf(new) = function
    BY <1>1, <1>2, <2>2, <2>3, <2>4, ItemsDetermined
  <2> QED
    BY <2>5 DEF function
<1> QED
  BY <1>1, <1>2, <1>3, <1>4 DEF new

LEMMA Replaced ==
  ASSUME NEW items \in Seq(Entry), NoneTwice(items), NEW n \in DOMAIN items,
         NEW entry \in Entry, items[n].id = entry.id
  PROVE  /\ [items EXCEPT ![n] = entry] \in Seq(Entry)
         /\ NoneTwice([items EXCEPT ![n] = entry])
         /\ Numbers([items EXCEPT ![n] = entry]) = Numbers(items)
         /\ entry.id \in Numbers(items)
         /\ ItemsOf([items EXCEPT ![n] = entry])
              = [ItemsOf(items) EXCEPT ![entry.id] = Fields(entry)]
<1> DEFINE new == [items EXCEPT ![n] = entry]
<1>1. /\ new \in Seq(Entry) /\ DOMAIN new = DOMAIN items /\ new[n] = entry
      /\ \A m \in DOMAIN items \ {n} : new[m] = items[m]
      /\ \A m \in DOMAIN items : new[m].id = items[m].id
  BY EntriesOf
<1> HIDE DEF new
<1>2. NoneTwice(new) /\ Numbers(new) = Numbers(items)
  BY <1>1 DEF NoneTwice, Numbers
<1>3. entry.id \in Numbers(items) /\ entry.id \in Ids
  BY EntriesOf
<1> DEFINE function == [ItemsOf(items) EXCEPT ![entry.id] = Fields(entry)]
<1>4. /\ function \in [Ids -> Item \cup {NoItem}] /\ function[entry.id] = Fields(entry)
      /\ \A id \in Ids \ {entry.id} : function[id] = ItemsOf(items)[id]
  BY <1>3, ItemsType, FieldsAreItem
<1> HIDE DEF function
<1>5. ASSUME NEW m \in DOMAIN new PROVE function[new[m].id] = Fields(new[m])
  <2>1. CASE m = n
    BY <1>1, <1>4, <2>1
  <2>2. CASE m # n
    <3>1. new[m] = items[m] /\ m \in DOMAIN items /\ items[m].id \in Ids \ {entry.id}
      BY <1>1, <2>2, EntriesOf DEF NoneTwice
    <3> QED
      BY <1>4, <3>1, ItemOfEntry
  <2> QED
    BY <2>1, <2>2
<1>6. \A id \in Ids \ Numbers(new) : function[id] = NoItem
  BY <1>2, <1>3, <1>4, NoItemOf
<1>7. ItemsOf(new) = function
  BY <1>1, <1>2, <1>4, <1>5, <1>6, ItemsDetermined
<1> QED
  BY <1>1, <1>2, <1>3, <1>7 DEF new, function

(* RemoveAt closes the gap: the entries behind it move down by one. *)
LEMMA RemovedAt ==
  ASSUME NEW items \in Seq(Entry), NEW n \in DOMAIN items
  PROVE  /\ RemoveAt(items, n) \in Seq(Entry)
         /\ Len(RemoveAt(items, n)) = Len(items) - 1
         /\ DOMAIN RemoveAt(items, n) = 1 .. Len(items) - 1
         /\ \A m \in 1 .. Len(items) - 1 :
              RemoveAt(items, n)[m] = IF m < n THEN items[m] ELSE items[m + 1]
<1> DEFINE front == SubSeq(items, 1, n - 1)
           back == SubSeq(items, n + 1, Len(items))
<1>1. Len(items) \in Nat /\ n \in 1 .. Len(items) /\ \A m \in 1 .. Len(items) : items[m] \in Entry
  OBVIOUS
<1>2. front \in Seq(Entry) /\ Len(front) = n - 1 /\ \A m \in 1 .. n - 1 : front[m] = items[m]
  <2>1. \A m \in 1 .. n - 1 : items[m] \in Entry
    BY <1>1
  <2>2. 1 \in Int /\ n - 1 \in Int
    BY <1>1
  <2>3. /\ front \in Seq(Entry)
        /\ Len(front) = IF 1 <= n - 1 THEN n - 1 - 1 + 1 ELSE 0
        /\ \A m \in 1 .. n - 1 - 1 + 1 : front[m] = items[1 + m - 1]
    BY <2>1, <2>2, SubSeqProperties
  <2> QED
    BY <1>1, <2>3
<1>3. /\ back \in Seq(Entry) /\ Len(back) = Len(items) - n
      /\ \A m \in 1 .. Len(items) - n : back[m] = items[n + m]
  <2>1. \A m \in n + 1 .. Len(items) : items[m] \in Entry
    BY <1>1
  <2>2. n + 1 \in Int /\ Len(items) \in Int
    BY <1>1
  <2>3. /\ back \in Seq(Entry)
        /\ Len(back) = IF n + 1 <= Len(items) THEN Len(items) - (n + 1) + 1 ELSE 0
        /\ \A m \in 1 .. Len(items) - (n + 1) + 1 : back[m] = items[n + 1 + m - 1]
    BY <2>1, <2>2, SubSeqProperties
  <2> QED
    BY <1>1, <2>3
<1> HIDE DEF front, back
<1>4. RemoveAt(items, n) = front \o back
  BY DEF RemoveAt, front, back
<1>5. /\ front \o back \in Seq(Entry) /\ Len(front \o back) = Len(items) - 1
      /\ \A m \in 1 .. Len(items) - 1 :
           (front \o back)[m] = IF m <= n - 1 THEN front[m] ELSE back[m - (n - 1)]
  <2>1. /\ front \o back \in Seq(Entry)
        /\ Len(front \o back) = Len(front) + Len(back)
        /\ \A m \in 1 .. Len(front) + Len(back) :
             (front \o back)[m] = IF m <= Len(front) THEN front[m] ELSE back[m - Len(front)]
    BY <1>2, <1>3, ConcatProperties
  <2>2. Len(front) + Len(back) = Len(items) - 1
    BY <1>1, <1>2, <1>3
  <2> QED
    BY <1>2, <2>1, <2>2
<1>6. ASSUME NEW m \in 1 .. Len(items) - 1
      PROVE  (front \o back)[m] = IF m < n THEN items[m] ELSE items[m + 1]
  <2>1. CASE m < n
    BY <1>1, <1>2, <1>5, <2>1
  <2>2. CASE ~(m < n)
    <3>1. PICK k \in 1 .. Len(items) - n : k = m - (n - 1) /\ n + k = m + 1
      BY <1>1, <2>2
    <3>2. (front \o back)[m] = back[k]
      BY <1>1, <1>5, <2>2, <3>1
    <3> QED
      BY <1>3, <2>2, <3>1, <3>2
  <2> QED
    BY <2>1, <2>2
<1>7. DOMAIN (front \o back) = 1 .. Len(items) - 1
  BY <1>5, LenProperties
<1> QED
  BY <1>4, <1>5, <1>6, <1>7

LEMMA Removed ==
  ASSUME NEW items \in Seq(Entry), NoneTwice(items), NEW n \in DOMAIN items
  PROVE  /\ NoneTwice(RemoveAt(items, n))
         /\ Numbers(RemoveAt(items, n)) = Numbers(items) \ {items[n].id}
         /\ ItemsOf(RemoveAt(items, n)) = [ItemsOf(items) EXCEPT ![items[n].id] = NoItem]
<1> DEFINE new == RemoveAt(items, n)
           from(m) == IF m < n THEN m ELSE m + 1
           to(m) == IF m < n THEN m ELSE m - 1
<1>1. /\ new \in Seq(Entry) /\ DOMAIN new = 1 .. Len(items) - 1
      /\ \A m \in DOMAIN new : new[m] = items[from(m)]
  BY RemovedAt
<1>2. Len(items) \in Nat /\ DOMAIN items = 1 .. Len(items) /\ n \in 1 .. Len(items)
  BY EntriesOf
<1> HIDE DEF new
<1>3. /\ \A m \in DOMAIN new : from(m) \in DOMAIN items \ {n} /\ to(from(m)) = m
      /\ \A m \in DOMAIN items \ {n} : to(m) \in DOMAIN new /\ from(to(m)) = m
  BY <1>1, <1>2
<1> HIDE DEF from, to
<1>4. NoneTwice(new)
  <2> SUFFICES ASSUME NEW l \in DOMAIN new, NEW m \in DOMAIN new, new[l].id = new[m].id
               PROVE  l = m
    BY DEF NoneTwice
  <2>1. from(l) = from(m)
    BY <1>1, <1>3 DEF NoneTwice
  <2> QED
    BY <1>3, <2>1
<1>5. Numbers(new) = Numbers(items) \ {items[n].id}
  <2>1. ASSUME NEW m \in DOMAIN new PROVE new[m].id \in Numbers(items) \ {items[n].id}
    BY <1>1, <1>3, EntriesOf DEF NoneTwice
  <2>2. ASSUME NEW m \in DOMAIN items, items[m].id # items[n].id
        PROVE  items[m].id \in Numbers(new)
    <3>1. to(m) \in DOMAIN new /\ new[to(m)] = items[m]
      BY <1>1, <1>3, <2>2
    <3> QED
      BY <3>1 DEF Numbers
  <2>3. Numbers(new) \subseteq Numbers(items) \ {items[n].id}
    BY <2>1 DEF Numbers
  <2>4. Numbers(items) \ {items[n].id} \subseteq Numbers(new)
    BY <2>2 DEF Numbers
  <2> QED
    BY <2>3, <2>4
<1> DEFINE function == [ItemsOf(items) EXCEPT ![items[n].id] = NoItem]
<1>6. /\ function \in [Ids -> Item \cup {NoItem}] /\ function[items[n].id] = NoItem
      /\ \A id \in Ids \ {items[n].id} : function[id] = ItemsOf(items)[id]
  BY EntriesOf, ItemsType
<1> HIDE DEF function
<1>7. ASSUME NEW m \in DOMAIN new PROVE function[new[m].id] = Fields(new[m])
  <2>1. new[m] = items[from(m)] /\ from(m) \in DOMAIN items /\ from(m) # n
    BY <1>1, <1>3
  <2>2. items[from(m)].id \in Ids \ {items[n].id}
    BY <2>1, EntriesOf DEF NoneTwice
  <2> QED
    BY <1>6, <2>1, <2>2, ItemOfEntry
<1>8. \A id \in Ids \ Numbers(new) : function[id] = NoItem
  BY <1>5, <1>6, NoItemOf
<1>9. ItemsOf(new) = function
  BY <1>1, <1>4, <1>6, <1>7, <1>8, ItemsDetermined
<1> QED
  BY <1>4, <1>5, <1>9 DEF new, function

-----------------------------------------------------------------------------
(* The loop. *)

(* How many items it has removed, and the places of the array it began     *)
(* with that it has been at.                                               *)
Gone == Len(before.list) - Len(list)

Visited == 1 .. index - 1 + Gone

(* What becomes of an item it comes to. *)
IsDue(entry) == Minus(entry.left, timePass) = 0

Stays(entry) == ~(IsDue(entry) /\ entry.repeat = 1)

After(entry) == IF IsDue(entry) THEN Restarted(entry)
                ELSE [entry EXCEPT !.left = Minus(entry.left, timePass)]

(* The items ahead of the index are as they were, only further to the      *)
(* front; behind it are the visited ones that stay, each as it is left;    *)
(* the visited ones that were due, and no others, were notified; and the   *)
(* minimum is that of the items behind.                                    *)
LoopInv ==
  /\ ThreadRuns
  /\ before.timeLeave # NO_TIME_LEFT /\ Minus(before.timeLeave, TIMER_SPACE) = 0
  /\ timePass = Plus(before.timePass, TIMER_SPACE)
  /\ NoneTwice(before.list)
  /\ Len(list) <= Len(before.list)
  /\ \A n \in index .. Len(list) : list[n] = before.list[n + Gone]
  /\ \A n \in 1 .. index - 1 :
       \E m \in Visited : Stays(before.list[m]) /\ list[n] = After(before.list[m])
  /\ \A m \in Visited : Stays(before.list[m]) =>
       \E n \in 1 .. index - 1 : list[n] = After(before.list[m])
  /\ \A m \in Visited : IsDue(before.list[m]) => before.list[m].id \in ToSet(posted)
  /\ \A id \in ToSet(posted) :
       \E m \in Visited : IsDue(before.list[m]) /\ before.list[m].id = id
  /\ least # NO_TIME_LEFT => \E n \in 1 .. index - 1 : least = list[n].left
  /\ \A n \in 1 .. index - 1 : least <= list[n].left

IInv ==
  /\ TypeOK
  /\ LockFree => least = NO_TIME_LEFT
  /\ ~LockFree => LoopInv

-----------------------------------------------------------------------------
(* Types. *)

LEMMA DwordArithmetic ==
  ASSUME NEW a \in Dword, NEW b \in Dword
  PROVE  Plus(a, b) \in Dword /\ Minus(a, b) \in Dword
  BY ConstantsAssumption DEF Dword, Plus, Minus

LEMMA DwordConstants ==
  /\ 0 \in Dword /\ 1 \in Dword /\ TIMER_SPACE \in Dword /\ NO_TIME_LEFT \in Dword
  /\ TIMER_REPEAT_TIMER \in Dword
  BY ConstantsAssumption DEF Dword, TIMER_SPACE, NO_TIME_LEFT, TIMER_REPEAT_TIMER

LEMMA RoundedType ==
  ASSUME NEW time \in Elapses
  PROVE  Rounded(time) \in Dword
<1> DEFINE more == Plus(time, TIMER_SPACE - 1)
<1>1. time \in Dword /\ TIMER_SPACE - 1 \in Dword
  BY ConstantsAssumption DEF Dword, TIMER_SPACE
<1>2. more \in Dword
  BY <1>1, DwordArithmetic
<1> HIDE DEF more
<1>3. (more \div 25) * 25 \in Dword
  <2>1. more \in Nat /\ DwordSize \in Nat /\ more < DwordSize
    BY <1>2, ConstantsAssumption DEF Dword
  <2>2. (more \div 25) * 25 \in Nat /\ (more \div 25) * 25 <= more
    BY <2>1
  <2> QED
    BY <2>1, <2>2 DEF Dword
<1> QED
  BY <1>3 DEF Rounded, TIMER_SPACE, more

LEMMA TypeFacts ==
  ASSUME TypeOK
  PROVE  /\ list \in Seq(Entry) /\ Len(list) \in Nat /\ DOMAIN list = 1 .. Len(list)
         /\ index \in Nat /\ index <= Len(list) + 1
         /\ before.list \in Seq(Entry) /\ Len(before.list) \in Nat
         /\ DOMAIN before.list = 1 .. Len(before.list)
         /\ before.timePass \in Dword /\ before.timeLeave \in Dword
         /\ posted \in Seq(Ids)
  BY DEF TypeOK

(* What SetTimer does to the array. *)
LEMMA PutFacts ==
  ASSUME TypeOK, NEW entry \in Entry, Put(entry)
  PROVE  /\ list' \in Seq(Entry) /\ NoneTwice(list')
         /\ Numbers(list') = Numbers(list) \cup {entry.id}
         /\ ItemsOf(list') = [ItemsOf(list) EXCEPT ![entry.id] = Fields(entry)]
<1>1. list \in Seq(Entry) /\ NoneTwice(list)
  BY DEF TypeOK
<1>2. CASE \A n \in DOMAIN list : list[n].id # entry.id
  <2>1. list' = Append(list, entry)
    BY <1>2 DEF Put, FoundAt
  <2> QED
    BY <1>1, <1>2, <2>1, Added
<1>3. CASE ~ \A n \in DOMAIN list : list[n].id # entry.id
  <2>1. PICK n \in DOMAIN list : list[n].id = entry.id /\ list' = [list EXCEPT ![n] = entry]
    BY <1>3 DEF Put, FoundAt
  <2>2. /\ list' \in Seq(Entry) /\ NoneTwice(list')
        /\ Numbers(list') = Numbers(list) /\ entry.id \in Numbers(list)
        /\ ItemsOf(list') = [ItemsOf(list) EXCEPT ![entry.id] = Fields(entry)]
    BY <1>1, <2>1, Replaced
  <2> QED
    BY <2>2
<1> QED
  BY <1>2, <1>3

LEMMA NewEntry ==
  ASSUME TypeOK, NEW id \in Ids, NEW time \in Elapses, NEW repeat \in Repeats, repeat > 0
  PROVE  [id |-> id, elapse |-> Rounded(time), left |-> Charged(Rounded(time)),
          repeat |-> repeat] \in Entry
<1>1. Rounded(time) \in Dword /\ timePass \in Dword
  BY RoundedType DEF TypeOK
<1>2. Charged(Rounded(time)) \in Dword
  BY <1>1, DwordArithmetic DEF Charged
<1>3. repeat \in Dword \ {0}
  BY ConstantsAssumption DEF Dword
<1> QED
  BY <1>1, <1>2, <1>3 DEF Entry

(* What KillTimer does to it. *)
LEMMA KilledFacts ==
  ASSUME TypeOK, NEW id \in Ids, KillTimer(id)
  PROVE  /\ list' \in Seq(Entry) /\ NoneTwice(list')
         /\ id \in Numbers(list) /\ Numbers(list') = Numbers(list) \ {id}
         /\ ItemsOf(list') = [ItemsOf(list) EXCEPT ![id] = NoItem]
         /\ list' = << >> <=> Numbers(list) = {id}
<1>1. list \in Seq(Entry) /\ NoneTwice(list)
  BY DEF TypeOK
<1>2. PICK n \in DOMAIN list : list[n].id = id /\ list' = RemoveAt(list, n)
  BY DEF KillTimer, FoundAt
<1>3. list' \in Seq(Entry)
  BY <1>1, <1>2, RemovedAt
<1>4. /\ NoneTwice(list') /\ Numbers(list') = Numbers(list) \ {id}
      /\ ItemsOf(list') = [ItemsOf(list) EXCEPT ![id] = NoItem]
  BY <1>1, <1>2, Removed
<1>5. id \in Numbers(list)
  BY <1>1, <1>2, EntriesOf
<1>6. list' = << >> <=> Numbers(list') = {}
  <2>1. ASSUME list' # << >> PROVE Numbers(list') # {}
    <3>1. 1 \in DOMAIN list'
      BY <1>3, <2>1
    <3> QED
      BY <1>3, <3>1, EntriesOf
  <2>2. ASSUME list' = << >> PROVE Numbers(list') = {}
    BY <2>2 DEF Numbers
  <2> QED
    BY <2>1, <2>2
<1> QED
  BY <1>3, <1>4, <1>5, <1>6

-----------------------------------------------------------------------------
(* The inductive invariant. *)

LEMMA InitInv == ASSUME Init PROVE IInv
<1>1. NoLoop \in [timePass : Dword, timeLeave : Dword, list : Seq(Entry), fired : SUBSET Ids]
  BY DwordConstants DEF NoLoop
<1>2. << >> \in Seq(Entry) /\ << >> \in Seq(Ids) /\ IsInjective(<< >>) /\ Len(<< >>) = 0
  BY DEF IsInjective
<1> QED
  BY <1>1, <1>2, DwordConstants DEF Init, IInv, TypeOK, NoneTwice, LockFree

(* A step that leaves the loop's variables alone, outside of the loop. *)
LEMMA OutsideInv ==
  ASSUME IInv, LockFree, UNCHANGED loopVars, posted' \in {posted, << >>},
         list' \in Seq(Entry), NoneTwice(list'), timePass' \in Dword, timeLeave' \in Dword,
         service' \in {"stopped", "running", "stopping", "joined"}
  PROVE  IInv'
<1>1. << >> \in Seq(Ids) /\ IsInjective(<< >>) /\ Len(list') \in Nat
  BY DEF IsInjective
<1>2. index' = 0 /\ least' = least /\ before' = before
  BY DEF loopVars, LockFree
<1>3. posted' \in Seq(Ids) /\ IsInjective(posted')
  BY <1>1 DEF IInv, TypeOK
<1>4. TypeOK /\ least = NO_TIME_LEFT
  BY DEF IInv
<1>5. TypeOK'
  BY <1>1, <1>2, <1>3, <1>4 DEF TypeOK
<1> QED
  BY <1>2, <1>4, <1>5 DEF IInv, LockFree

LEMMA SetTimerInv ==
  ASSUME IInv, NEW id \in Ids, AnySetTimer(id)
  PROVE  IInv'
<1>1. PICK time \in Elapses, repeat \in Repeats : SetTimer(id, time, repeat)
  BY DEF AnySetTimer
<1> DEFINE entry == [id |-> id, elapse |-> Rounded(time), left |-> Charged(Rounded(time)),
                     repeat |-> repeat]
<1>2. TypeOK /\ LockFree /\ service = "running" /\ repeat > 0 /\ Put(entry)
  BY <1>1 DEF IInv, SetTimer, MayCall
<1>3. entry \in Entry
  BY <1>2, NewEntry
<1> HIDE DEF entry
<1>4. list' \in Seq(Entry) /\ NoneTwice(list')
  BY <1>2, <1>3, PutFacts
<1>5. timeLeave' \in Dword
  BY <1>1, <1>2, RoundedType DEF SetTimer, Earlier, TypeOK
<1>6. /\ timePass' = timePass /\ service' = service /\ posted' = << >>
      /\ UNCHANGED loopVars
  BY <1>1 DEF SetTimer
<1> QED
  BY <1>2, <1>4, <1>5, <1>6, OutsideInv DEF TypeOK

LEMMA KillTimerInv ==
  ASSUME IInv, NEW id \in Ids, KillTimer(id)
  PROVE  IInv'
<1>1. TypeOK /\ LockFree /\ service = "running"
  BY DEF IInv, KillTimer, MayCall
<1>2. list' \in Seq(Entry) /\ NoneTwice(list')
  BY <1>1, KilledFacts
<1>3. /\ timePass' \in {0, timePass} /\ timeLeave' \in {NO_TIME_LEFT, timeLeave}
      /\ service' = service /\ posted' = << >> /\ UNCHANGED loopVars
  BY DEF KillTimer
<1> QED
  BY <1>1, <1>2, <1>3, OutsideInv, DwordConstants DEF TypeOK

LEMMA ClearedInv ==
  ASSUME IInv, LockFree, ClearTimers, service' \in {"stopped", "running"}
  PROVE  IInv'
<1>1. << >> \in Seq(Entry) /\ NoneTwice(<< >>)
  BY DEF NoneTwice
<1> QED
  BY <1>1, OutsideInv, DwordConstants DEF ClearTimers

LEMMA TickInv ==
  ASSUME IInv, TickIdle \/ TickCounts, UNCHANGED service
  PROVE  IInv'
<1>1. /\ LockFree /\ UNCHANGED loopVars /\ posted' = << >> /\ list' = list
      /\ timePass' \in {timePass, Plus(timePass, TIMER_SPACE)}
      /\ timeLeave' \in {timeLeave, Minus(timeLeave, TIMER_SPACE)}
  BY DEF TickIdle, TickCounts
<1>2. TypeOK
  BY DEF IInv
<1>3. timePass' \in Dword /\ timeLeave' \in Dword
  BY <1>1, <1>2, DwordArithmetic, DwordConstants DEF TypeOK
<1>4. list' \in Seq(Entry) /\ NoneTwice(list')
  BY <1>1, <1>2 DEF TypeOK
<1>5. service' \in {"stopped", "running", "stopping", "joined"}
  BY <1>2 DEF TypeOK
<1> QED
  BY <1>1, <1>3, <1>4, <1>5, OutsideInv

LEMMA LoopStartsInv ==
  ASSUME IInv, ThreadRuns, LoopStarts, UNCHANGED service
  PROVE  IInv'
<1>1. TypeOK /\ LockFree /\ least = NO_TIME_LEFT
  BY DEF IInv, LoopStarts
<1>2. /\ timeLeave' = 0 /\ timePass' = Plus(timePass, TIMER_SPACE) /\ posted' = << >>
      /\ index' = 1 /\ list' = list /\ least' = least /\ service' = service
      /\ before'.timePass = timePass /\ before'.timeLeave = timeLeave
      /\ before'.list = list
      /\ timeLeave # NO_TIME_LEFT /\ Minus(timeLeave, TIMER_SPACE) = 0
  BY DEF LoopStarts
<1>3. TypeOK'
  <2>1. timePass' \in Dword /\ timeLeave' \in Dword
    BY <1>1, <1>2, DwordArithmetic, DwordConstants DEF TypeOK
  <2>2. ToSet(posted) \in SUBSET Ids
    BY <1>1 DEF TypeOK, ToSet
  <2>3. before' \in [timePass : Dword, timeLeave : Dword, list : Seq(Entry),
                     fired : SUBSET Ids]
    BY <1>1, <2>2 DEF LoopStarts, TypeOK
  <2>4. << >> \in Seq(Ids) /\ IsInjective(<< >>) /\ 1 \in 0 .. Len(list') + 1
    BY <1>1, <1>2 DEF IsInjective, TypeOK
  <2> QED
    BY <1>1, <1>2, <2>1, <2>3, <2>4 DEF TypeOK
<1>4. LoopInv'
  <2>1. Gone' = 0 /\ Visited' = {} /\ index' - 1 = 0 /\ Len(list) \in Nat
    BY <1>1, <1>2 DEF Gone, Visited, TypeOK
  <2>2. ToSet(posted') = {}
    BY <1>2 DEF ToSet
  <2>3. \A n \in index' .. Len(list') : list'[n] = before'.list[n + Gone']
    BY <1>1, <1>2, <2>1
  <2>4. ThreadRuns' /\ Len(list') <= Len(before'.list)
    BY <1>2, <2>1 DEF ThreadRuns
  <2> QED
    BY <1>1, <1>2, <2>1, <2>2, <2>3, <2>4 DEF LoopInv, TypeOK
<1> QED
  BY <1>2, <1>3, <1>4 DEF IInv, LockFree

(* At an item the loop comes to, which is the next one of the array the    *)
(* loop began with and was not notified yet.                               *)
LEMMA LoopAt ==
  ASSUME IInv, index \in DOMAIN list
  PROVE  /\ TypeOK /\ LoopInv /\ Gone \in Nat
         /\ index \in 1 .. Len(list) /\ list[index] \in Entry
         /\ index + Gone \in DOMAIN before.list
         /\ list[index] = before.list[index + Gone]
         /\ Visited = 1 .. index + Gone - 1
         /\ Visited \subseteq DOMAIN before.list \ {index + Gone}
         /\ list[index].id \notin ToSet(posted)
<1>1. TypeOK /\ index \in 1 .. Len(list)
  BY TypeFacts DEF IInv
<1>2. LoopInv
  BY <1>1 DEF IInv, LockFree
<1>3. /\ Len(list) \in Nat /\ Len(before.list) \in Nat /\ Gone \in Nat
      /\ index + Gone \in 1 .. Len(before.list)
  BY <1>1, <1>2, TypeFacts DEF LoopInv, Gone
<1>4. Visited = 1 .. index + Gone - 1
  BY <1>1, <1>3 DEF Visited
<1>5. Visited \subseteq 1 .. Len(before.list) /\ index + Gone \notin Visited
  BY <1>1, <1>3, <1>4
<1>6. list[index] = before.list[index + Gone] /\ list[index] \in Entry
  BY <1>1, <1>2, <1>3, EntriesOf, TypeFacts DEF LoopInv
<1>7. list[index].id \notin ToSet(posted)
  <2> SUFFICES ASSUME list[index].id \in ToSet(posted) PROVE FALSE
    OBVIOUS
  <2>1. PICK m \in Visited : before.list[m].id = list[index].id
    BY <1>2 DEF LoopInv
  <2>2. m \in DOMAIN before.list /\ index + Gone \in DOMAIN before.list /\ m # index + Gone
    BY <1>1, <1>3, <1>5, <2>1, TypeFacts
  <2> QED
    BY <1>2, <1>6, <2>1, <2>2 DEF LoopInv, NoneTwice
<1> QED
  BY <1>1, <1>2, <1>3, <1>4, <1>5, <1>6, <1>7, TypeFacts

LEMMA AfterEntry ==
  ASSUME TypeOK, NEW entry \in Entry, Stays(entry)
  PROVE  /\ After(entry) \in Entry /\ After(entry).id = entry.id
         /\ After(entry).elapse = entry.elapse
         /\ After(entry).left = IF IsDue(entry) THEN entry.elapse
                                                ELSE Minus(entry.left, timePass)
         /\ After(entry).repeat =
              IF IsDue(entry) /\ entry.repeat # TIMER_REPEAT_TIMER
              THEN Minus(entry.repeat, 1) ELSE entry.repeat
<1>1. /\ entry.id \in Ids /\ entry.elapse \in Dword /\ entry.left \in Dword
      /\ entry.repeat \in Dword /\ entry.repeat # 0
      /\ entry = [id |-> entry.id, elapse |-> entry.elapse, left |-> entry.left,
                  repeat |-> entry.repeat]
  BY DEF Entry
<1>2. CASE IsDue(entry)
  <2> DEFINE left == IF entry.repeat = TIMER_REPEAT_TIMER THEN entry.repeat
                                                         ELSE Minus(entry.repeat, 1)
  <2>1. entry.repeat # 1
    BY <1>2 DEF Stays
  <2>2. left \in Dword \ {0}
    BY <1>1, <2>1, ConstantsAssumption DEF Dword, Minus
  <2>3. After(entry) = [id |-> entry.id, elapse |-> entry.elapse, left |-> entry.elapse,
                        repeat |-> left]
    BY <1>1, <1>2 DEF After, Restarted
  <2> HIDE DEF left
  <2>4. /\ After(entry) \in Entry /\ After(entry).id = entry.id
        /\ After(entry).elapse = entry.elapse /\ After(entry).left = entry.elapse
        /\ After(entry).repeat = left
    BY <1>1, <2>2, <2>3 DEF Entry
  <2> QED
    BY <1>2, <2>4 DEF left
<1>3. CASE ~IsDue(entry)
  <2>1. Minus(entry.left, timePass) \in Dword
    BY <1>1, DwordArithmetic DEF TypeOK
  <2>2. After(entry) = [id |-> entry.id, elapse |-> entry.elapse,
                        left |-> Minus(entry.left, timePass), repeat |-> entry.repeat]
    BY <1>1, <1>3 DEF After
  <2> QED
    BY <1>1, <1>3, <2>1, <2>2 DEF Entry
<1> QED
  BY <1>2, <1>3

LEMMA NotifiedFacts ==
  ASSUME IInv, LoopItem
  PROVE  /\ posted' \in Seq(Ids) /\ IsInjective(posted')
         /\ IsDue(list[index]) => ToSet(posted') = ToSet(posted) \cup {list[index].id}
         /\ ~IsDue(list[index]) => ToSet(posted') = ToSet(posted)
<1> DEFINE id == list[index].id
<1>1. /\ index \in DOMAIN list /\ posted \in Seq(Ids) /\ IsInjective(posted)
      /\ id \in Ids /\ id \notin ToSet(posted)
  BY LoopAt, EntriesOf DEF LoopItem, TypeOK
<1>2. CASE ~IsDue(list[index])
  <2>1. posted' = posted
    BY <1>2 DEF LoopItem, NotDue, Restart, Exhaust, Notify, IsDue
  <2> QED
    BY <1>1, <1>2, <2>1
<1>3. CASE IsDue(list[index])
  <2>1. posted' = Append(posted, id)
    BY <1>3 DEF LoopItem, NotDue, Restart, Exhaust, Notify, IsDue
  <2> DEFINE last == Len(posted) + 1
  <2> HIDE DEF id
  <2>2. /\ posted' \in Seq(Ids) /\ Len(posted) \in Nat /\ DOMAIN posted = 1 .. Len(posted)
        /\ DOMAIN posted' = 1 .. last
        /\ \A n \in DOMAIN posted : posted'[n] = posted[n] /\ n # last /\ n \in DOMAIN posted'
        /\ posted'[last] = id /\ last \in DOMAIN posted'
        /\ \A n \in DOMAIN posted' : n = last \/ n \in DOMAIN posted
    BY <1>1, <2>1, AppendProperties
  <2> HIDE DEF last
  <2>3. ToSet(posted') = ToSet(posted) \cup {id}
    <3>1. ToSet(posted') \subseteq ToSet(posted) \cup {id}
      BY <2>2 DEF ToSet
    <3>2. ASSUME NEW n \in DOMAIN posted PROVE posted[n] \in ToSet(posted')
      BY <2>2 DEF ToSet
    <3>3. ToSet(posted) \subseteq ToSet(posted')
      BY <3>2 DEF ToSet
    <3>4. id \in ToSet(posted')
      BY <2>2 DEF ToSet
    <3> QED
      BY <3>1, <3>3, <3>4
  <2>4. \A n \in DOMAIN posted : posted[n] # id
    BY <1>1 DEF ToSet
  <2>5. IsInjective(posted')
    BY <1>1, <2>2, <2>4 DEF IsInjective
  <2> QED
    BY <1>3, <2>2, <2>3, <2>5 DEF id
<1> QED
  BY <1>2, <1>3

(* The parts of LoopInv that only look at what was visited, one item on.   *)
LEMMA VisitedInv ==
  ASSUME IInv, LoopItem, Visited' = Visited \cup {index + Gone}
  PROVE  /\ \A m \in Visited' :
              IsDue(before.list[m])' => before'.list[m].id \in ToSet(posted')
         /\ \A id \in ToSet(posted') :
              \E m \in Visited' : IsDue(before.list[m])' /\ before'.list[m].id = id
<1> DEFINE at == index + Gone
<1>1. /\ LoopInv /\ list[index] = before.list[at]
      /\ timePass' = timePass /\ before' = before
  BY LoopAt DEF LoopItem
<1>2. \A m : IsDue(before.list[m])' = IsDue(before.list[m])
  BY <1>1 DEF IsDue
<1> HIDE DEF at
<1>3. Visited' = Visited \cup {at}
  BY DEF at
<1>4. CASE IsDue(before.list[at])
  <2>1. ToSet(posted') = ToSet(posted) \cup {before.list[at].id}
    BY <1>1, <1>4, NotifiedFacts
  <2> QED
    BY <1>1, <1>2, <1>3, <1>4, <2>1 DEF LoopInv
<1>5. CASE ~IsDue(before.list[at])
  <2>1. ToSet(posted') = ToSet(posted)
    BY <1>1, <1>5, NotifiedFacts
  <2> QED
    BY <1>1, <1>2, <1>3, <1>5, <2>1 DEF LoopInv
<1> QED
  BY <1>4, <1>5

(* An item that stays. *)
LEMMA KeepInv ==
  ASSUME IInv, ThreadRuns, LoopItem, UNCHANGED service,
         Stays(list[index]), Keep(After(list[index]))
  PROVE  IInv'
<1> DEFINE at == index + Gone
           entry == After(list[index])
<1>1. /\ TypeOK /\ LoopInv /\ Gone \in Nat /\ index \in 1 .. Len(list) /\ Len(list) \in Nat
      /\ DOMAIN list = 1 .. Len(list) /\ list[index] \in Entry /\ at \in DOMAIN before.list
      /\ list[index] = before.list[at] /\ Visited = 1 .. at - 1
      /\ Visited \subseteq DOMAIN before.list \ {at} /\ list \in Seq(Entry)
  BY LoopAt, TypeFacts DEF LoopItem
<1>2. /\ timePass' = timePass /\ timeLeave' = timeLeave /\ before' = before
      /\ service' = service
      /\ list' = [list EXCEPT ![index] = entry] /\ index' = index + 1
      /\ least' = IF entry.left < least THEN entry.left ELSE least
  BY DEF LoopItem, Keep
<1>3. entry \in Entry /\ entry.id = list[index].id /\ entry.left \in Dword
  BY <1>1, AfterEntry DEF Entry
<1>4. entry = After(before.list[at]) /\ Stays(before.list[at])
  BY <1>1
<1> HIDE DEF entry
<1>5. /\ list' \in Seq(Entry) /\ NoneTwice(list') /\ Len(list') = Len(list)
      /\ list'[index] = entry /\ \A n \in 1 .. Len(list) : n # index => list'[n] = list[n]
  <2>1. NoneTwice(list) /\ index \in DOMAIN list
    BY <1>1 DEF TypeOK
  <2>2. /\ [list EXCEPT ![index] = entry] \in Seq(Entry)
        /\ NoneTwice([list EXCEPT ![index] = entry])
    BY <1>1, <1>3, <2>1, Replaced
  <2>3. /\ Len(list') = Len(list) /\ list'[index] = entry
        /\ \A n \in 1 .. Len(list) : n # index => list'[n] = list[n]
    BY <1>1, <1>2
  <2> QED
    BY <1>2, <2>2, <2>3
<1>6. Gone' = Gone /\ Visited' = Visited \cup {at} /\ index' - 1 = index
      /\ 1 .. index = (1 .. index - 1) \cup {index}
      /\ index' .. Len(list') = (index .. Len(list)) \ {index}
  <2>1. at \in Nat /\ at >= 1
    BY <1>1
  <2>2. Gone' = Gone
    BY <1>2, <1>5 DEF Gone
  <2>3. Visited' = 1 .. index + Gone /\ index' - 1 = index
    BY <1>1, <1>2, <2>2 DEF Visited
  <2>4. 1 .. at = (1 .. at - 1) \cup {at}
    BY <2>1
  <2>5. /\ 1 .. index = (1 .. index - 1) \cup {index}
        /\ index' .. Len(list') = (index .. Len(list)) \ {index}
    BY <1>1, <1>2, <1>5
  <2> QED
    BY <1>1, <2>2, <2>3, <2>4, <2>5
<1>7. TypeOK'
  <2>1. least' \in Dword
    BY <1>1, <1>2, <1>3 DEF TypeOK
  <2>2. index' \in 0 .. Len(list') + 1
    BY <1>1, <1>2, <1>5
  <2> QED
    BY <1>1, <1>2, <1>5, <2>1, <2>2, NotifiedFacts DEF TypeOK
<1>8. \A m : Stays(before.list[m])' = Stays(before.list[m])
             /\ After(before.list[m])' = After(before.list[m])
  BY <1>2 DEF Stays, After, IsDue
<1>9. LoopInv'
  <2>1. \A n \in index' .. Len(list') : list'[n] = before'.list[n + Gone']
    BY <1>1, <1>2, <1>5, <1>6 DEF LoopInv
  <2>2. ASSUME NEW n \in 1 .. index' - 1
        PROVE  \E m \in Visited' : Stays(before.list[m])' /\ list'[n] = After(before.list[m])'
    <3>1. CASE n = index
      BY <1>4, <1>5, <1>6, <1>8, <3>1
    <3>2. CASE n # index
      <4>1. n \in 1 .. index - 1 /\ list'[n] = list[n]
        BY <1>1, <1>5, <1>6, <3>2
      <4>2. PICK m \in Visited : Stays(before.list[m]) /\ list[n] = After(before.list[m])
        BY <1>1, <4>1 DEF LoopInv
      <4> QED
        BY <1>6, <1>8, <4>1, <4>2
    <3> QED
      BY <3>1, <3>2
  <2>3. ASSUME NEW m \in Visited', Stays(before.list[m])'
        PROVE  \E n \in 1 .. index' - 1 : list'[n] = After(before.list[m])'
    <3>1. CASE m = at
      <4>1. list'[index] = After(before.list[m])' /\ index \in 1 .. index' - 1
        BY <1>1, <1>4, <1>5, <1>6, <1>8, <3>1
      <4> QED
        BY <4>1
    <3>2. CASE m \in Visited
      <4>1. PICK n \in 1 .. index - 1 : list[n] = After(before.list[m])
        BY <1>1, <1>8, <2>3, <3>2 DEF LoopInv
      <4>2. n \in 1 .. index' - 1 /\ list'[n] = list[n]
        BY <1>1, <1>5, <1>6, <4>1
      <4> QED
        BY <1>8, <4>1, <4>2
    <3> QED
      BY <1>6, <3>1, <3>2
  <2>4. least' # NO_TIME_LEFT => \E n \in 1 .. index' - 1 : least' = list'[n].left
    <3>1. CASE least' = entry.left
      <4>1. least' = list'[index].left /\ index \in 1 .. index' - 1
        BY <1>1, <1>5, <1>6, <3>1
      <4> QED
        BY <4>1
    <3>2. CASE least' = least /\ least # NO_TIME_LEFT
      <4>1. PICK n \in 1 .. index - 1 : least = list[n].left
        BY <1>1, <3>2 DEF LoopInv
      <4>2. n \in 1 .. index' - 1 /\ list'[n] = list[n]
        BY <1>1, <1>5, <1>6, <4>1
      <4> QED
        BY <3>2, <4>1, <4>2
    <3> QED
      BY <1>2, <3>1, <3>2
  <2>5. ASSUME NEW n \in 1 .. index' - 1 PROVE least' <= list'[n].left
    <3>1. least \in Nat /\ entry.left \in Nat /\ least' <= least /\ least' <= entry.left
      <4>1. least \in Nat /\ entry.left \in Nat
        BY <1>1, <1>3, ConstantsAssumption DEF TypeOK, Dword
      <4> QED
        BY <1>2, <4>1
    <3>2. CASE n = index
      BY <1>5, <3>1, <3>2
    <3>3. CASE n # index
      <4>1. n \in 1 .. index - 1 /\ list'[n] = list[n] /\ n \in DOMAIN list
        BY <1>1, <1>5, <1>6, <3>3
      <4>2. least <= list[n].left /\ list[n].left \in Nat
        BY <1>1, <4>1, EntriesOf DEF LoopInv, Dword
      <4>3. least' \in Nat
        BY <1>2, <3>1
      <4> QED
        BY <3>1, <4>1, <4>2, <4>3
    <3> QED
      BY <3>2, <3>3
  <2>6. /\ ThreadRuns' /\ Len(list') <= Len(before'.list)
        /\ before'.timeLeave # NO_TIME_LEFT /\ Minus(before'.timeLeave, TIMER_SPACE) = 0
        /\ timePass' = Plus(before'.timePass, TIMER_SPACE) /\ NoneTwice(before'.list)
    BY <1>1, <1>2, <1>5 DEF LoopInv, ThreadRuns
  <2>7. Visited' = Visited \cup {index + Gone}
    BY <1>6
  <2> QED
    BY <2>1, <2>2, <2>3, <2>4, <2>5, <2>6, <2>7, VisitedInv DEF LoopInv
<1> QED
  BY <1>1, <1>2, <1>7, <1>9 DEF IInv, LockFree

(* An exhausted item: the ones behind it move up to the index.             *)
LEMMA ExhaustInv ==
  ASSUME IInv, ThreadRuns, LoopItem, UNCHANGED service, Exhaust
  PROVE  IInv'
<1> DEFINE at == index + Gone
<1>1. /\ TypeOK /\ LoopInv /\ Gone \in Nat /\ index \in 1 .. Len(list) /\ Len(list) \in Nat
      /\ DOMAIN list = 1 .. Len(list) /\ list[index] \in Entry /\ at \in DOMAIN before.list
      /\ list[index] = before.list[at] /\ Visited = 1 .. at - 1
      /\ Visited \subseteq DOMAIN before.list \ {at} /\ list \in Seq(Entry)
      /\ Len(before.list) \in Nat
  BY LoopAt, TypeFacts DEF LoopItem
<1>2. /\ timePass' = timePass /\ timeLeave' = timeLeave /\ before' = before
      /\ service' = service /\ index' = index /\ least' = least
      /\ list' = RemoveAt(list, index) /\ list[index].repeat = 1
  BY DEF LoopItem, Exhaust
<1>3. ~Stays(before.list[at])
  BY <1>1, <1>2 DEF Stays, IsDue, Exhaust, Notify
<1>4. /\ list' \in Seq(Entry) /\ Len(list') = Len(list) - 1
      /\ \A n \in 1 .. Len(list) - 1 : list'[n] = IF n < index THEN list[n] ELSE list[n + 1]
  BY <1>1, <1>2, RemovedAt
<1>5. NoneTwice(list')
  BY <1>1, <1>2, Removed DEF TypeOK
<1>6. Gone' = Gone + 1 /\ Visited' = Visited \cup {at}
  <2>1. Gone' = Gone + 1
    BY <1>1, <1>2, <1>4 DEF Gone
  <2>2. Visited' = 1 .. index + Gone /\ at \in Nat /\ at >= 1
    BY <1>1, <1>2, <2>1 DEF Visited
  <2>3. 1 .. at = (1 .. at - 1) \cup {at}
    BY <2>2
  <2> QED
    BY <1>1, <2>1, <2>2, <2>3
<1>7. TypeOK'
  BY <1>1, <1>2, <1>4, <1>5, NotifiedFacts DEF TypeOK
<1>8. \A m : Stays(before.list[m])' = Stays(before.list[m])
             /\ After(before.list[m])' = After(before.list[m])
  BY <1>2 DEF Stays, After, IsDue
<1>9. \A n \in 1 .. index - 1 : list'[n] = list[n]
  BY <1>1, <1>4
<1>10. LoopInv'
  <2>1. ASSUME NEW n \in index' .. Len(list') PROVE list'[n] = before'.list[n + Gone']
    <3>1. n \in 1 .. Len(list) - 1 /\ ~(n < index) /\ n + 1 \in index .. Len(list)
      BY <1>1, <1>2, <1>4
    <3>2. list'[n] = list[n + 1]
      BY <1>4, <3>1
    <3>3. list[n + 1] = before.list[n + 1 + Gone]
      BY <1>1, <3>1 DEF LoopInv
    <3>4. n + 1 + Gone = n + Gone'
      BY <1>1, <1>6, <3>1
    <3> QED
      BY <1>2, <3>2, <3>3, <3>4
  <2>2. ASSUME NEW n \in 1 .. index' - 1
        PROVE  \E m \in Visited' : Stays(before.list[m])' /\ list'[n] = After(before.list[m])'
    <3>1. n \in 1 .. index - 1 /\ list'[n] = list[n]
      BY <1>2, <1>9
    <3>2. PICK m \in Visited : Stays(before.list[m]) /\ list[n] = After(before.list[m])
      BY <1>1, <3>1 DEF LoopInv
    <3> QED
      BY <1>6, <1>8, <3>1, <3>2
  <2>3. ASSUME NEW m \in Visited', Stays(before.list[m])'
        PROVE  \E n \in 1 .. index' - 1 : list'[n] = After(before.list[m])'
    <3>1. m \in Visited /\ Stays(before.list[m])
      BY <1>3, <1>6, <1>8, <2>3
    <3>2. PICK n \in 1 .. index - 1 : list[n] = After(before.list[m])
      BY <1>1, <3>1 DEF LoopInv
    <3> QED
      BY <1>2, <1>8, <1>9, <3>2
  <2>4. least' # NO_TIME_LEFT => \E n \in 1 .. index' - 1 : least' = list'[n].left
    BY <1>1, <1>2, <1>9 DEF LoopInv
  <2>5. \A n \in 1 .. index' - 1 : least' <= list'[n].left
    BY <1>1, <1>2, <1>9 DEF LoopInv
  <2>6. /\ ThreadRuns' /\ Len(list') <= Len(before'.list)
        /\ before'.timeLeave # NO_TIME_LEFT /\ Minus(before'.timeLeave, TIMER_SPACE) = 0
        /\ timePass' = Plus(before'.timePass, TIMER_SPACE) /\ NoneTwice(before'.list)
    BY <1>1, <1>2, <1>4 DEF LoopInv, ThreadRuns
  <2>7. Visited' = Visited \cup {index + Gone}
    BY <1>6
  <2> QED
    BY <2>1, <2>2, <2>3, <2>4, <2>5, <2>6, <2>7, VisitedInv DEF LoopInv
<1> QED
  BY <1>1, <1>2, <1>7, <1>10 DEF IInv, LockFree

LEMMA LoopItemInv ==
  ASSUME IInv, ThreadRuns, LoopItem, UNCHANGED service
  PROVE  IInv'
<1>1. CASE NotDue
  BY <1>1, KeepInv DEF NotDue, Stays, After, IsDue
<1>2. CASE Restart
  BY <1>2, KeepInv DEF Restart, Notify, Stays, After, IsDue
<1>3. CASE Exhaust
  BY <1>3, ExhaustInv
<1> QED
  BY <1>1, <1>2, <1>3 DEF LoopItem

LEMMA LoopEndsInv ==
  ASSUME IInv, LoopEnds, UNCHANGED service
  PROVE  IInv'
<1>1. NoLoop \in [timePass : Dword, timeLeave : Dword, list : Seq(Entry), fired : SUBSET Ids]
  BY DwordConstants DEF NoLoop
<1>2. TypeOK /\ Len(list) \in Nat
  BY TypeFacts DEF IInv
<1> QED
  BY <1>1, <1>2, DwordConstants DEF LoopEnds, IInv, TypeOK, LockFree

LEMMA StopServiceInv ==
  ASSUME IInv, StopService
  PROVE  IInv'
<1>1. /\ service' = "stopping" /\ list' = list /\ timePass' = timePass
      /\ timeLeave' = timeLeave /\ index' = index /\ least' = least /\ TypeOK
  BY DEF StopService, IInv
<1>2. CASE LockFree
  <2>1. UNCHANGED loopVars /\ posted' = << >>
    BY <1>1, <1>2 DEF StopService, loopVars
  <2>2. list' \in Seq(Entry) /\ NoneTwice(list')
    BY <1>1 DEF TypeOK
  <2> QED
    BY <1>1, <1>2, <2>1, <2>2, OutsideInv DEF TypeOK
<1>3. CASE ~LockFree
  <2>1. /\ posted' = posted /\ before' = [before EXCEPT !.fired = {}]
        /\ before'.list = before.list /\ before'.timePass = before.timePass
        /\ before'.timeLeave = before.timeLeave
        /\ before' \in [timePass : Dword, timeLeave : Dword, list : Seq(Entry),
                        fired : SUBSET Ids]
    BY <1>1, <1>3 DEF StopService, TypeOK
  <2>2. TypeOK'
    BY <1>1, <2>1 DEF TypeOK
  <2>3. Gone' = Gone /\ Visited' = Visited
    BY <1>1, <2>1 DEF Gone, Visited
  <2>4. \A m : /\ Stays(before.list[m])' = Stays(before.list[m])
               /\ After(before.list[m])' = After(before.list[m])
               /\ IsDue(before.list[m])' = IsDue(before.list[m])
    BY <1>1, <2>1 DEF Stays, After, IsDue
  <2>5. LoopInv
    BY <1>3 DEF IInv
  <2>6. LoopInv'
    BY <1>1, <2>1, <2>3, <2>4, <2>5 DEF LoopInv, ThreadRuns
  <2> QED
    BY <1>1, <1>3, <2>2, <2>6 DEF IInv, LockFree
<1> QED
  BY <1>2, <1>3

LEMMA ServiceInv ==
  ASSUME IInv, StartService \/ ThreadConcluded
  PROVE  IInv'
<1>1. LockFree
  <2>1. CASE StartService
    BY <2>1 DEF StartService, IInv, LoopInv, ThreadRuns
  <2>2. CASE ThreadConcluded
    BY <2>2 DEF ThreadConcluded
  <2> QED
    BY <2>1, <2>2
<1>2. /\ UNCHANGED loopVars /\ posted' = << >> /\ list' = list
      /\ timePass' \in {timePass, 0} /\ timeLeave' \in {timeLeave, NO_TIME_LEFT}
      /\ service' \in {"running", "joined"}
  BY DEF StartService, ThreadConcluded
<1>3. list' \in Seq(Entry) /\ NoneTwice(list') /\ timePass \in Dword /\ timeLeave \in Dword
  BY <1>2 DEF IInv, TypeOK
<1> QED
  BY <1>1, <1>2, <1>3, OutsideInv, DwordConstants

(* The strengthened invariant, with what the loop has done so far, holds   *)
(* in every reachable state.                                               *)
THEOREM InductiveInvariant == Spec => []IInv
<1>1. Init => IInv
  BY InitInv
<1>2. IInv /\ [Next]_vars => IInv'
  <2> SUFFICES ASSUME IInv, [Next]_vars PROVE IInv'
    OBVIOUS
  <2>1. CASE \E id \in Ids : AnySetTimer(id) \/ KillTimer(id)
    BY <2>1, SetTimerInv, KillTimerInv
  <2>2. CASE KillAllTimer
    BY <2>2, ClearedInv DEF KillAllTimer, MayCall
  <2>3. CASE OnTimerThreadSink
    BY <2>3, TickInv, LoopStartsInv, LoopItemInv, LoopEndsInv DEF OnTimerThreadSink
  <2>4. CASE StartService \/ ThreadConcluded
    BY <2>4, ServiceInv
  <2>5. CASE StopService
    BY <2>5, StopServiceInv
  <2>6. CASE StopServiceDone
    <3>1. LockFree
      BY <2>6 DEF StopServiceDone, IInv, LoopInv, ThreadRuns
    <3> QED
      BY <2>6, <3>1, ClearedInv DEF StopServiceDone
  <2>7. CASE UNCHANGED vars
    <3>1. /\ service' = service /\ timePass' = timePass /\ timeLeave' = timeLeave
          /\ list' = list /\ index' = index /\ least' = least /\ posted' = posted
          /\ before' = before
      BY <2>7 DEF vars
    <3>2. TypeOK' /\ LockFree' = LockFree
      BY <3>1 DEF IInv, TypeOK, LockFree
    <3>3. LoopInv' = LoopInv
      BY <3>1 DEF LoopInv, Gone, Visited, Stays, After, IsDue, ThreadRuns
    <3> QED
      BY <3>1, <3>2, <3>3 DEF IInv
  <2> QED
    BY <2>1, <2>2, <2>3, <2>4, <2>5, <2>6, <2>7 DEF Next
<1> QED
  BY <1>1, <1>2, PTL DEF Spec

(* No timer gets into the array twice, none is notified twice by one loop, *)
(* and no DWORD, wrapped or not, leaves its range: for any times at all.   *)
THEOREM TypeCorrect == Spec => []TypeOK
<1>1. IInv => TypeOK
  BY DEF IInv
<1> QED
  BY <1>1, InductiveInvariant, PTL

-----------------------------------------------------------------------------
(* The array implements the set of timers of TimerEngine. *)

(* Engine takes its constants and its arithmetic from the same module.     *)
LEMMA EngineDefinitions ==
  /\ Engine!TIMER_SPACE = TIMER_SPACE /\ Engine!NO_TIME_LEFT = NO_TIME_LEFT
  /\ Engine!TIMER_REPEAT_TIMER = TIMER_REPEAT_TIMER /\ Engine!NoItem = NoItem
  /\ \A a, b : Engine!Plus(a, b) = Plus(a, b) /\ Engine!Minus(a, b) = Minus(a, b)
  /\ \A time : Engine!Rounded(time) = Rounded(time)
  BY DEF Engine!TIMER_SPACE, TIMER_SPACE, Engine!NO_TIME_LEFT, NO_TIME_LEFT,
         Engine!TIMER_REPEAT_TIMER, TIMER_REPEAT_TIMER, Engine!NoItem, NoItem,
         Engine!Plus, Plus, Engine!Minus, Minus, Engine!Rounded, Rounded

LEMMA SettledOutside ==
  /\ LockFree => /\ Settled.timePass = timePass /\ Settled.timeLeave = timeLeave
                 /\ Settled.list = list /\ Settled.fired = ToSet(posted)
  /\ LockFree' => /\ Settled'.timePass = timePass' /\ Settled'.timeLeave = timeLeave'
                  /\ Settled'.list = list' /\ Settled'.fired = ToSet(posted')
  /\ ~LockFree => Settled = before
  /\ ~LockFree' => Settled' = before'
  BY DEF Settled

LEMMA NobodyNotified == ToSet(<< >>) = {}
  BY DEF ToSet

LEMMA NoItems == Numbers(<< >>) = {} /\ ItemsOf(<< >>) = [id \in Ids |-> NoItem]
<1>1. Numbers(<< >>) = {}
  BY DEF Numbers
<1> DEFINE items == << >>
<1>2. Numbers(items) = {}
  BY <1>1
<1> HIDE DEF items
<1>3. ItemsOf(items) = [id \in Ids |-> NoItem]
  BY <1>2 DEF ItemsOf
<1> QED
  BY <1>1, <1>3 DEF items

LEMMA InitRefines == ASSUME Init PROVE Engine!Init
<1>1. LockFree /\ posted = << >> /\ list = << >>
  BY DEF Init, LockFree
<1> QED
  BY <1>1, SettledOutside, NobodyNotified, NoItems, EngineDefinitions DEF Init, Engine!Init

LEMMA SetTimerRefines ==
  ASSUME IInv, NEW id \in Ids, NEW time \in Elapses, NEW repeat \in Repeats,
         SetTimer(id, time, repeat)
  PROVE  Engine!SetTimer(id, time, repeat)
<1> DEFINE entry == [id |-> id, elapse |-> Rounded(time), left |-> Charged(Rounded(time)),
                     repeat |-> repeat]
<1>1. /\ TypeOK /\ LockFree /\ LockFree' /\ repeat > 0 /\ Put(entry) /\ service = "running"
      /\ timeLeave' = Earlier(Rounded(time)) /\ posted' = << >>
      /\ service' = service /\ timePass' = timePass
  BY DEF IInv, SetTimer, MayCall, LockFree, loopVars
<1>2. entry \in Entry
  BY <1>1, NewEntry
<1>3. /\ entry.id = id
      /\ Fields(entry) = [elapse |-> Rounded(time), left |-> Plus(Rounded(time), timePass),
                          repeat |-> repeat]
  BY DEF Fields, Charged
<1> HIDE DEF entry
<1>4. /\ Numbers(list') = Numbers(list) \cup {id}
      /\ ItemsOf(list') = [ItemsOf(list) EXCEPT ![id] = Fields(entry)]
  BY <1>1, <1>2, <1>3, PutFacts
<1> QED
  BY <1>1, <1>3, <1>4, SettledOutside, NobodyNotified, EngineDefinitions
     DEF Engine!SetTimer, Engine!MayCall, Earlier

LEMMA KillTimerRefines ==
  ASSUME IInv, NEW id \in Ids, KillTimer(id)
  PROVE  Engine!KillTimer(id)
<1>1. /\ TypeOK /\ LockFree /\ LockFree' /\ service = "running" /\ service' = service
      /\ posted' = << >>
      /\ IF list' = << >> THEN timePass' = 0 /\ timeLeave' = NO_TIME_LEFT
                          ELSE timePass' = timePass /\ timeLeave' = timeLeave
  BY DEF IInv, KillTimer, MayCall, LockFree, loopVars
<1>2. /\ id \in Numbers(list) /\ Numbers(list') = Numbers(list) \ {id}
      /\ ItemsOf(list') = [ItemsOf(list) EXCEPT ![id] = NoItem]
      /\ list' = << >> <=> Numbers(list) = {id}
  BY <1>1, KilledFacts
<1> QED
  BY <1>1, <1>2, SettledOutside, NobodyNotified, EngineDefinitions
     DEF Engine!KillTimer, Engine!MayCall

LEMMA ClearedRefines ==
  ASSUME LockFree, ClearTimers
  PROVE  Engine!ClearTimers
<1>1. /\ LockFree' /\ list' = << >> /\ posted' = << >> /\ timePass' = 0
      /\ timeLeave' = NO_TIME_LEFT
  BY DEF ClearTimers, LockFree, loopVars
<1> QED
  BY <1>1, SettledOutside, NobodyNotified, NoItems, EngineDefinitions DEF Engine!ClearTimers

(* A step outside of the loop that leaves the array alone.                 *)
LEMMA SameArray ==
  ASSUME LockFree, UNCHANGED <<list, loopVars>>, posted' = << >>
  PROVE  /\ Numbers(Settled.list)' = Numbers(Settled.list)
         /\ ItemsOf(Settled.list)' = ItemsOf(Settled.list)
         /\ Settled'.fired = {}
         /\ Settled.timePass = timePass /\ Settled'.timePass = timePass'
         /\ Settled.timeLeave = timeLeave /\ Settled'.timeLeave = timeLeave'
<1>1. LockFree' /\ list' = list
  BY DEF LockFree, loopVars
<1>2. Settled.list = list /\ Settled'.list = list
  BY <1>1, SettledOutside
<1>3. Numbers(Settled.list)' = Numbers(list) /\ ItemsOf(Settled.list)' = ItemsOf(list)
  BY <1>1, <1>2
<1> QED
  BY <1>1, <1>2, <1>3, SettledOutside, NobodyNotified

LEMMA TickIdleRefines == ASSUME TickIdle PROVE Engine!TickIdle
<1>1. LockFree /\ UNCHANGED <<list, loopVars>> /\ posted' = << >>
      /\ timeLeave = NO_TIME_LEFT /\ timePass' = timePass /\ timeLeave' = timeLeave
  BY DEF TickIdle
<1> QED
  BY <1>1, SameArray, EngineDefinitions DEF Engine!TickIdle

LEMMA TickCountsRefines == ASSUME TickCounts PROVE Engine!TickCounts
<1>1. /\ LockFree /\ UNCHANGED <<list, loopVars>> /\ posted' = << >>
      /\ timeLeave # NO_TIME_LEFT /\ Minus(timeLeave, TIMER_SPACE) # 0
      /\ timeLeave' = Minus(timeLeave, TIMER_SPACE)
      /\ timePass' = Plus(timePass, TIMER_SPACE)
  BY DEF TickCounts
<1> QED
  BY <1>1, SameArray, EngineDefinitions DEF Engine!TickCounts

(* The loop takes no effect before it ends. *)
LEMMA LoopIsQuiet ==
  ASSUME LoopStarts \/ LoopItem, IInv, IInv', UNCHANGED service
  PROVE  UNCHANGED Engine!vars
<1>1. Settled' = Settled
  <2>1. CASE LoopStarts
    <3>1. /\ LockFree /\ ~LockFree'
          /\ before' = [timePass |-> timePass, timeLeave |-> timeLeave, list |-> list,
                        fired |-> ToSet(posted)]
      BY <2>1 DEF LoopStarts, LockFree
    <3> QED
      BY <3>1 DEF Settled
  <2>2. CASE LoopItem
    <3>1. ~LockFree /\ before' = before
      BY <2>2, LoopAt DEF LoopItem, LockFree
    <3>2. index' \in {index, index + 1} /\ index \in Nat /\ index # 0
      BY <2>2, LoopAt, TypeFacts DEF LoopItem, NotDue, Restart, Exhaust, Keep
    <3>3. ~LockFree'
      BY <3>2 DEF LockFree
    <3> QED
      BY <3>1, <3>3 DEF Settled
  <2> QED
    BY <2>1, <2>2
<1>2. /\ Numbers(Settled.list)' = Numbers(Settled.list)
      /\ ItemsOf(Settled.list)' = ItemsOf(Settled.list)
      /\ Settled'.timePass = Settled.timePass /\ Settled'.timeLeave = Settled.timeLeave
      /\ Settled'.fired = Settled.fired
  BY <1>1
<1> QED
  BY <1>2 DEF Engine!vars

(* What TimerEngine says of a timer in the scan, in terms of its entry.    *)
LEMMA ScannedEntry ==
  ASSUME IInv, ~LockFree, NEW m \in DOMAIN before.list
  PROVE  LET entry == before.list[m]
             id == entry.id
         IN /\ id \in Ids /\ id \in Numbers(before.list)
            /\ id \in Engine!Due(timePass) <=> IsDue(entry)
            /\ id \in Engine!Exhausted(timePass) <=> ~Stays(entry)
            /\ ~Stays(entry) => Engine!Scanned(id, timePass) = NoItem
            /\ Stays(entry) => Engine!Scanned(id, timePass) = Fields(After(entry))
<1> DEFINE entry == before.list[m]
           id == entry.id
           fields == Fields(entry)
<1>1. /\ TypeOK /\ LoopInv /\ before.list \in Seq(Entry) /\ NoneTwice(before.list)
      /\ Settled.list = before.list
  BY TypeFacts, SettledOutside DEF IInv, LoopInv
<1>2. entry \in Entry /\ id \in Ids /\ id \in Numbers(before.list)
  BY <1>1, EntriesOf
<1>3. ItemsOf(before.list)[id] = fields
  BY <1>1, ItemOfEntry
<1>4. /\ fields = [elapse |-> entry.elapse, left |-> entry.left, repeat |-> entry.repeat]
      /\ fields.elapse = entry.elapse /\ fields.left = entry.left
      /\ fields.repeat = entry.repeat
  BY DEF Fields
<1> HIDE DEF entry, id, fields
<1>5. id \in Engine!Due(timePass) <=> IsDue(entry)
  BY <1>1, <1>2, <1>3, <1>4, EngineDefinitions DEF Engine!Due, IsDue
<1>6. id \in Engine!Exhausted(timePass) <=> ~Stays(entry)
  BY <1>1, <1>3, <1>4, <1>5 DEF Engine!Exhausted, Stays
<1>7. ASSUME ~Stays(entry) PROVE Engine!Scanned(id, timePass) = NoItem
  BY <1>1, <1>2, <1>6, <1>7, EngineDefinitions DEF Engine!Scanned
<1>8. ASSUME Stays(entry) PROVE Engine!Scanned(id, timePass) = Fields(After(entry))
  <2>1. /\ After(entry).elapse = entry.elapse
        /\ After(entry).left = IF IsDue(entry) THEN entry.elapse
                                               ELSE Minus(entry.left, timePass)
        /\ After(entry).repeat =
             IF IsDue(entry) /\ entry.repeat # TIMER_REPEAT_TIMER
             THEN Minus(entry.repeat, 1) ELSE entry.repeat
    BY <1>1, <1>2, <1>8, AfterEntry
  <2>2. CASE IsDue(entry)
    <3>1. Engine!Scanned(id, timePass)
            = [elapse |-> entry.elapse, left |-> entry.elapse,
               repeat |-> IF entry.repeat = TIMER_REPEAT_TIMER THEN entry.repeat
                                                    ELSE Minus(entry.repeat, 1)]
      BY <1>1, <1>2, <1>3, <1>4, <1>5, <1>6, <1>8, <2>2, EngineDefinitions
         DEF Engine!Scanned
    <3> QED
      BY <2>1, <2>2, <3>1 DEF Fields
  <2>3. CASE ~IsDue(entry)
    <3>1. Engine!Scanned(id, timePass)
            = [fields EXCEPT !.left = Minus(entry.left, timePass)]
      BY <1>1, <1>2, <1>3, <1>4, <1>5, <1>6, <1>8, <2>3, EngineDefinitions
         DEF Engine!Scanned
    <3> QED
      BY <1>4, <2>1, <2>3, <3>1 DEF Fields
  <2> QED
    BY <2>2, <2>3
<1> QED
  BY <1>2, <1>5, <1>6, <1>7, <1>8 DEF entry, id

(* When it ends, it has done what TimerEngine's scan does in one step.     *)
LEMMA LoopEndsRefines ==
  ASSUME IInv, LoopEnds
  PROVE  Engine!TickScans
<1> DEFINE old == before.list
           pass == timePass
<1>1. /\ TypeOK /\ LockFree' /\ ~LockFree /\ index = Len(list) + 1
      /\ list \in Seq(Entry) /\ NoneTwice(list) /\ Len(list) \in Nat
      /\ DOMAIN list = 1 .. Len(list)
      /\ old \in Seq(Entry) /\ Len(old) \in Nat /\ DOMAIN old = 1 .. Len(old)
      /\ list' = list /\ posted' = posted /\ timePass' = 0 /\ timeLeave' = least
      /\ least \in Dword
  BY TypeFacts DEF IInv, LoopEnds, LockFree, TypeOK
<1>2. LoopInv
  BY <1>1 DEF IInv
<1>3. Visited = DOMAIN old /\ 1 .. index - 1 = DOMAIN list
  BY <1>1, <1>2 DEF Visited, Gone, LoopInv
<1>4. /\ Settled = before /\ Settled.list = old /\ Settled'.list = list
      /\ Settled'.timePass = 0 /\ Settled'.timeLeave = least
      /\ Settled'.fired = ToSet(posted)
  BY <1>1, SettledOutside
<1>5. /\ Numbers(Settled.list)' = Numbers(list) /\ ItemsOf(Settled.list)' = ItemsOf(list)
  BY <1>4
<1>6. ASSUME NEW m \in DOMAIN old
      PROVE  /\ old[m].id \in Ids /\ old[m].id \in Numbers(old)
             /\ old[m].id \in Engine!Due(pass) <=> IsDue(old[m])
             /\ old[m].id \in Engine!Exhausted(pass) <=> ~Stays(old[m])
             /\ ~Stays(old[m]) => Engine!Scanned(old[m].id, pass) = NoItem
             /\ Stays(old[m]) => Engine!Scanned(old[m].id, pass) = Fields(After(old[m]))
             /\ Stays(old[m]) => After(old[m]).id = old[m].id
  BY <1>1, ScannedEntry, EntriesOf, AfterEntry
<1>7. /\ Engine!Due(pass) \subseteq Numbers(old)
      /\ Engine!Exhausted(pass) \subseteq Numbers(old)
  BY <1>4 DEF Engine!Due, Engine!Exhausted
<1>8. ASSUME NEW n \in DOMAIN list
      PROVE  \E m \in DOMAIN old : Stays(old[m]) /\ list[n] = After(old[m])
  BY <1>2, <1>3 DEF LoopInv
<1>9. ASSUME NEW m \in DOMAIN old, Stays(old[m])
      PROVE  \E n \in DOMAIN list : list[n] = After(old[m])
  BY <1>2, <1>3, <1>9 DEF LoopInv
<1>10. /\ \A m \in DOMAIN old : IsDue(old[m]) => old[m].id \in ToSet(posted)
       /\ \A id \in ToSet(posted) : \E m \in DOMAIN old : IsDue(old[m]) /\ old[m].id = id
       /\ least # NO_TIME_LEFT => \E n \in DOMAIN list : least = list[n].left
       /\ \A n \in DOMAIN list : least <= list[n].left
       /\ before.timeLeave # NO_TIME_LEFT /\ Minus(before.timeLeave, TIMER_SPACE) = 0
       /\ pass = Plus(before.timePass, TIMER_SPACE)
  BY <1>2, <1>3 DEF LoopInv
<1> HIDE DEF old, pass
<1>11. ToSet(posted) = Engine!Due(pass)
  <2>1. ToSet(posted) \subseteq Engine!Due(pass)
    BY <1>6, <1>10
  <2>2. ASSUME NEW id \in Engine!Due(pass) PROVE id \in ToSet(posted)
    <3>1. PICK m \in DOMAIN old : old[m].id = id
      BY <1>7 DEF Numbers
    <3> QED
      BY <1>6, <1>10, <3>1
  <2> QED
    BY <2>1, <2>2
<1>12. Numbers(list) = Numbers(old) \ Engine!Exhausted(pass)
  <2>1. ASSUME NEW n \in DOMAIN list
        PROVE  list[n].id \in Numbers(old) \ Engine!Exhausted(pass)
    BY <1>6, <1>8
  <2>2. ASSUME NEW m \in DOMAIN old, old[m].id \notin Engine!Exhausted(pass)
        PROVE  old[m].id \in Numbers(list)
    <3>1. Stays(old[m]) /\ After(old[m]).id = old[m].id
      BY <1>6, <2>2
    <3>2. PICK n \in DOMAIN list : list[n] = After(old[m])
      BY <1>9, <3>1
    <3>3. list[n].id = old[m].id
      BY <3>1, <3>2
    <3> QED
      BY <1>1, <3>3, EntriesOf
  <2>3. Numbers(list) \subseteq Numbers(old) \ Engine!Exhausted(pass)
    BY <2>1 DEF Numbers
  <2>4. Numbers(old) \ Engine!Exhausted(pass) \subseteq Numbers(list)
    BY <2>2 DEF Numbers
  <2> QED
    BY <2>3, <2>4
<1>13. ASSUME NEW id \in Ids PROVE ItemsOf(list)[id] = Engine!Scanned(id, pass)
  <2>1. CASE id \notin Numbers(old)
    <3>1. ItemsOf(list)[id] = NoItem /\ ItemsOf(old)[id] = NoItem
      BY <1>12, <2>1, NoItemOf
    <3> QED
      BY <1>4, <2>1, <3>1 DEF Engine!Scanned
  <2>2. ASSUME NEW m \in DOMAIN old, old[m].id = id
        PROVE  ItemsOf(list)[id] = Engine!Scanned(id, pass)
    <3>1. CASE Stays(old[m])
      <4>1. PICK n \in DOMAIN list : list[n] = After(old[m])
        BY <1>9, <3>1
      <4>2. list[n].id = id
        BY <1>6, <2>2, <3>1, <4>1
      <4>3. ItemsOf(list)[id] = Fields(list[n])
        BY <1>1, <4>2, ItemOfEntry
      <4> QED
        BY <1>6, <2>2, <3>1, <4>1, <4>3
    <3>2. CASE ~Stays(old[m])
      <4>1. id \notin Numbers(list)
        BY <1>6, <1>12, <2>2, <3>2
      <4> QED
        BY <1>6, <2>2, <3>2, <4>1, NoItemOf
    <3> QED
      BY <3>1, <3>2
  <2> QED
    BY <2>1, <2>2 DEF Numbers
<1>14. ItemsOf(list) = [id \in Ids |-> Engine!Scanned(id, pass)]
  <2> DEFINE scanned(id) == Engine!Scanned(id, pass)
  <2>1. \A id \in Ids : ItemsOf(list)[id] = scanned(id)
    BY <1>13
  <2> HIDE DEF scanned
  <2>2. ItemsOf(list) = [id \in Ids |-> scanned(id)]
    BY <1>1, <2>1, ItemsType
  <2> QED
    BY <2>2 DEF scanned
<1> DEFINE next == {NO_TIME_LEFT} \cup {ItemsOf(list)[id].left : id \in Numbers(list)}
<1> HIDE DEF next
<1>15. ASSUME NEW n \in DOMAIN list
       PROVE  list[n].id \in Numbers(list) /\ ItemsOf(list)[list[n].id].left = list[n].left
  <2>1. list[n].id \in Numbers(list) /\ ItemsOf(list)[list[n].id] = Fields(list[n])
    BY <1>1, EntriesOf, ItemOfEntry
  <2>2. Fields(list[n]).left = list[n].left
    BY DEF Fields
  <2> QED
    BY <2>1, <2>2
<1>16. least \in next
  <2>1. CASE least = NO_TIME_LEFT
    BY <2>1 DEF next
  <2>2. CASE least # NO_TIME_LEFT
    <3>1. PICK n \in DOMAIN list : least = list[n].left
      BY <1>10, <2>2
    <3> QED
      BY <1>15, <3>1 DEF next
  <2> QED
    BY <2>1, <2>2
<1>17. ASSUME NEW time \in next PROVE least <= time
  <2>1. CASE time = NO_TIME_LEFT
    BY <1>1, <2>1, ConstantsAssumption DEF Dword, NO_TIME_LEFT
  <2>2. CASE time # NO_TIME_LEFT
    <3>1. PICK n \in DOMAIN list : time = ItemsOf(list)[list[n].id].left
      BY <2>2 DEF next, Numbers
    <3> QED
      BY <1>10, <1>15, <3>1
  <2> QED
    BY <2>1, <2>2
<1>18. /\ Settled'.fired = Engine!Due(pass)
       /\ Numbers(Settled.list)' = Numbers(Settled.list) \ Engine!Exhausted(pass)
       /\ ItemsOf(Settled.list)' = [id \in Ids |-> Engine!Scanned(id, pass)]
       /\ Settled.timeLeave # NO_TIME_LEFT /\ Minus(Settled.timeLeave, TIMER_SPACE) = 0
       /\ pass = Plus(Settled.timePass, TIMER_SPACE)
  BY <1>4, <1>5, <1>10, <1>11, <1>12, <1>14
<1>19. /\ Settled'.timeLeave
            \in {NO_TIME_LEFT} \cup {ItemsOf(Settled.list)'[id].left : id \in Numbers(Settled.list)'}
       /\ \A time \in {NO_TIME_LEFT} \cup
                      {ItemsOf(Settled.list)'[id].left : id \in Numbers(Settled.list)'} :
            Settled'.timeLeave <= time
  BY <1>4, <1>5, <1>16, <1>17 DEF next
<1> QED
  BY <1>4, <1>18, <1>19, EngineDefinitions DEF Engine!TickScans

LEMMA StepRefines ==
  ASSUME IInv, IInv', [Next]_vars
  PROVE  [Engine!Next]_(Engine!vars)
<1>1. ASSUME NEW id \in Ids, AnySetTimer(id) PROVE Engine!Next
  BY <1>1, SetTimerRefines DEF AnySetTimer, Engine!AnySetTimer, Engine!Next
<1>2. ASSUME NEW id \in Ids, KillTimer(id) PROVE Engine!Next
  BY <1>2, KillTimerRefines DEF Engine!Next
<1>3. CASE KillAllTimer
  BY <1>3, ClearedRefines DEF KillAllTimer, MayCall, Engine!KillAllTimer, Engine!MayCall, Engine!Next
<1>4. CASE OnTimerThreadSink
  <2>1. Engine!ThreadRuns /\ service' = service
    BY <1>4 DEF OnTimerThreadSink, ThreadRuns, Engine!ThreadRuns
  <2>2. CASE TickIdle \/ TickCounts \/ LoopEnds
    BY <2>1, <2>2, TickIdleRefines, TickCountsRefines, LoopEndsRefines
       DEF Engine!OnTimerThreadSink, Engine!Next
  <2>3. CASE LoopStarts \/ LoopItem
    BY <2>1, <2>3, LoopIsQuiet
  <2> QED
    BY <1>4, <2>2, <2>3 DEF OnTimerThreadSink
<1>5. CASE StartService
  <2>1. /\ LockFree /\ UNCHANGED <<list, loopVars>> /\ posted' = << >>
        /\ service = "stopped" /\ service' = "running" /\ timePass' = 0
        /\ timeLeave' = NO_TIME_LEFT
    BY <1>5 DEF StartService, IInv, LoopInv, ThreadRuns
  <2>2. Engine!StartService
    BY <2>1, SameArray, EngineDefinitions DEF Engine!StartService
  <2> QED
    BY <2>2 DEF Engine!Next
<1>6. CASE StopService /\ LockFree
  <2>1. /\ LockFree /\ UNCHANGED <<list, loopVars>> /\ posted' = << >>
        /\ service = "running" /\ service' = "stopping" /\ timePass' = timePass
        /\ timeLeave' = timeLeave
    BY <1>6 DEF StopService, loopVars
  <2>2. Engine!StopService
    BY <2>1, SameArray DEF Engine!StopService
  <2> QED
    BY <2>2 DEF Engine!Next
<1>7. CASE StopService /\ ~LockFree
  <2>1. /\ ~LockFree' /\ service = "running" /\ service' = "stopping"
        /\ before' = [before EXCEPT !.fired = {}]
    BY <1>7 DEF StopService, LockFree
  <2>2. /\ before'.list = before.list /\ before'.timePass = before.timePass
        /\ before'.timeLeave = before.timeLeave /\ before'.fired = {}
    BY <2>1 DEF IInv, TypeOK
  <2>3. Settled = before /\ Settled' = before'
    BY <1>7, <2>1 DEF Settled
  <2>4. /\ Numbers(Settled.list)' = Numbers(Settled.list)
        /\ ItemsOf(Settled.list)' = ItemsOf(Settled.list)
    <3>1. Settled'.list = Settled.list
      BY <2>2, <2>3
    <3> QED
      BY <3>1
  <2>5. Engine!StopService
    BY <2>1, <2>2, <2>3, <2>4 DEF Engine!StopService
  <2> QED
    BY <2>5 DEF Engine!Next
<1>8. CASE ThreadConcluded
  <2>1. /\ LockFree /\ UNCHANGED <<list, loopVars>> /\ posted' = << >>
        /\ service = "stopping" /\ service' = "joined" /\ timePass' = timePass
        /\ timeLeave' = timeLeave
    BY <1>8 DEF ThreadConcluded
  <2>2. Engine!ThreadConcluded
    BY <2>1, SameArray DEF Engine!ThreadConcluded
  <2> QED
    BY <2>2 DEF Engine!Next
<1>9. CASE StopServiceDone
  <2>1. LockFree
    BY <1>9 DEF StopServiceDone, IInv, LoopInv, ThreadRuns
  <2>2. Engine!StopServiceDone
    BY <1>9, <2>1, ClearedRefines DEF StopServiceDone, Engine!StopServiceDone
  <2> QED
    BY <2>2 DEF Engine!Next
<1>10. CASE UNCHANGED vars
  <2>1. Settled' = Settled /\ service' = service
    BY <1>10 DEF vars, Settled, LockFree
  <2>2. /\ Numbers(Settled.list)' = Numbers(Settled.list)
        /\ ItemsOf(Settled.list)' = ItemsOf(Settled.list)
        /\ Settled'.timePass = Settled.timePass /\ Settled'.timeLeave = Settled.timeLeave
        /\ Settled'.fired = Settled.fired
    BY <2>1
  <2> QED
    BY <2>1, <2>2 DEF Engine!vars
<1> QED
  BY <1>1, <1>2, <1>3, <1>4, <1>5, <1>6, <1>7, <1>8, <1>9, <1>10 DEF Next

(* The array, its search and the loop that removes items while it walks    *)
(* implement TimerEngine's set and its scan in one step: for any timers,   *)
(* any times, and any size of a DWORD.                                     *)
THEOREM ArrayImplementsEngine == Spec => ImplementsEngine
<1>1. Init => Engine!Init
  BY InitRefines
<1>2. IInv /\ IInv' /\ [Next]_vars => [Engine!Next]_(Engine!vars)
  BY StepRefines
<1> QED
  BY <1>1, <1>2, InductiveInvariant, PTL DEF Spec, ImplementsEngine, Engine!Spec

-----------------------------------------------------------------------------
(* What is proved of TimerEngine holds of the array. *)

EngineProofs == INSTANCE TimerEngineProofs WITH
  timePass <- Settled.timePass, timeLeave <- Settled.timeLeave,
  active <- Numbers(Settled.list), item <- ItemsOf(Settled.list), fired <- Settled.fired

(* The two instances of TimerEngine say the same. *)
LEMMA SameInit == Engine!Init <=> EngineProofs!Init
  BY DEF Engine!Init, EngineProofs!Init, Engine!NO_TIME_LEFT, EngineProofs!NO_TIME_LEFT,
         Engine!NoItem, EngineProofs!NoItem

LEMMA SameCalls ==
  /\ \A id : Engine!AnySetTimer(id) <=> EngineProofs!AnySetTimer(id)
  /\ \A id : Engine!KillTimer(id) <=> EngineProofs!KillTimer(id)
  /\ Engine!KillAllTimer <=> EngineProofs!KillAllTimer
  BY DEF Engine!AnySetTimer, EngineProofs!AnySetTimer, Engine!SetTimer, EngineProofs!SetTimer,
         Engine!KillTimer, EngineProofs!KillTimer, Engine!KillAllTimer,
         EngineProofs!KillAllTimer, Engine!ClearTimers, EngineProofs!ClearTimers,
         Engine!MayCall, EngineProofs!MayCall, Engine!Plus, EngineProofs!Plus,
         Engine!Rounded, EngineProofs!Rounded, Engine!TIMER_SPACE, EngineProofs!TIMER_SPACE,
         Engine!NO_TIME_LEFT, EngineProofs!NO_TIME_LEFT, Engine!NoItem, EngineProofs!NoItem

LEMMA SameTick == Engine!OnTimerThreadSink <=> EngineProofs!OnTimerThreadSink
  BY DEF Engine!OnTimerThreadSink, EngineProofs!OnTimerThreadSink, Engine!ThreadRuns,
         EngineProofs!ThreadRuns, Engine!TickIdle, EngineProofs!TickIdle, Engine!TickCounts,
         EngineProofs!TickCounts, Engine!TickScans, EngineProofs!TickScans, Engine!Due,
         EngineProofs!Due, Engine!Exhausted, EngineProofs!Exhausted, Engine!Scanned,
         EngineProofs!Scanned, Engine!Plus, EngineProofs!Plus, Engine!Minus,
         EngineProofs!Minus, Engine!TIMER_SPACE, EngineProofs!TIMER_SPACE,
         Engine!NO_TIME_LEFT, EngineProofs!NO_TIME_LEFT, Engine!NoItem, EngineProofs!NoItem,
         Engine!TIMER_REPEAT_TIMER, EngineProofs!TIMER_REPEAT_TIMER

LEMMA SameService ==
  /\ Engine!StartService <=> EngineProofs!StartService
  /\ Engine!StopService <=> EngineProofs!StopService
  /\ Engine!ThreadConcluded <=> EngineProofs!ThreadConcluded
  /\ Engine!StopServiceDone <=> EngineProofs!StopServiceDone
  BY DEF Engine!StartService, EngineProofs!StartService, Engine!StopService,
         EngineProofs!StopService, Engine!ThreadConcluded, EngineProofs!ThreadConcluded,
         Engine!StopServiceDone, EngineProofs!StopServiceDone, Engine!ClearTimers,
         EngineProofs!ClearTimers, Engine!NO_TIME_LEFT, EngineProofs!NO_TIME_LEFT,
         Engine!NoItem, EngineProofs!NoItem

LEMMA SameNext ==
  [Engine!Next]_(Engine!vars) <=> [EngineProofs!Next]_(EngineProofs!vars)
<1>1. Engine!Next <=> EngineProofs!Next
  BY SameCalls, SameTick, SameService DEF Engine!Next, EngineProofs!Next
<1>2. UNCHANGED Engine!vars <=> UNCHANGED EngineProofs!vars
  BY DEF Engine!vars, EngineProofs!vars
<1> QED
  BY <1>1, <1>2

LEMMA EngineSpecs == Engine!Spec => EngineProofs!Spec
<1>1. Engine!Init <=> EngineProofs!Init
  BY SameInit
<1>2. [Engine!Next]_(Engine!vars) <=> [EngineProofs!Next]_(EngineProofs!vars)
  BY SameNext
<1> QED
  BY <1>1, <1>2, PTL DEF Engine!Spec, EngineProofs!Spec

LEMMA ProvedOfEngine ==
  ASSUME ModestElapses
  PROVE  Engine!Spec => /\ []EngineProofs!IInv
                        /\ []EngineProofs!CountdownIsEarliest
                        /\ EngineProofs!CountsEachTimer
<1>1. EngineProofs!ModestElapses
  BY DEF ModestElapses, EngineProofs!ModestElapses, TIMER_SPACE, EngineProofs!TIMER_SPACE,
         NO_TIME_LEFT, EngineProofs!NO_TIME_LEFT
<1>2. ConstantsAssumption
  BY ConstantsAssumption DEF ConstantsAssumption
<1>3. EngineProofs!Spec => []EngineProofs!IInv
  BY <1>1, <1>2, EngineProofs!InductiveInvariant
<1>4. EngineProofs!Spec => []EngineProofs!CountdownIsEarliest
  BY <1>1, <1>2, EngineProofs!CountdownAlwaysEarliest
<1>5. EngineProofs!Spec => EngineProofs!CountsEachTimer
  BY <1>1, <1>2, EngineProofs!ImplementsTimers
<1> QED
  BY <1>3, <1>4, <1>5, EngineSpecs, PTL

LEMMA SameCountdowns ==
  /\ Engine!Countdowns!Init <=> EngineProofs!Countdowns!Init
  /\ [Engine!Countdowns!Next]_(Engine!Countdowns!vars)
       <=> [EngineProofs!Countdowns!Next]_(EngineProofs!Countdowns!vars)
<1>1. Engine!TimeToGo = EngineProofs!TimeToGo /\ Engine!ThreadRuns = EngineProofs!ThreadRuns
  BY DEF Engine!TimeToGo, EngineProofs!TimeToGo, Engine!ThreadRuns, EngineProofs!ThreadRuns,
         Engine!NoItem, EngineProofs!NoItem
<1>2. Engine!TimeToGo' = EngineProofs!TimeToGo' /\ Engine!ThreadRuns' = EngineProofs!ThreadRuns'
  BY DEF Engine!TimeToGo, EngineProofs!TimeToGo, Engine!ThreadRuns, EngineProofs!ThreadRuns,
         Engine!NoItem, EngineProofs!NoItem
<1>3. Engine!Countdowns!Init <=> EngineProofs!Countdowns!Init
  BY <1>1 DEF Engine!Countdowns!Init, EngineProofs!Countdowns!Init,
     Engine!Countdowns!NoTimer, EngineProofs!Countdowns!NoTimer
<1>4. Engine!Countdowns!Tick <=> EngineProofs!Countdowns!Tick
  BY <1>1, <1>2
     DEF Engine!Countdowns!Tick, EngineProofs!Countdowns!Tick, Engine!Countdowns!Counted,
         EngineProofs!Countdowns!Counted, Engine!Countdowns!NoTimer,
         EngineProofs!Countdowns!NoTimer, Engine!Countdowns!Space,
         EngineProofs!Countdowns!Space, Engine!TIMER_REPEAT_TIMER,
         EngineProofs!TIMER_REPEAT_TIMER
<1>5. Engine!Countdowns!Next <=> EngineProofs!Countdowns!Next
  BY <1>1, <1>2, <1>4
     DEF Engine!Countdowns!Next, EngineProofs!Countdowns!Next, Engine!Countdowns!Set,
         EngineProofs!Countdowns!Set, Engine!Countdowns!Kill,
         EngineProofs!Countdowns!Kill, Engine!Countdowns!KillAll,
         EngineProofs!Countdowns!KillAll, Engine!Countdowns!Switch,
         EngineProofs!Countdowns!Switch, Engine!Countdowns!Quiet,
         EngineProofs!Countdowns!Quiet, Engine!Countdowns!NoTimer,
         EngineProofs!Countdowns!NoTimer, Engine!Countdowns!Space,
         EngineProofs!Countdowns!Space, Engine!Countdowns!RoundUp,
         EngineProofs!Countdowns!RoundUp
<1>6. UNCHANGED Engine!Countdowns!vars <=> UNCHANGED EngineProofs!Countdowns!vars
  BY <1>1, <1>2 DEF Engine!Countdowns!vars, EngineProofs!Countdowns!vars
<1> QED
  BY <1>3, <1>5, <1>6

(* Every timer is notified in its own tick and in no other, whatever the   *)
(* order of the array and whoever the loop removes from it.                *)
THEOREM ImplementsTimers == ASSUME ModestElapses PROVE Spec => CountsEachTimer
<1>1. Engine!Countdowns!Init <=> EngineProofs!Countdowns!Init
  BY SameCountdowns
<1>2. [Engine!Countdowns!Next]_(Engine!Countdowns!vars)
       <=> [EngineProofs!Countdowns!Next]_(EngineProofs!Countdowns!vars)
  BY SameCountdowns
<1>3. EngineProofs!CountsEachTimer => CountsEachTimer
  BY <1>1, <1>2, PTL
     DEF CountsEachTimer, Engine!CountsEachTimer, EngineProofs!CountsEachTimer,
         Engine!Countdowns!Spec, EngineProofs!Countdowns!Spec
<1> QED
  BY <1>3, ArrayImplementsEngine, ProvedOfEngine, PTL DEF ImplementsEngine

(* In the loop no item ahead is overdue and the minimum is whole ticks.    *)
LEMMA LoopAsserts ==
  ASSUME IInv, EngineProofs!IInv, ~LockFree
  PROVE  /\ \A n \in index .. Len(list) : list[n].left >= timePass
         /\ \A n \in 1 .. index - 1 : least <= list[n].left
         /\ least # NO_TIME_LEFT => least % TIMER_SPACE = 0
<1> DEFINE old == before.list
<1>1. /\ TypeOK /\ LoopInv /\ Settled = before /\ old \in Seq(Entry) /\ NoneTwice(old)
      /\ Len(list) \in Nat /\ Len(old) \in Nat /\ DOMAIN old = 1 .. Len(old)
      /\ index \in Nat /\ index <= Len(list) + 1 /\ index >= 1
      /\ before.timePass \in Nat /\ before.timeLeave \in Nat
      /\ DwordSize \in Nat /\ DwordSize > 50
  BY TypeFacts, SettledOutside, ConstantsAssumption DEF IInv, LoopInv, Dword, LockFree
<1>2. /\ Numbers(old) # {}
      /\ before.timeLeave >= 25 /\ 2 * (before.timePass + before.timeLeave) < DwordSize - 1
      /\ before.timePass % 25 = 0
  BY <1>1 DEF LoopInv, NO_TIME_LEFT, EngineProofs!IInv, EngineProofs!ClockInv,
              EngineProofs!Ticks, EngineProofs!TIMER_SPACE, EngineProofs!NO_TIME_LEFT
<1>3. before.timeLeave = 25
  BY <1>1, <1>2 DEF LoopInv, Minus, TIMER_SPACE
<1>4. timePass = before.timePass + 25 /\ timePass \in Nat /\ timePass % 25 = 0
  <2>1. timePass = before.timePass + 25
    BY <1>1, <1>2, <1>3 DEF LoopInv, Plus, TIMER_SPACE
  <2> QED
    BY <1>1, <1>2, <2>1
<1>5. ASSUME NEW m \in DOMAIN old
      PROVE  /\ old[m].left \in Nat /\ old[m].elapse \in Nat
             /\ old[m].left >= timePass /\ old[m].left % 25 = 0 /\ old[m].elapse % 25 = 0
  <2>1. /\ old[m].id \in Numbers(old) /\ ItemsOf(old)[old[m].id] = Fields(old[m])
        /\ old[m].left \in Nat /\ old[m].elapse \in Nat
    BY <1>1, EntriesOf, ItemOfEntry DEF Dword
  <2>2. EngineProofs!ItemInv(old[m].id)
    BY <1>1, <2>1 DEF EngineProofs!IInv
  <2>3. /\ ItemsOf(old)[old[m].id].left = old[m].left
        /\ ItemsOf(old)[old[m].id].elapse = old[m].elapse
    BY <2>1 DEF Fields
  <2> QED
    BY <1>1, <1>3, <1>4, <2>1, <2>2, <2>3
       DEF EngineProofs!ItemInv, EngineProofs!Ticks, EngineProofs!TIMER_SPACE
<1>6. ASSUME NEW n \in index .. Len(list) PROVE list[n].left >= timePass
  <2>1. list[n] = old[n + Gone]
    BY <1>1 DEF LoopInv
  <2>2. n + Gone \in DOMAIN old
    <3>1. Len(list) <= Len(old)
      BY <1>1 DEF LoopInv
    <3> QED
      BY <1>1, <3>1 DEF Gone
  <2> QED
    BY <1>5, <2>1, <2>2
<1>7. ASSUME least # NO_TIME_LEFT PROVE least % 25 = 0
  <2>1. PICK n \in 1 .. index - 1 : least = list[n].left
    BY <1>1, <1>7 DEF LoopInv
  <2>2. PICK m \in Visited : Stays(old[m]) /\ list[n] = After(old[m])
    BY <1>1, <2>1 DEF LoopInv
  <2>3. m \in DOMAIN old
    BY <1>1, <2>2 DEF Visited, Gone
  <2>4. old[m] \in Entry
    BY <1>1, <2>3
  <2>5. least = IF IsDue(old[m]) THEN old[m].elapse ELSE Minus(old[m].left, timePass)
    BY <1>1, <2>1, <2>2, <2>4, AfterEntry
  <2>6. Minus(old[m].left, timePass) = old[m].left - timePass
    BY <1>4, <1>5, <2>3 DEF Minus
  <2>7. (old[m].left - timePass) % 25 = 0
    BY <1>4, <1>5, <2>3
  <2> QED
    BY <1>5, <2>3, <2>5, <2>6, <2>7
<1> QED
  BY <1>1, <1>6, <1>7 DEF LoopInv, TIMER_SPACE

(* None of the asserts of OnTimerThreadSink fails, before the loop and in  *)
(* it, as long as times are modest.                                        *)
THEOREM CountdownAlwaysEarliest ==
  ASSUME ModestElapses PROVE Spec => []CountdownIsEarliest
<1>1. EngineProofs!CountdownIsEarliest => Engine!CountdownIsEarliest
  BY DEF Engine!CountdownIsEarliest, EngineProofs!CountdownIsEarliest, Engine!NO_TIME_LEFT,
         EngineProofs!NO_TIME_LEFT, Engine!TIMER_SPACE, EngineProofs!TIMER_SPACE
<1>2. IInv /\ EngineProofs!IInv /\ EngineProofs!CountdownIsEarliest => CountdownIsEarliest
  BY <1>1, LoopAsserts DEF CountdownIsEarliest
<1> QED
  BY <1>2, InductiveInvariant, ArrayImplementsEngine, ProvedOfEngine, PTL
     DEF ImplementsEngine
=============================================================================
