--------------------------- MODULE BbQueueProofs ----------------------------
(***************************************************************************)
(* The operations of BbQueue on the links of a list are those of sequences *)
(* on its cells and on what they hold, for lists of any length.            *)
(***************************************************************************)
EXTENDS BbQueue, SequenceTheorems, TLAPS

\* c is not a cell of the list.
Fresh(c, cells) == \A i \in DOMAIN cells : cells[i] # c

LEMMA NewChildFields ==
  ASSUME NEW q \in Lists, NEW c \in Children, NEW d \in Data
  PROVE  /\ NewChild(q, c, d) \in Lists
         /\ NewChild(q, c, d).first = q.first
         /\ NewChild(q, c, d).last = q.last
         /\ NewChild(q, c, d).len = q.len
         /\ \A x \in Children :
              /\ NewChild(q, c, d).next[x] = IF x = c THEN NULL ELSE q.next[x]
              /\ NewChild(q, c, d).prev[x] = IF x = c THEN NULL ELSE q.prev[x]
              /\ NewChild(q, c, d).data[x] = IF x = c THEN d ELSE q.data[x]
  BY DEF NewChild, Lists, Pointers

\* A new child changes neither the list nor what it holds.
LEMMA NewChildKeepsTheList ==
  ASSUME NEW q \in Lists, NEW cells \in Seq(Children), Represents(q, cells),
         NEW c \in Children, Fresh(c, cells), NEW d \in Data
  PROVE  /\ Represents(NewChild(q, c, d), cells)
         /\ Contents(NewChild(q, c, d), cells) = Contents(q, cells)
<1>1. \A i \in DOMAIN cells : cells[i] \in Children /\ cells[i] # c
  BY DEF Fresh
<1>2. Represents(NewChild(q, c, d), cells)
  BY <1>1, NewChildFields DEF Represents
<1>3. Contents(NewChild(q, c, d), cells) = Contents(q, cells)
  BY <1>1, NewChildFields DEF Contents
<1> QED
  BY <1>2, <1>3

\* bb_queue_local_decl makes a list without data, whatever the memory held before.
THEOREM InitIsEmpty ==
  ASSUME NEW q \in Lists
  PROVE  Initialised(q) \in Lists /\ Represents(Initialised(q), << >>)
<1>1. Initialised(q) = [first |-> NULL, last |-> NULL, len |-> 0,
                        next |-> q.next, prev |-> q.prev, data |-> q.data]
  <2>1. q = [first |-> q.first, last |-> q.last, len |-> q.len,
             next |-> q.next, prev |-> q.prev, data |-> q.data]
    BY DEF Lists
  <2>2. Initialised(q) = [q EXCEPT !.len = 0, !.first = NULL, !.last = NULL]
    BY DEF Initialised
  <2> QED
    BY <2>1, <2>2
<1>2. /\ q.next \in [Children -> Pointers] /\ q.prev \in [Children -> Pointers]
      /\ q.data \in [Children -> Data] /\ NULL \in Pointers
  BY DEF Lists, Pointers
<1>3. Initialised(q) \in Lists
  BY <1>1, <1>2 DEF Lists
<1> QED
  BY <1>1, <1>3 DEF Represents

LEMMA AddChildFields ==
  ASSUME NEW q \in Lists, NEW c \in Children, q.len # 0 => q.last \in Children
  PROVE  /\ AddChild(q, c) \in Lists
         /\ AddChild(q, c).first = IF q.len = 0 THEN c ELSE q.first
         /\ AddChild(q, c).last = c
         /\ AddChild(q, c).len = q.len + 1
         /\ AddChild(q, c).data = q.data
         /\ \A x \in Children :
              /\ AddChild(q, c).next[x] =
                   IF q.len # 0 /\ x = q.last THEN c ELSE q.next[x]
              /\ AddChild(q, c).prev[x] =
                   IF q.len # 0 /\ x = c THEN q.last ELSE q.prev[x]
<1>1. /\ q.first \in Pointers /\ q.last \in Pointers /\ q.len \in Int
      /\ q.next \in [Children -> Pointers] /\ q.prev \in [Children -> Pointers]
      /\ q.data \in [Children -> Data] /\ c \in Pointers
  BY DEF Lists, Pointers
<1>2. q = [first |-> q.first, last |-> q.last, len |-> q.len,
           next |-> q.next, prev |-> q.prev, data |-> q.data]
  BY DEF Lists
<1>3. CASE q.len = 0
  <2>1. AddChild(q, c) = [first |-> c, last |-> c, len |-> q.len + 1,
                          next |-> q.next, prev |-> q.prev, data |-> q.data]
    BY <1>2, <1>3 DEF AddChild
  <2> QED
    BY <1>1, <1>3, <2>1 DEF Lists
<1>4. CASE q.len # 0
  <2>1. AddChild(q, c) = [first |-> q.first, last |-> c, len |-> q.len + 1,
                          next |-> [q.next EXCEPT ![q.last] = c],
                          prev |-> [q.prev EXCEPT ![c] = q.last],
                          data |-> q.data]
    BY <1>2, <1>4 DEF AddChild
  <2>2. /\ [q.next EXCEPT ![q.last] = c] \in [Children -> Pointers]
        /\ [q.prev EXCEPT ![c] = q.last] \in [Children -> Pointers]
    BY <1>1
  <2>3. AddChild(q, c) \in Lists
    BY <1>1, <2>1, <2>2 DEF Lists
  <2> QED
    BY <1>1, <1>4, <2>1, <2>3
<1> QED
  BY <1>3, <1>4

\* bb_queue_add puts its data behind those of the list.
THEOREM AddAppends ==
  ASSUME NEW q \in Lists, NEW cells \in Seq(Children), Represents(q, cells),
         NEW c \in Children, Fresh(c, cells), NEW d \in Data
  PROVE  /\ Add(q, c, d) \in Lists
         /\ Represents(Add(q, c, d), Append(cells, c))
         /\ Contents(Add(q, c, d), Append(cells, c)) = Append(Contents(q, cells), d)
<1> DEFINE n == NewChild(q, c, d)
           r == AddChild(n, c)
           new == Append(cells, c)
<1>1. n \in Lists /\ Represents(n, cells) /\ Contents(n, cells) = Contents(q, cells)
  BY NewChildFields, NewChildKeepsTheList
<1>2. n.next[c] = NULL /\ n.prev[c] = NULL /\ n.data[c] = d
  BY NewChildFields
<1> HIDE DEF n
<1>3. /\ DOMAIN new = 1 .. Len(cells) + 1 /\ Len(new) = Len(cells) + 1
      /\ DOMAIN cells = 1 .. Len(cells) /\ Len(cells) \in Nat
      /\ \A i \in DOMAIN cells : new[i] = cells[i] /\ cells[i] \in Children
      /\ new[Len(cells) + 1] = c /\ new # << >>
      /\ Len(cells) = 0 <=> cells = << >>
  OBVIOUS
<1>4. n.len # 0 => n.last = cells[Len(cells)] /\ n.last \in Children
  BY <1>1, <1>3 DEF Represents
<1>5. /\ r \in Lists
      /\ r.first = IF n.len = 0 THEN c ELSE n.first
      /\ r.last = c /\ r.len = n.len + 1 /\ r.data = n.data
      /\ \A x \in Children :
           /\ r.next[x] = IF n.len # 0 /\ x = n.last THEN c ELSE n.next[x]
           /\ r.prev[x] = IF n.len # 0 /\ x = c THEN n.last ELSE n.prev[x]
  BY <1>1, <1>4, AddChildFields
<1> HIDE DEF r, new
<1>6. \A i, j \in DOMAIN new : new[i] = new[j] => i = j
  BY <1>1, <1>3 DEF Represents, Fresh
<1>7. \A i \in DOMAIN new :
        /\ r.next[new[i]] = IF i = Len(new) THEN NULL ELSE new[i + 1]
        /\ r.prev[new[i]] = IF i = 1 THEN NULL ELSE new[i - 1]
  <2> SUFFICES ASSUME NEW i \in DOMAIN new
               PROVE  /\ r.next[new[i]] = IF i = Len(new) THEN NULL ELSE new[i + 1]
                      /\ r.prev[new[i]] = IF i = 1 THEN NULL ELSE new[i - 1]
    OBVIOUS
  <2>1. CASE i = Len(cells) + 1
    BY <1>1, <1>2, <1>3, <1>4, <1>5, <2>1 DEF Represents, Fresh
  <2>2. CASE i \in DOMAIN cells
    <3>1. new[i] = cells[i] /\ cells[i] # c /\ n.len # 0
      BY <1>1, <1>3, <2>2 DEF Represents, Fresh
    <3>2. cells[i] = n.last <=> i = Len(cells)
      BY <1>1, <1>3, <1>4, <2>2, <3>1 DEF Represents
    <3>3. /\ n.next[cells[i]] = IF i = Len(cells) THEN NULL ELSE cells[i + 1]
          /\ n.prev[cells[i]] = IF i = 1 THEN NULL ELSE cells[i - 1]
      BY <1>1, <2>2 DEF Represents
    <3>4. r.next[new[i]] = IF i = Len(cells) THEN c ELSE cells[i + 1]
      BY <1>3, <1>5, <2>2, <3>1, <3>2, <3>3
    <3>5. r.prev[new[i]] = IF i = 1 THEN NULL ELSE cells[i - 1]
      BY <1>3, <1>5, <2>2, <3>1, <3>3
    <3> QED
      BY <1>3, <2>2, <3>4, <3>5
  <2> QED
    BY <1>3, <2>1, <2>2
<1>8. Represents(r, new)
  BY <1>1, <1>3, <1>5, <1>6, <1>7 DEF Represents
<1>9. Contents(r, new) = Append(Contents(q, cells), d)
  <2>1. Contents(n, cells) \in Seq(Data) /\ Len(Contents(n, cells)) = Len(cells)
    BY <1>1, <1>3 DEF Contents, Lists
  <2>2. \A i \in DOMAIN new : Contents(r, new)[i] = Append(Contents(n, cells), d)[i]
    BY <1>2, <1>3, <1>5, <2>1 DEF Contents
  <2> QED
    BY <1>1, <1>3, <2>1, <2>2 DEF Contents
<1> QED
  BY <1>5, <1>8, <1>9 DEF Add, r, n, new

LEMMA GetFirstFields ==
  ASSUME NEW q \in Lists, q.len > 1, q.first \in Children, q.next[q.first] \in Children
  PROVE  /\ GetFirst(q) \in Lists
         /\ GetFirst(q).first = q.next[q.first]
         /\ GetFirst(q).last = q.last
         /\ GetFirst(q).len = q.len - 1
         /\ GetFirst(q).data = q.data
         /\ GetFirst(q).next = q.next
         /\ \A x \in Children :
              GetFirst(q).prev[x] = IF x = q.next[q.first] THEN NULL ELSE q.prev[x]
<1>1. /\ q.first \in Pointers /\ q.last \in Pointers /\ q.len \in Int
      /\ q.next \in [Children -> Pointers] /\ q.prev \in [Children -> Pointers]
      /\ q.data \in [Children -> Data] /\ NULL \in Pointers
      /\ q.next[q.first] \in Pointers
  BY DEF Lists, Pointers
<1>2. q = [first |-> q.first, last |-> q.last, len |-> q.len,
           next |-> q.next, prev |-> q.prev, data |-> q.data]
  BY DEF Lists
<1>3. GetFirst(q) = [first |-> q.next[q.first], last |-> q.last, len |-> q.len - 1,
                     next |-> q.next,
                     prev |-> [q.prev EXCEPT ![q.next[q.first]] = NULL],
                     data |-> q.data]
  <2>1. ~(q.len <= 0) /\ q.len # 1
    BY <1>1
  <2> QED
    BY <1>2, <2>1 DEF GetFirst
<1>4. [q.prev EXCEPT ![q.next[q.first]] = NULL] \in [Children -> Pointers]
  BY <1>1
<1>5. GetFirst(q) \in Lists
  BY <1>1, <1>3, <1>4 DEF Lists
<1> QED
  BY <1>1, <1>3, <1>5

LEMMA GetFirstOfOne ==
  ASSUME NEW q \in Lists, q.len = 1
  PROVE  /\ GetFirst(q) \in Lists /\ GetFirst(q).data = q.data
         /\ GetFirst(q).next = q.next /\ GetFirst(q).len = q.len - 1
         /\ GetFirst(q).first = NULL /\ GetFirst(q).last = NULL
<1>1. /\ q.len \in Int /\ q.next \in [Children -> Pointers]
      /\ q.prev \in [Children -> Pointers] /\ q.data \in [Children -> Data]
      /\ NULL \in Pointers
  BY DEF Lists, Pointers
<1>2. q = [first |-> q.first, last |-> q.last, len |-> q.len,
           next |-> q.next, prev |-> q.prev, data |-> q.data]
  BY DEF Lists
<1>3. GetFirst(q) = [first |-> NULL, last |-> NULL, len |-> q.len - 1,
                     next |-> q.next, prev |-> q.prev, data |-> q.data]
  <2>1. ~(q.len <= 0) /\ GetFirst(q) = [q EXCEPT !.first = NULL, !.last = NULL, !.len = q.len - 1]
    BY DEF GetFirst
  <2> QED
    BY <1>2, <2>1
<1>4. GetFirst(q) \in Lists
  BY <1>1, <1>3 DEF Lists, Pointers
<1> QED
  BY <1>1, <1>3, <1>4

\* bb_queue_get_first takes the first data and leaves the others in their order;
\* of an empty list it takes nothing.
THEOREM GetFirstTakesTheHead ==
  ASSUME NEW q \in Lists, NEW cells \in Seq(Children), Represents(q, cells)
  PROVE  /\ cells = << >> => First(q) = NULL /\ GetFirst(q) = q
         /\ cells # << >> =>
              /\ First(q) = Head(Contents(q, cells))
              /\ GetFirst(q) \in Lists
              /\ Represents(GetFirst(q), Tail(cells))
              /\ Contents(GetFirst(q), Tail(cells)) = Tail(Contents(q, cells))
<1>1. q.len = Len(cells) /\ Len(cells) \in Nat /\ DOMAIN cells = 1 .. Len(cells)
  BY DEF Represents
<1>2. CASE cells = << >>
  BY <1>1, <1>2 DEF First, GetFirst
<1>3. CASE cells # << >>
  <2> DEFINE r == GetFirst(q)
             new == Tail(cells)
  <2>1. Len(cells) > 0 /\ q.first = cells[1] /\ q.last = cells[Len(cells)]
    BY <1>1, <1>3 DEF Represents
  <2>2. /\ new \in Seq(Children) /\ Len(new) = Len(cells) - 1
        /\ DOMAIN new = 1 .. Len(cells) - 1
        /\ \A i \in DOMAIN new : i + 1 \in DOMAIN cells /\ new[i] = cells[i + 1]
                                 /\ new[i] \in Children
    BY <1>1, <1>3, <2>1
  <2>3. \A i \in DOMAIN cells : cells[i] \in Children
    OBVIOUS
  <2>4. /\ r \in Lists /\ r.data = q.data /\ r.next = q.next /\ r.len = Len(cells) - 1
        /\ r.first = IF Len(cells) = 1 THEN NULL ELSE cells[2]
        /\ r.last = IF Len(cells) = 1 THEN NULL ELSE q.last
        /\ Len(cells) > 1 =>
             \A x \in Children : r.prev[x] = IF x = cells[2] THEN NULL ELSE q.prev[x]
    <3>1. CASE Len(cells) = 1
      <4>1. /\ GetFirst(q) \in Lists /\ GetFirst(q).data = q.data
            /\ GetFirst(q).next = q.next /\ GetFirst(q).len = q.len - 1
            /\ GetFirst(q).first = NULL /\ GetFirst(q).last = NULL
        BY <1>1, <3>1, GetFirstOfOne
      <4> QED
        BY <1>1, <3>1, <4>1
    <3>2. CASE Len(cells) > 1
      <4>1. 1 \in DOMAIN cells /\ 2 \in DOMAIN cells
        BY <1>1, <3>2
      <4>2. q.next[q.first] = cells[2]
        <5>1. q.next[cells[1]] = IF 1 = Len(cells) THEN NULL ELSE cells[1 + 1]
          BY <4>1 DEF Represents
        <5> QED
          BY <1>1, <2>1, <3>2, <5>1
      <4>3. q.len > 1 /\ q.first \in Children /\ cells[2] \in Children
        BY <1>1, <2>1, <2>3, <3>2, <4>1
      <4>4. /\ GetFirst(q) \in Lists /\ GetFirst(q).first = cells[2]
            /\ GetFirst(q).last = q.last /\ GetFirst(q).len = q.len - 1
            /\ GetFirst(q).data = q.data /\ GetFirst(q).next = q.next
            /\ \A x \in Children :
                 GetFirst(q).prev[x] = IF x = cells[2] THEN NULL ELSE q.prev[x]
        BY <4>2, <4>3, GetFirstFields
      <4> QED
        BY <1>1, <3>2, <4>4
    <3> QED
      BY <1>1, <2>1, <3>1, <3>2
  <2> HIDE DEF r, new
  <2>5. \A i, j \in DOMAIN new : new[i] = new[j] => i = j
    <3> SUFFICES ASSUME NEW i \in DOMAIN new, NEW j \in DOMAIN new, new[i] = new[j]
                 PROVE  i = j
      OBVIOUS
    <3>1. i + 1 = j + 1
      BY <2>2 DEF Represents
    <3> QED
      BY <2>2, <3>1
  <2>6. /\ r.len = Len(new)
        /\ r.first = IF new = << >> THEN NULL ELSE new[1]
        /\ r.last = IF new = << >> THEN NULL ELSE new[Len(new)]
    <3>1. CASE Len(cells) = 1
      BY <1>1, <2>2, <2>4, <3>1
    <3>2. CASE Len(cells) > 1
      <4>1. 1 \in DOMAIN new /\ Len(new) \in DOMAIN new /\ new # << >>
        BY <1>1, <2>2, <3>2
      <4>2. new[1] = cells[2] /\ new[Len(new)] = cells[Len(cells)]
        BY <1>1, <2>2, <4>1
      <4> QED
        BY <1>1, <2>1, <2>2, <2>4, <3>2, <4>1, <4>2
    <3> QED
      BY <1>1, <2>1, <3>1, <3>2
  <2>7. \A i \in DOMAIN new :
          /\ r.next[new[i]] = IF i = Len(new) THEN NULL ELSE new[i + 1]
          /\ r.prev[new[i]] = IF i = 1 THEN NULL ELSE new[i - 1]
    <3> SUFFICES ASSUME NEW i \in DOMAIN new
                 PROVE  /\ r.next[new[i]] = IF i = Len(new) THEN NULL ELSE new[i + 1]
                        /\ r.prev[new[i]] = IF i = 1 THEN NULL ELSE new[i - 1]
      OBVIOUS
    <3>1. /\ i \in Nat /\ i >= 1 /\ i <= Len(cells) - 1 /\ Len(cells) > 1
          /\ i + 1 \in DOMAIN cells /\ new[i] = cells[i + 1] /\ new[i] \in Children
      BY <1>1, <2>2
    <3>2. /\ q.next[new[i]] = IF i + 1 = Len(cells) THEN NULL ELSE cells[i + 2]
          /\ q.prev[new[i]] = cells[i]
      BY <3>1 DEF Represents
    <3>3. r.next[new[i]] = IF i = Len(new) THEN NULL ELSE new[i + 1]
      BY <1>1, <2>2, <2>4, <3>1, <3>2
    <3>4. new[i] = cells[2] <=> i = 1
      <4>1. 2 \in DOMAIN cells
        BY <1>1, <3>1
      <4> QED
        BY <1>1, <3>1, <4>1 DEF Represents
    <3>5. r.prev[new[i]] = IF i = 1 THEN NULL ELSE new[i - 1]
      <4>1. i # 1 => i - 1 \in DOMAIN new /\ new[i - 1] = cells[i]
        BY <1>1, <2>2, <3>1
      <4> QED
        BY <2>4, <3>1, <3>2, <3>4, <4>1
    <3> QED
      BY <3>3, <3>5
  <2>8. Represents(r, new)
    BY <2>5, <2>6, <2>7 DEF Represents
  <2>9. /\ Contents(q, cells) \in Seq(Data) /\ Len(Contents(q, cells)) = Len(cells)
        /\ \A i \in DOMAIN cells : Contents(q, cells)[i] = q.data[cells[i]]
    BY <1>1, <2>3 DEF Contents, Lists
  <2>10. First(q) = Head(Contents(q, cells))
    <3>1. 1 \in DOMAIN cells /\ Head(Contents(q, cells)) = Contents(q, cells)[1]
      BY <1>1, <2>1, <2>9
    <3> QED
      BY <1>1, <2>1, <2>9, <3>1 DEF First
  <2>11. Contents(r, new) = Tail(Contents(q, cells))
    <3>1. /\ DOMAIN Contents(r, new) = 1 .. Len(cells) - 1
          /\ \A i \in 1 .. Len(cells) - 1 : Contents(r, new)[i] = q.data[cells[i + 1]]
      BY <2>2, <2>4 DEF Contents
    <3>2. Contents(r, new) = [i \in 1 .. Len(cells) - 1 |-> Contents(q, cells)[i + 1]]
      <4>1. Contents(r, new) = [i \in 1 .. Len(cells) - 1 |-> q.data[cells[i + 1]]]
        BY <2>2, <2>4 DEF Contents
      <4>2. \A i \in 1 .. Len(cells) - 1 : Contents(q, cells)[i + 1] = q.data[cells[i + 1]]
        BY <1>1, <2>2, <2>9
      <4> QED
        BY <4>1, <4>2
    <3>3. Tail(Contents(q, cells)) =
            [i \in 1 .. Len(cells) - 1 |-> Contents(q, cells)[i + 1]]
      <4> DEFINE s == Contents(q, cells)
                 t == [i \in 1 .. Len(cells) - 1 |-> s[i + 1]]
      <4>1. s \in Seq(Data) /\ s # << >> /\ Len(s) = Len(cells)
        BY <1>1, <2>1, <2>9
      <4> HIDE DEF s
      <4>2. /\ Tail(s) \in Seq(Data) /\ Len(Tail(s)) = Len(s) - 1
            /\ \A i \in 1 .. Len(Tail(s)) : Tail(s)[i] = s[i + 1]
        BY <4>1, HeadTailProperties
      <4>3. DOMAIN Tail(s) = 1 .. Len(cells) - 1
        BY <1>1, <4>1, <4>2
      <4>4. Tail(s) = [i \in 1 .. Len(cells) - 1 |-> Tail(s)[i]]
        <5>1. PICK n \in Nat : Tail(s) \in [1 .. n -> Data]
          <6>1. Seq(Data) = UNION {[1 .. n -> Data] : n \in Nat}
            BY SeqDef
          <6>2. Tail(s) \in UNION {[1 .. n -> Data] : n \in Nat}
            BY <4>2, <6>1
          <6> QED
            BY <6>2
        <5>2. Tail(s) = [i \in DOMAIN Tail(s) |-> Tail(s)[i]]
          BY <5>1
        <5> QED
          BY <4>3, <5>2
      <4> QED
        <5>1. \A i \in 1 .. Len(cells) - 1 : Tail(s)[i] = s[i + 1]
          BY <4>1, <4>2, <4>3
        <5>2. Tail(s) = t
          BY <4>4, <5>1
        <5> QED
          BY <5>2 DEF s
    <3> QED
      BY <3>2, <3>3
  <2> QED
    BY <1>3, <2>4, <2>8, <2>10, <2>11 DEF r, new
<1> QED
  BY <1>2, <1>3
=============================================================================
