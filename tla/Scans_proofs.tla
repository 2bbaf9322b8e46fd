----------------------------- MODULE Scans_proofs -----------------------------
(***************************************************************************)
(* Proofs about the scans of a catalog, for any catalog and any schedule   *)
(* of the workers: the bulk scan attaches every row to its table, finds    *)
(* exactly the rows in the order of the collections and keeps the two      *)
(* sides of a foreign key in agreement; the scan table by table does so,   *)
(* too, returns no error only when it has read everything, and puts the    *)
(* columns of a primary key in the order of their positions.  Both run out *)
(* of steps at their return and nowhere else, and a bulk scan that is late *)
(* before a worker has come to its end does not return nil.                *)
(***************************************************************************)
EXTENDS BulkScan, TableScan, FiniteSetTheorems, WellFoundedInduction, TLAPS

-----------------------------------------------------------------------------
\* Places in lists

\* A set of naturals has a least element, so First is one of its arguments.
LEMMA FirstIsLeast ==
  ASSUME NEW S, S \subseteq Nat, S # {}
  PROVE  First(S) \in S /\ \A n \in S : First(S) <= n
<1>1. PICK m \in S : \A n \in S : ~(<<n, m>> \in OpToRel(<, Nat))
  BY NatLessThanWellFounded, WFMin
<1>2. \A n \in S : m <= n
  <2> SUFFICES ASSUME NEW n \in S PROVE m <= n
    OBVIOUS
  <2>1. n \in Nat /\ m \in Nat
    OBVIOUS
  <2>2. ~(n < m)
    BY <1>1, <2>1 DEF OpToRel
  <2> QED BY <2>1, <2>2
<1> QED BY <1>2 DEF First

\* SequentialFind stops at a hit at or after the cursor, or off the end for want of one.
LEMMA FindsNext ==
  ASSUME NEW list, Len(list) \in Nat, NEW i \in Nat, NEW key, NEW k, k = SequentialFind(list, i, key)
  PROVE  \/ k \in i..Len(list) /\ list[k] = key
         \/ k = Len(list) + 1 /\ \A j \in i..Len(list) : list[j] # key
<1> DEFINE hits == {j \in i..Len(list) : list[j] = key}
<1>1. k = IF hits = {} THEN Len(list) + 1 ELSE First(hits)
  BY DEF SequentialFind
<1>2. hits \subseteq Nat
  OBVIOUS
<1>3. CASE hits = {}
  BY <1>1, <1>3
<1>4. CASE hits # {}
  <2>1. k \in hits
    BY <1>1, <1>2, <1>4, FirstIsLeast
  <2> QED BY <2>1
<1> QED BY <1>3, <1>4

\* FindTable returns the place of a table, or 0.
LEMMA FindTableFinds ==
  ASSUME NEW tables, Len(tables) \in Nat, NEW key, FindTable(tables, key) # 0
  PROVE  FindTable(tables, key) \in 1..Len(tables)
<1> DEFINE hits == {j \in 1..Len(tables) : LowerKey(tables[j]) = LowerKey(key)}
<1>1. hits \subseteq Nat
  OBVIOUS
<1>2. hits # {} /\ FindTable(tables, key) = First(hits)
  BY DEF FindTable
<1>3. First(hits) \in hits
  BY <1>1, <1>2, FirstIsLeast
<1> QED BY <1>2, <1>3

\* EntryAt returns the place of an entry with the key, or one past the end for want of one.
LEMMA EntryIsFound ==
  ASSUME NEW list, Len(list) \in Nat, NEW field, NEW key, NEW k, k = EntryAt(list, field, key)
  PROVE  \/ k \in 1..Len(list) /\ list[k][field] = key
         \/ k = Len(list) + 1 /\ \A j \in 1..Len(list) : list[j][field] # key
<1> DEFINE hits == {j \in 1..Len(list) : list[j][field] = key}
<1>1. k = IF hits = {} THEN Len(list) + 1 ELSE First(hits)
  BY DEF EntryAt
<1>2. hits \subseteq Nat
  OBVIOUS
<1>3. CASE hits = {}
  BY <1>1, <1>3
<1>4. CASE hits # {}
  <2>1. k \in hits
    BY <1>1, <1>2, <1>4, FirstIsLeast
  <2> QED BY <2>1
<1> QED BY <1>3, <1>4

-----------------------------------------------------------------------------
\* What the referenced table knows

\* Keys as the rows of constraints make them, of names N and tables T.
Named(N) == [name : N, columns : Seq(N)]
Foreign(N, T) == [name : N, columns : Seq(N), ref : T]
Referrer(N, T) == [table : T, foreign : Seq(Named(N))]
Keys(N, T) == [pk : Seq(N), alternate : Seq(Named(N)), foreign : Seq(Foreign(N, T)),
               referencedBy : Seq(Referrer(N, T))]

\* A ReferencedBy knows foreign key n of table t, or its column c, and knows it once.
HasName(foreign, n) == \E k \in DOMAIN foreign : foreign[k].name = n
HasColumn(foreign, n, c) ==
  \E k \in DOMAIN foreign : foreign[k].name = n /\ c \in {foreign[k].columns[m] : m \in DOMAIN foreign[k].columns}
NamesOnce(foreign) == \A k, l \in DOMAIN foreign : foreign[k].name = foreign[l].name => k = l

HasKey(refs, t, n) == \E e \in DOMAIN refs : refs[e].table = t /\ HasName(refs[e].foreign, n)
KnowsColumn(refs, t, n, c) == \E e \in DOMAIN refs : refs[e].table = t /\ HasColumn(refs[e].foreign, n, c)
KnownOnce(refs) ==
  /\ \A e, f \in DOMAIN refs : refs[e].table = refs[f].table => e = f
  /\ \A e \in DOMAIN refs : NamesOnce(refs[e].foreign)

LEMMA ElementOf ==
  ASSUME NEW S, NEW s \in Seq(S), NEW i \in 1..Len(s)
  PROVE  s[i] \in S
OBVIOUS

LEMMA AppendFacts ==
  ASSUME NEW S, NEW s \in Seq(S), NEW x \in S, NEW new, new = Append(s, x)
  PROVE  /\ new \in Seq(S) /\ Len(s) \in Nat /\ Len(new) = Len(s) + 1 /\ DOMAIN new = 1..Len(s) + 1
         /\ DOMAIN s = 1..Len(s)
         /\ new[Len(s) + 1] = x /\ \A i \in 1..Len(s) : new[i] = s[i]
OBVIOUS

\* A list of columns is another with one more.
OneMore(old, column, new) ==
  /\ Len(old) \in Nat /\ DOMAIN old = 1..Len(old) /\ DOMAIN new = 1..Len(old) + 1
  /\ new[Len(old) + 1] = column /\ \A m \in 1..Len(old) : new[m] = old[m]

LEMMA ListEdit ==
  ASSUME NEW S, NEW list \in Seq(S), NEW i \in 1..Len(list), NEW entry \in S,
         NEW new, new = [list EXCEPT ![i] = entry]
  PROVE  /\ new \in Seq(S) /\ Len(new) = Len(list) /\ new[i] = entry
         /\ \A j \in 1..Len(list) : j # i => new[j] = list[j]
OBVIOUS

\* AddColumn changes the columns of one entry.
LEMMA NamedColumnIsAdded ==
  ASSUME NEW N, NEW list \in Seq(Named(N)), NEW i \in 1..Len(list), NEW column \in N,
         NEW new, new = AddColumn(list, i, column)
  PROVE  /\ new \in Seq(Named(N)) /\ Len(new) = Len(list)
         /\ new[i].name = list[i].name
         /\ OneMore(list[i].columns, column, new[i].columns)
         /\ \A j \in 1..Len(list) : j # i => new[j] = list[j]
<1> DEFINE entry == [list[i] EXCEPT !.columns = Append(list[i].columns, column)]
<1>1. new = [list EXCEPT ![i] = entry]
  BY DEF AddColumn
<1>2. list[i] \in Named(N)
  BY ElementOf
<1>3. list[i].columns \in Seq(N)
  BY <1>2 DEF Named
<1>4. Append(list[i].columns, column) \in Seq(N)
  BY <1>3
<1>5. entry \in Named(N) /\ entry.name = list[i].name /\ OneMore(list[i].columns, column, entry.columns)
  <2>1. entry \in Named(N) /\ entry.name = list[i].name /\ entry.columns = Append(list[i].columns, column)
    BY <1>2, <1>4 DEF Named
  <2> QED BY <1>3, <2>1, AppendFacts DEF OneMore
<1> HIDE DEF entry
<1>6. /\ new \in Seq(Named(N)) /\ Len(new) = Len(list) /\ new[i] = entry
      /\ \A j \in 1..Len(list) : j # i => new[j] = list[j]
  BY <1>1, <1>5, ListEdit
<1> QED BY <1>3, <1>5, <1>6

LEMMA ForeignColumnIsAdded ==
  ASSUME NEW N, NEW T, NEW list \in Seq(Foreign(N, T)), NEW i \in 1..Len(list), NEW column \in N,
         NEW new, new = AddColumn(list, i, column)
  PROVE  /\ new \in Seq(Foreign(N, T)) /\ Len(new) = Len(list)
         /\ new[i].name = list[i].name
         /\ OneMore(list[i].columns, column, new[i].columns)
         /\ new[i].ref = list[i].ref
         /\ \A j \in 1..Len(list) : j # i => new[j] = list[j]
<1> DEFINE entry == [list[i] EXCEPT !.columns = Append(list[i].columns, column)]
<1>1. new = [list EXCEPT ![i] = entry]
  BY DEF AddColumn
<1>2. list[i] \in Foreign(N, T)
  BY ElementOf
<1>3. list[i].columns \in Seq(N)
  BY <1>2 DEF Foreign
<1>4. Append(list[i].columns, column) \in Seq(N)
  BY <1>3
<1>5. /\ entry \in Foreign(N, T) /\ entry.name = list[i].name /\ entry.ref = list[i].ref
      /\ OneMore(list[i].columns, column, entry.columns)
  <2>1. /\ entry \in Foreign(N, T) /\ entry.name = list[i].name /\ entry.ref = list[i].ref
        /\ entry.columns = Append(list[i].columns, column)
    BY <1>2, <1>4 DEF Foreign
  <2> QED BY <1>3, <2>1, AppendFacts DEF OneMore
<1> HIDE DEF entry
<1>6. /\ new \in Seq(Foreign(N, T)) /\ Len(new) = Len(list) /\ new[i] = entry
      /\ \A j \in 1..Len(list) : j # i => new[j] = list[j]
  BY <1>1, <1>5, ListEdit
<1> QED BY <1>3, <1>5, <1>6

\* Mirror on the foreign keys of one referring table.
MirrorName(foreign, name, column) ==
  LET k == EntryAt(foreign, "name", name)
      fks == IF k > Len(foreign) THEN Append(foreign, [name |-> name, columns |-> <<>>]) ELSE foreign
  IN  AddColumn(fks, k, column)

\* The column goes to entry k of a list that has the foreign keys of another, and that entry.
LEMMA NameGrows ==
  ASSUME NEW N, NEW foreign \in Seq(Named(N)), NEW name \in N, NEW column \in N,
         NEW fks \in Seq(Named(N)), NEW k \in 1..Len(fks), fks[k].name = name,
         \A j \in 1..Len(foreign) : j \in 1..Len(fks) /\ fks[j] = foreign[j],
         \A j \in 1..Len(fks) : j \in 1..Len(foreign) \/ j = k,
         \A i, j \in 1..Len(fks) : fks[i].name = fks[j].name => i = j,
         NEW new, new = AddColumn(fks, k, column)
  PROVE  /\ new \in Seq(Named(N)) /\ NamesOnce(new)
         /\ HasColumn(new, name, column)
         /\ \A n, c : HasColumn(foreign, n, c) => HasColumn(new, n, c)
         /\ \A n : HasName(new, n) => HasName(foreign, n) \/ n = name
<1>1. DOMAIN foreign = 1..Len(foreign)
  OBVIOUS
<1>4. /\ \A j \in 1..Len(foreign) : j \in 1..Len(fks) /\ fks[j] = foreign[j]
      /\ \A j \in 1..Len(fks) : j \in 1..Len(foreign) \/ j = k
      /\ \A i, j \in 1..Len(fks) : fks[i].name = fks[j].name => i = j
  OBVIOUS
<1>6. /\ new \in Seq(Named(N)) /\ DOMAIN new = 1..Len(fks)
      /\ new[k].name = name /\ OneMore(fks[k].columns, column, new[k].columns)
      /\ \A j \in 1..Len(fks) : j # k => new[j] = fks[j]
  <2>1. new \in Seq(Named(N)) /\ Len(new) = Len(fks)
    BY NamedColumnIsAdded
  <2>2. new[k].name = fks[k].name
    BY NamedColumnIsAdded
  <2>3. OneMore(fks[k].columns, column, new[k].columns)
    BY NamedColumnIsAdded
  <2>4. \A j \in 1..Len(fks) : j # k => new[j] = fks[j]
    BY NamedColumnIsAdded
  <2>5. DOMAIN new = 1..Len(fks)
    BY ONLY <2>1
  <2>6. new[k].name = name
    BY <2>2
  <2> QED BY ONLY <2>1, <2>3, <2>4, <2>5, <2>6
<1>7. \A j \in 1..Len(fks) : new[j].name = fks[j].name
  BY <1>6
<1>8. NamesOnce(new)
  BY <1>4, <1>6, <1>7 DEF NamesOnce
<1>11. HasColumn(new, name, column)
  BY <1>4, <1>6 DEF HasColumn, OneMore
<1>12. ASSUME NEW n, NEW c, HasColumn(foreign, n, c) PROVE HasColumn(new, n, c)
  <2>1. PICK j \in DOMAIN foreign : /\ foreign[j].name = n
                                    /\ \E m \in DOMAIN foreign[j].columns : foreign[j].columns[m] = c
    BY <1>12 DEF HasColumn
  <2>2. j \in 1..Len(fks) /\ fks[j] = foreign[j]
    BY <1>1, <1>4, <2>1
  <2>3. CASE j = k
    <3>1. PICK m \in DOMAIN fks[k].columns : fks[k].columns[m] = c
      BY <2>1, <2>2, <2>3
    <3>2. m \in DOMAIN new[k].columns /\ new[k].columns[m] = c
      BY <1>6, <3>1 DEF OneMore
    <3> QED BY <1>4, <1>6, <2>1, <2>2, <2>3, <3>2 DEF HasColumn
  <2>4. CASE j # k
    BY <1>6, <2>1, <2>2, <2>4 DEF HasColumn
  <2> QED BY <2>3, <2>4
<1>13. ASSUME NEW n, HasName(new, n) PROVE HasName(foreign, n) \/ n = name
  <2>1. PICK j \in 1..Len(fks) : new[j].name = n
    BY <1>6, <1>13 DEF HasName
  <2>2. CASE j = k
    BY <1>6, <2>1, <2>2
  <2>3. CASE j \in 1..Len(foreign)
    BY <1>1, <1>4, <1>7, <2>1, <2>3 DEF HasName
  <2> QED BY <1>4, <2>2, <2>3
<1> QED BY <1>6, <1>8, <1>11, <1>12, <1>13

LEMMA NameIsMirrored ==
  ASSUME NEW N, NEW foreign \in Seq(Named(N)), NEW name \in N, NEW column \in N, NamesOnce(foreign),
         NEW new, new = MirrorName(foreign, name, column)
  PROVE  /\ new \in Seq(Named(N)) /\ NamesOnce(new)
         /\ HasColumn(new, name, column)
         /\ \A n, c : HasColumn(foreign, n, c) => HasColumn(new, n, c)
         /\ \A n : HasName(new, n) => HasName(foreign, n) \/ n = name
<1> DEFINE k == EntryAt(foreign, "name", name)
           entry == [name |-> name, columns |-> <<>>]
           fks == IF k > Len(foreign) THEN Append(foreign, entry) ELSE foreign
<1>1. Len(foreign) \in Nat /\ DOMAIN foreign = 1..Len(foreign)
  OBVIOUS
<1>2. \/ k \in 1..Len(foreign) /\ foreign[k].name = name
      \/ k = Len(foreign) + 1 /\ \A j \in 1..Len(foreign) : foreign[j].name # name
  BY <1>1, EntryIsFound
<1>3. entry \in Named(N) /\ entry.name = name
  BY DEF Named
<1>5. new = AddColumn(fks, k, column)
  BY DEF MirrorName
<1> HIDE DEF k, entry
<1>4. /\ fks \in Seq(Named(N)) /\ k \in 1..Len(fks) /\ fks[k].name = name
      /\ \A j \in 1..Len(foreign) : j \in 1..Len(fks) /\ fks[j] = foreign[j]
      /\ \A j \in 1..Len(fks) : j \in 1..Len(foreign) \/ j = k
      /\ \A i, j \in 1..Len(fks) : fks[i].name = fks[j].name => i = j
  <2>1. CASE k \in 1..Len(foreign) /\ foreign[k].name = name
    <3>1. ~(k > Len(foreign))
      BY <1>1, <2>1
    <3>2. fks = foreign
      BY <3>1, Zenon
    <3> HIDE DEF fks
    <3> QED BY <1>1, <2>1, <3>2 DEF NamesOnce
  <2>2. CASE k = Len(foreign) + 1 /\ \A j \in 1..Len(foreign) : foreign[j].name # name
    <3>0. k > Len(foreign)
      BY <1>1, <2>2
    <3>1. fks = Append(foreign, entry)
      BY <3>0, Zenon
    <3> HIDE DEF fks
    <3>2. fks \in Seq(Named(N)) /\ Len(fks) = Len(foreign) + 1 /\ fks[k] = entry
          /\ \A j \in 1..Len(foreign) : fks[j] = foreign[j]
      BY <1>1, <1>3, <2>2, <3>1, AppendFacts
    <3>3. \A i, j \in 1..Len(fks) : fks[i].name = fks[j].name => i = j
      <4> SUFFICES ASSUME NEW i \in 1..Len(fks), NEW j \in 1..Len(fks), fks[i].name = fks[j].name
                   PROVE  i = j
        OBVIOUS
      <4>1. i \in 1..Len(foreign) \/ i = k
        BY <1>1, <2>2, <3>2
      <4>2. j \in 1..Len(foreign) \/ j = k
        BY <1>1, <2>2, <3>2
      <4>3. CASE i \in 1..Len(foreign) /\ j \in 1..Len(foreign)
        BY <1>1, <3>2, <4>3 DEF NamesOnce
      <4> QED BY <1>3, <2>2, <3>2, <4>1, <4>2, <4>3
    <3> QED BY <1>1, <1>3, <2>2, <3>2, <3>3
  <2> QED BY <1>2, <2>1, <2>2
<1> HIDE DEF fks
<1> QED BY <1>4, <1>5, NameGrows

\* A change of the foreign keys that one entry knows.
SetForeign(refs, i, foreign) == [refs EXCEPT ![i].foreign = foreign]

LEMMA ReferrerEdit ==
  ASSUME NEW N, NEW T, NEW refs \in Seq(Referrer(N, T)), NEW i \in 1..Len(refs),
         NEW foreign \in Seq(Named(N)), NEW new, new = SetForeign(refs, i, foreign)
  PROVE  /\ new \in Seq(Referrer(N, T)) /\ Len(new) = Len(refs)
         /\ new[i].table = refs[i].table /\ new[i].foreign = foreign
         /\ \A j \in 1..Len(refs) : j # i => new[j] = refs[j]
<1> DEFINE entry == [refs[i] EXCEPT !.foreign = foreign]
<1>1. new = [refs EXCEPT ![i] = entry]
  BY DEF SetForeign
<1>2. refs[i] \in Referrer(N, T)
  BY ElementOf
<1>3. entry \in Referrer(N, T) /\ entry.table = refs[i].table /\ entry.foreign = foreign
  BY <1>2 DEF Referrer
<1> HIDE DEF entry
<1>4. new \in Seq(Referrer(N, T))
  BY ONLY <1>1, <1>3, refs \in Seq(Referrer(N, T)), i \in 1..Len(refs), ListEdit
<1>7. Len(new) = Len(refs)
  BY <1>1, <1>3, ListEdit
<1>5. new[i] = entry
  BY <1>1, <1>3, ListEdit
<1>6. \A j \in 1..Len(refs) : j # i => new[j] = refs[j]
  BY <1>1, <1>3, ListEdit
<1> QED BY <1>3, <1>4, <1>5, <1>6, <1>7

\* A ReferencedBy with an entry i, which is empty if the other does not have it.
WithEntry(refs, known, i) ==
  /\ \A j \in 1..Len(refs) : j \in 1..Len(known) /\ known[j] = refs[j]
  /\ \A j \in 1..Len(known) : j \in 1..Len(refs) \/ (j = i /\ known[j].foreign = <<>>)

LEMMA MirrorGrows ==
  ASSUME NEW N, NEW T, NEW refs \in Seq(Referrer(N, T)), NEW table \in T, NEW name \in N, NEW column \in N,
         NEW known \in Seq(Referrer(N, T)), NEW i \in 1..Len(known), known[i].table = table,
         WithEntry(refs, known, i), KnownOnce(known),
         NEW foreign, foreign = MirrorName(known[i].foreign, name, column),
         NEW new, new = SetForeign(known, i, foreign)
  PROVE  /\ new \in Seq(Referrer(N, T)) /\ KnownOnce(new)
         /\ KnowsColumn(new, table, name, column)
         /\ \A t, n, c : KnowsColumn(refs, t, n, c) => KnowsColumn(new, t, n, c)
         /\ \A t, n : HasKey(new, t, n) => HasKey(refs, t, n) \/ (t = table /\ n = name)
<1>1. /\ DOMAIN refs = 1..Len(refs) /\ DOMAIN known = 1..Len(known)
      /\ \A j \in 1..Len(refs) : j \in 1..Len(known) /\ known[j] = refs[j]
      /\ \A j \in 1..Len(known) : j \in 1..Len(refs) \/ (j = i /\ known[j].foreign = <<>>)
      /\ known[i].table = table
  BY DEF WithEntry
<1>2. known[i].foreign \in Seq(Named(N)) /\ NamesOnce(known[i].foreign)
  <2>1. known[i] \in Referrer(N, T)
    BY ElementOf
  <2> QED BY <1>1, <2>1 DEF Referrer, KnownOnce
<1>3. foreign \in Seq(Named(N)) /\ NamesOnce(foreign) /\ HasColumn(foreign, name, column)
  BY <1>2, NameIsMirrored
<1>4. /\ \A n, c : HasColumn(known[i].foreign, n, c) => HasColumn(foreign, n, c)
      /\ \A n : HasName(foreign, n) => HasName(known[i].foreign, n) \/ n = name
  <2>1. \A n, c : HasColumn(known[i].foreign, n, c) => HasColumn(foreign, n, c)
    BY <1>2, NameIsMirrored
  <2>2. \A n : HasName(foreign, n) => HasName(known[i].foreign, n) \/ n = name
    BY <1>2, NameIsMirrored
  <2> QED BY <2>1, <2>2
<1>5. /\ new \in Seq(Referrer(N, T)) /\ DOMAIN new = 1..Len(known)
      /\ new[i].table = table /\ new[i].foreign = foreign
      /\ \A j \in 1..Len(known) : j # i => new[j] = known[j]
  <2>1. new \in Seq(Referrer(N, T))
    BY <1>3, ReferrerEdit
  <2>4. Len(new) = Len(known)
    BY <1>3, ReferrerEdit
  <2>2. new[i].table = known[i].table /\ new[i].foreign = foreign
    BY <1>3, ReferrerEdit
  <2>3. \A j \in 1..Len(known) : j # i => new[j] = known[j]
    BY <1>3, ReferrerEdit
  <2> QED BY <1>1, <2>1, <2>2, <2>3, <2>4
<1>6. \A j \in 1..Len(known) : new[j].table = known[j].table
  BY <1>1, <1>5
<1>7. KnownOnce(new)
  BY <1>1, <1>3, <1>5, <1>6 DEF KnownOnce
<1>8. KnowsColumn(new, table, name, column)
  BY <1>3, <1>5 DEF KnowsColumn
<1>9. ASSUME NEW t, NEW n, NEW c, KnowsColumn(refs, t, n, c) PROVE KnowsColumn(new, t, n, c)
  <2>1. PICK j \in 1..Len(refs) : refs[j].table = t /\ HasColumn(refs[j].foreign, n, c)
    BY <1>1, <1>9 DEF KnowsColumn
  <2>2. j \in 1..Len(known) /\ known[j] = refs[j]
    BY <1>1
  <2>3. CASE j = i
    BY <1>4, <1>5, <1>6, <2>1, <2>2, <2>3 DEF KnowsColumn
  <2>4. CASE j # i
    BY <1>5, <2>1, <2>2, <2>4 DEF KnowsColumn
  <2> QED BY <2>3, <2>4
<1>10. ASSUME NEW t, NEW n, HasKey(new, t, n) PROVE HasKey(refs, t, n) \/ (t = table /\ n = name)
  <2>1. PICK j \in 1..Len(known) : new[j].table = t /\ HasName(new[j].foreign, n)
    BY <1>5, <1>10 DEF HasKey
  <2>2. CASE j \in 1..Len(refs) /\ (HasName(known[j].foreign, n) \/ j # i)
    <3>1. HasName(refs[j].foreign, n) /\ refs[j].table = t
      BY <1>1, <1>5, <1>6, <2>1, <2>2
    <3> QED BY <1>1, <2>2, <3>1 DEF HasKey
  <2>3. CASE j = i
    <3>1. HasName(known[j].foreign, n) \/ n = name
      BY <1>4, <1>5, <2>1, <2>3
    <3>2. HasName(known[j].foreign, n) => j \in 1..Len(refs)
      BY <1>1 DEF HasName
    <3> QED BY <1>5, <2>1, <2>2, <2>3, <3>1, <3>2
  <2> QED BY <1>1, <2>2, <2>3
<1> QED BY <1>5, <1>7, <1>8, <1>9, <1>10

\* Mirror keeps what a ReferencedBy knows, adds the one column, and knows each key once.
LEMMA MirrorAdds ==
  ASSUME NEW N, NEW T, NEW refs \in Seq(Referrer(N, T)), NEW table \in T, NEW name \in N, NEW column \in N,
         KnownOnce(refs), NEW new, new = Mirror(refs, table, name, column)
  PROVE  /\ new \in Seq(Referrer(N, T)) /\ KnownOnce(new)
         /\ KnowsColumn(new, table, name, column)
         /\ \A t, n, c : KnowsColumn(refs, t, n, c) => KnowsColumn(new, t, n, c)
         /\ \A t, n : HasKey(new, t, n) => HasKey(refs, t, n) \/ (t = table /\ n = name)
<1> DEFINE i == EntryAt(refs, "table", table)
           entry == [table |-> table, foreign |-> <<>>]
           known == IF i > Len(refs) THEN Append(refs, entry) ELSE refs
           foreign == MirrorName(known[i].foreign, name, column)
<1>1. new = SetForeign(known, i, foreign)
  BY DEF Mirror, MirrorName, SetForeign
<1>2. Len(refs) \in Nat /\ DOMAIN refs = 1..Len(refs)
  OBVIOUS
<1>3. \/ i \in 1..Len(refs) /\ refs[i].table = table
      \/ i = Len(refs) + 1 /\ \A j \in 1..Len(refs) : refs[j].table # table
  BY <1>2, EntryIsFound
<1>4. entry \in Referrer(N, T) /\ entry.table = table /\ entry.foreign = <<>>
  BY DEF Referrer
<1>5. NamesOnce(<<>>)
  BY DEF NamesOnce
<1> HIDE DEF i, entry
<1>6. /\ known \in Seq(Referrer(N, T)) /\ i \in 1..Len(known) /\ known[i].table = table
      /\ \A j \in 1..Len(refs) : j \in 1..Len(known) /\ known[j] = refs[j]
      /\ \A j \in 1..Len(known) : j \in 1..Len(refs) \/ (j = i /\ known[j].foreign = <<>>)
      /\ KnownOnce(known)
  <2>1. CASE i \in 1..Len(refs) /\ refs[i].table = table
    <3>1. ~(i > Len(refs))
      BY <1>2, <2>1
    <3>2. known = refs
      BY <3>1, Zenon
    <3> HIDE DEF known
    <3> QED BY <1>2, <2>1, <3>2
  <2>2. CASE i = Len(refs) + 1 /\ \A j \in 1..Len(refs) : refs[j].table # table
    <3>0. i > Len(refs)
      BY <1>2, <2>2
    <3>1. known = Append(refs, entry)
      BY <3>0, Zenon
    <3> HIDE DEF known
    <3>2. /\ known \in Seq(Referrer(N, T)) /\ Len(known) = Len(refs) + 1
          /\ DOMAIN known = 1..Len(refs) + 1
          /\ known[i] = entry
          /\ \A j \in 1..Len(refs) : known[j] = refs[j]
      BY <1>2, <1>4, <2>2, <3>1, AppendFacts
    <3>3. KnownOnce(known)
      <4>1. \A j \in 1..Len(refs) + 1 : j \in 1..Len(refs) \/ j = i
        BY <1>2, <2>2
      <4>2. ASSUME NEW e \in 1..Len(refs) + 1, NEW f \in 1..Len(refs) + 1, known[e].table = known[f].table
            PROVE  e = f
        <5>1. CASE e \in 1..Len(refs) /\ f \in 1..Len(refs)
          BY <1>2, <3>2, <4>2, <5>1 DEF KnownOnce
        <5> QED BY <1>4, <2>2, <3>2, <4>1, <4>2, <5>1
      <4>3. ASSUME NEW e \in 1..Len(refs) + 1 PROVE NamesOnce(known[e].foreign)
        BY <1>2, <1>4, <1>5, <3>2, <4>1 DEF KnownOnce
      <4> QED BY <3>2, <4>2, <4>3 DEF KnownOnce
    <3> QED BY <1>2, <1>4, <2>2, <3>2, <3>3
  <2> QED BY <1>3, <2>1, <2>2
<1> HIDE DEF known
<1>7. foreign = MirrorName(known[i].foreign, name, column)
  OBVIOUS
<1> HIDE DEF foreign
<1>8. /\ known \in Seq(Referrer(N, T)) /\ i \in 1..Len(known) /\ known[i].table = table
      /\ WithEntry(refs, known, i) /\ KnownOnce(known)
  BY <1>6 DEF WithEntry
<1>12. new \in Seq(Referrer(N, T))
  BY <1>1, <1>7, <1>8, MirrorGrows
<1>9. KnownOnce(new)
  BY <1>1, <1>7, <1>8, MirrorGrows
<1>13. KnowsColumn(new, table, name, column)
  BY <1>1, <1>7, <1>8, MirrorGrows
<1>10. \A t, n, c : KnowsColumn(refs, t, n, c) => KnowsColumn(new, t, n, c)
  BY <1>1, <1>7, <1>8, MirrorGrows
<1>11. \A t, n : HasKey(new, t, n) => HasKey(refs, t, n) \/ (t = table /\ n = name)
  BY <1>1, <1>7, <1>8, MirrorGrows
<1> QED BY <1>9, <1>10, <1>11, <1>12, <1>13

-----------------------------------------------------------------------------
\* Both sides of a foreign key

\* Foreign key fk refers to table r.
Refers(tables, fk, r) == FindTable(tables, fk.ref) # 0 /\ tables[FindTable(tables, fk.ref)] = r

\* Every key that refers to a table is known there with its first column, and what a table knows
\* are keys that refer to it.
Agree(ks, tables) ==
  /\ \A r \in DOMAIN ks : KnownOnce(ks[r].referencedBy)
  /\ \A t \in DOMAIN ks : \A i \in DOMAIN ks[t].foreign :
       /\ 1 \in DOMAIN ks[t].foreign[i].columns
       /\ \A r \in DOMAIN ks : Refers(tables, ks[t].foreign[i], r) =>
            KnowsColumn(ks[r].referencedBy, t, ks[t].foreign[i].name, ks[t].foreign[i].columns[1])
  /\ \A r \in DOMAIN ks : \A t, n : HasKey(ks[r].referencedBy, t, n) =>
       /\ t \in DOMAIN ks
       /\ \E i \in DOMAIN ks[t].foreign : ks[t].foreign[i].name = n /\ Refers(tables, ks[t].foreign[i], r)

\* Changes of one list of one table.
SetOwn(ks, t, foreign) == [ks EXCEPT ![t].foreign = foreign]
SetReferencedBy(ks, r, refs) == [ks EXCEPT ![r].referencedBy = refs]
SetPk(ks, t, pk) == [ks EXCEPT ![t].pk = pk]
SetAlternate(ks, t, alternate) == [ks EXCEPT ![t].alternate = alternate]

LEMMA OwnEdit ==
  ASSUME NEW N, NEW T, NEW C, NEW ks \in [C -> Keys(N, T)], NEW t \in C,
         NEW foreign \in Seq(Foreign(N, T)), NEW new, new = SetOwn(ks, t, foreign)
  PROVE  /\ new \in [C -> Keys(N, T)] /\ new[t].foreign = foreign
         /\ \A r \in C : r # t => new[r].foreign = ks[r].foreign
         /\ \A r \in C : new[r].referencedBy = ks[r].referencedBy
<1> DEFINE entry == [ks[t] EXCEPT !.foreign = foreign]
<1>1. new = [ks EXCEPT ![t] = entry]
  BY DEF SetOwn
<1>2. ks[t] \in Keys(N, T)
  OBVIOUS
<1>3. entry \in Keys(N, T) /\ entry.foreign = foreign /\ entry.referencedBy = ks[t].referencedBy
  BY <1>2 DEF Keys
<1> HIDE DEF entry
<1>4. new \in [C -> Keys(N, T)] /\ new[t] = entry /\ \A r \in C : r # t => new[r] = ks[r]
  BY <1>1, <1>3
<1> QED BY <1>3, <1>4

OnlyReferencedBy(C, ks, new, t, refs) ==
  /\ new[t].referencedBy = refs
  /\ \A r \in C : r # t => new[r].referencedBy = ks[r].referencedBy
  /\ \A r \in C : new[r].foreign = ks[r].foreign

LEMMA ReferencedByEdit ==
  ASSUME NEW N, NEW T, NEW C, NEW ks \in [C -> Keys(N, T)], NEW t \in C,
         NEW refs \in Seq(Referrer(N, T)), NEW new, new = SetReferencedBy(ks, t, refs)
  PROVE  new \in [C -> Keys(N, T)] /\ OnlyReferencedBy(C, ks, new, t, refs)
<1> DEFINE entry == [ks[t] EXCEPT !.referencedBy = refs]
<1>1. new = [ks EXCEPT ![t] = entry]
  BY DEF SetReferencedBy
<1>2. ks[t] \in Keys(N, T)
  OBVIOUS
<1>3. entry \in Keys(N, T) /\ entry.referencedBy = refs /\ entry.foreign = ks[t].foreign
  BY <1>2 DEF Keys
<1> HIDE DEF entry
<1>4. new \in [C -> Keys(N, T)] /\ new[t] = entry /\ \A r \in C : r # t => new[r] = ks[r]
  BY <1>1, <1>3
<1> QED BY <1>3, <1>4 DEF OnlyReferencedBy

LEMMA OtherEdit ==
  ASSUME NEW N, NEW T, NEW C, NEW ks \in [C -> Keys(N, T)], NEW t \in C, NEW new,
         \/ \E pk \in Seq(N) : new = SetPk(ks, t, pk)
         \/ \E alternate \in Seq(Named(N)) : new = SetAlternate(ks, t, alternate)
  PROVE  /\ new \in [C -> Keys(N, T)]
         /\ \A r \in C : new[r].foreign = ks[r].foreign /\ new[r].referencedBy = ks[r].referencedBy
<1>2. ks[t] \in Keys(N, T)
  OBVIOUS
<1>3. PICK entry \in Keys(N, T) : /\ new = [ks EXCEPT ![t] = entry]
                                  /\ entry.foreign = ks[t].foreign
                                  /\ entry.referencedBy = ks[t].referencedBy
  <2>1. ASSUME NEW pk \in Seq(N), new = SetPk(ks, t, pk)
        PROVE  \E entry \in Keys(N, T) : /\ new = [ks EXCEPT ![t] = entry]
                                         /\ entry.foreign = ks[t].foreign
                                         /\ entry.referencedBy = ks[t].referencedBy
    <3> DEFINE entry == [ks[t] EXCEPT !.pk = pk]
    <3>1. new = [ks EXCEPT ![t] = entry]
      BY <2>1 DEF SetPk
    <3>2. entry \in Keys(N, T) /\ entry.referencedBy = ks[t].referencedBy /\ entry.foreign = ks[t].foreign
      BY <1>2 DEF Keys
    <3> HIDE DEF entry
    <3> QED BY <3>1, <3>2
  <2>2. ASSUME NEW alternate \in Seq(Named(N)), new = SetAlternate(ks, t, alternate)
        PROVE  \E entry \in Keys(N, T) : /\ new = [ks EXCEPT ![t] = entry]
                                         /\ entry.foreign = ks[t].foreign
                                         /\ entry.referencedBy = ks[t].referencedBy
    <3> DEFINE entry == [ks[t] EXCEPT !.alternate = alternate]
    <3>1. new = [ks EXCEPT ![t] = entry]
      BY <2>2 DEF SetAlternate
    <3>2. entry \in Keys(N, T) /\ entry.referencedBy = ks[t].referencedBy /\ entry.foreign = ks[t].foreign
      BY <1>2 DEF Keys
    <3> HIDE DEF entry
    <3> QED BY <3>1, <3>2
  <2> QED BY <2>1, <2>2
<1>4. new \in [C -> Keys(N, T)] /\ new[t] = entry /\ \A r \in C : r # t => new[r] = ks[r]
  BY <1>3
<1> QED BY <1>3, <1>4

\* Agreement is about these two lists only.
LEMMA OtherListsDoNotMatter ==
  ASSUME NEW C, NEW ks, DOMAIN ks = C, NEW new, DOMAIN new = C, NEW tables, Agree(ks, tables),
         \A r \in C : new[r].foreign = ks[r].foreign /\ new[r].referencedBy = ks[r].referencedBy
  PROVE  Agree(new, tables)
BY DEF Agree

\* A row that continues the last foreign key of its table.
LEMMA ContinuedAgrees ==
  ASSUME NEW N, NEW T, NEW C, NEW ks \in [C -> Keys(N, T)], NEW tables, Agree(ks, tables),
         NEW t \in C, NEW column \in N, Len(ks[t].foreign) # 0,
         NEW foreign, foreign = AddColumn(ks[t].foreign, Len(ks[t].foreign), column),
         NEW new, new = SetOwn(ks, t, foreign)
  PROVE  new \in [C -> Keys(N, T)] /\ Agree(new, tables)
<1> DEFINE own == ks[t].foreign
           n == Len(own)
<1>1. own \in Seq(Foreign(N, T))
  BY DEF Keys
<1>2. n \in 1..n /\ DOMAIN own = 1..n
  BY <1>1
<1>o. own = ks[t].foreign /\ n = Len(own) /\ foreign = AddColumn(own, n, column)
  OBVIOUS
<1> HIDE DEF own, n
<1>4. foreign \in Seq(Foreign(N, T))
  BY <1>o, <1>1, <1>2, ForeignColumnIsAdded
<1>5. Len(foreign) = n
  BY <1>o, <1>1, <1>2, ForeignColumnIsAdded
<1>6. foreign[n].name = own[n].name /\ foreign[n].ref = own[n].ref
  BY <1>o, <1>1, <1>2, ForeignColumnIsAdded
<1>7. OneMore(own[n].columns, column, foreign[n].columns)
  BY <1>o, <1>1, <1>2, ForeignColumnIsAdded
<1>8. \A j \in 1..n : j # n => foreign[j] = own[j]
  BY <1>o, <1>1, <1>2, ForeignColumnIsAdded
<1>9. new \in [C -> Keys(N, T)] /\ new[t].foreign = foreign
  BY <1>4, OwnEdit
<1>10. \A r \in C : r # t => new[r].foreign = ks[r].foreign
  BY <1>4, OwnEdit
<1>11. \A r \in C : new[r].referencedBy = ks[r].referencedBy
  BY <1>4, OwnEdit
<1>12. DOMAIN foreign = 1..n
  BY <1>4, <1>5
<1>13. ASSUME NEW i \in 1..n
       PROVE  /\ foreign[i].name = own[i].name /\ foreign[i].ref = own[i].ref
              /\ 1 \in DOMAIN own[i].columns =>
                   1 \in DOMAIN foreign[i].columns /\ foreign[i].columns[1] = own[i].columns[1]
  <2>1. CASE i = n
    BY <1>6, <1>7, <2>1 DEF OneMore
  <2>2. CASE i # n
    BY <1>8, <2>2
  <2> QED BY <2>1, <2>2
<1>14. ASSUME NEW i \in 1..n, NEW r PROVE Refers(tables, foreign[i], r) <=> Refers(tables, own[i], r)
  BY <1>13 DEF Refers
<1>15. DOMAIN ks = C /\ DOMAIN new = C
  BY <1>9
<1>16. ASSUME NEW u \in C, NEW i \in DOMAIN new[u].foreign
       PROVE  /\ i \in DOMAIN ks[u].foreign /\ new[u].foreign[i].name = ks[u].foreign[i].name
              /\ \A r : Refers(tables, new[u].foreign[i], r) <=> Refers(tables, ks[u].foreign[i], r)
              /\ 1 \in DOMAIN new[u].foreign[i].columns
              /\ new[u].foreign[i].columns[1] = ks[u].foreign[i].columns[1]
  <2>1. CASE u = t
    <3>1. i \in 1..n /\ i \in DOMAIN own
      BY <1>2, <1>9, <1>12, <2>1
    <3>2. 1 \in DOMAIN own[i].columns
      BY <1>15, <1>o, <3>1 DEF Agree
    <3> QED BY <1>9, <1>13, <1>14, <1>o, <2>1, <3>1, <3>2
  <2>2. CASE u # t
    BY <1>10, <1>15, <2>2 DEF Agree
  <2> QED BY <2>1, <2>2
<1>17. ASSUME NEW u \in C, NEW i \in DOMAIN ks[u].foreign
       PROVE  /\ i \in DOMAIN new[u].foreign /\ new[u].foreign[i].name = ks[u].foreign[i].name
              /\ \A r : Refers(tables, new[u].foreign[i], r) <=> Refers(tables, ks[u].foreign[i], r)
  <2>1. CASE u = t
    BY <1>2, <1>9, <1>12, <1>13, <1>14, <1>o, <2>1
  <2>2. CASE u # t
    BY <1>10, <2>2
  <2> QED BY <2>1, <2>2
<1>18. Agree(new, tables)
  <2>1. \A r \in C : KnownOnce(new[r].referencedBy)
    BY <1>11, <1>15 DEF Agree
  <2>2. ASSUME NEW u \in C, NEW i \in DOMAIN new[u].foreign
        PROVE  /\ 1 \in DOMAIN new[u].foreign[i].columns
               /\ \A r \in C : Refers(tables, new[u].foreign[i], r) =>
                    KnowsColumn(new[r].referencedBy, u, new[u].foreign[i].name, new[u].foreign[i].columns[1])
    BY <1>11, <1>15, <1>16 DEF Agree
  <2>3. ASSUME NEW r \in C, NEW u, NEW m, HasKey(new[r].referencedBy, u, m)
        PROVE  /\ u \in C
               /\ \E i \in DOMAIN new[u].foreign : new[u].foreign[i].name = m /\ Refers(tables, new[u].foreign[i], r)
    <3>1. HasKey(ks[r].referencedBy, u, m)
      BY <1>11, <2>3
    <3>2. u \in C /\ \E i \in DOMAIN ks[u].foreign : ks[u].foreign[i].name = m /\ Refers(tables, ks[u].foreign[i], r)
      BY <1>15, <3>1 DEF Agree
    <3> QED BY <1>17, <3>2
  <2> USE <1>15
  <2>4. \A r \in DOMAIN new : KnownOnce(new[r].referencedBy)
    BY <2>1
  <2>5. \A u \in DOMAIN new : \A i \in DOMAIN new[u].foreign :
          /\ 1 \in DOMAIN new[u].foreign[i].columns
          /\ \A r \in DOMAIN new : Refers(tables, new[u].foreign[i], r) =>
               KnowsColumn(new[r].referencedBy, u, new[u].foreign[i].name, new[u].foreign[i].columns[1])
    BY <2>2
  <2>6. \A r \in DOMAIN new : \A u, m : HasKey(new[r].referencedBy, u, m) =>
          /\ u \in DOMAIN new
          /\ \E i \in DOMAIN new[u].foreign : new[u].foreign[i].name = m /\ Refers(tables, new[u].foreign[i], r)
    BY <2>3
  <2> QED BY ONLY <2>4, <2>5, <2>6, Zenon DEF Agree
<1> QED BY <1>9, <1>18

\* A ReferencedBy learns a column of a key.
Learns(old, new, t, n, c) ==
  /\ KnownOnce(new) /\ KnowsColumn(new, t, n, c)
  /\ \A u, m, d : KnowsColumn(old, u, m, d) => KnowsColumn(new, u, m, d)
  /\ \A u, m : HasKey(new, u, m) => HasKey(old, u, m) \/ (u = t /\ m = n)

OnlyForeign(C, ks, new, t, foreign) ==
  new[t].foreign = foreign /\ \A r \in C : r # t => new[r].foreign = ks[r].foreign
OnlyLearns(C, ks, new, t, tables, fk) ==
  \A r \in C : IF Refers(tables, fk, r)
               THEN Learns(ks[r].referencedBy, new[r].referencedBy, t, fk.name, fk.columns[1])
               ELSE new[r].referencedBy = ks[r].referencedBy

\* A new foreign key of t, of which the table it refers to learns.
LEMMA StartedAgrees ==
  ASSUME NEW N, NEW T, NEW C, NEW ks \in [C -> Keys(N, T)], NEW tables, Agree(ks, tables),
         NEW t \in C, NEW fk \in Foreign(N, T), 1 \in DOMAIN fk.columns,
         NEW new \in [C -> Keys(N, T)],
         NEW foreign, foreign = Append(ks[t].foreign, fk),
         OnlyForeign(C, ks, new, t, foreign), OnlyLearns(C, ks, new, t, tables, fk)
  PROVE  Agree(new, tables)
<1> USE DEF OnlyForeign, OnlyLearns
<1> DEFINE own == ks[t].foreign
           n == Len(own)
<1>1. own \in Seq(Foreign(N, T))
  BY DEF Keys
<1>2. n \in Nat /\ DOMAIN own = 1..n
  BY <1>1
<1>3. DOMAIN foreign = 1..n + 1 /\ foreign[n + 1] = fk /\ \A i \in 1..n : foreign[i] = own[i]
  BY <1>1, AppendFacts
<1>4. DOMAIN ks = C /\ DOMAIN new = C
  OBVIOUS
<1>5. ASSUME NEW u \in C, NEW i \in DOMAIN new[u].foreign
      PROVE  \/ u = t /\ i = n + 1 /\ new[u].foreign[i] = fk
             \/ i \in DOMAIN ks[u].foreign /\ new[u].foreign[i] = ks[u].foreign[i]
  BY <1>2, <1>3
<1>6. ASSUME NEW u \in C, NEW i \in DOMAIN ks[u].foreign
      PROVE  i \in DOMAIN new[u].foreign /\ new[u].foreign[i] = ks[u].foreign[i]
  <2>1. CASE u = t
    BY <1>2, <1>3, <2>1
  <2>2. CASE u # t
    BY <2>2
  <2> QED BY <2>1, <2>2
<1>7. n + 1 \in DOMAIN new[t].foreign /\ new[t].foreign[n + 1] = fk
  BY <1>2, <1>3
<1>8. ASSUME NEW r \in C
      PROVE  /\ KnownOnce(new[r].referencedBy)
             /\ \A u, m, c : KnowsColumn(ks[r].referencedBy, u, m, c) => KnowsColumn(new[r].referencedBy, u, m, c)
             /\ Refers(tables, fk, r) => KnowsColumn(new[r].referencedBy, t, fk.name, fk.columns[1])
             /\ \A u, m : HasKey(new[r].referencedBy, u, m) =>
                  \/ HasKey(ks[r].referencedBy, u, m)
                  \/ u = t /\ m = fk.name /\ Refers(tables, fk, r)
  <2>1. KnownOnce(ks[r].referencedBy)
    BY <1>4 DEF Agree
  <2>2. CASE Refers(tables, fk, r)
    BY <2>2 DEF Learns
  <2>3. CASE ~Refers(tables, fk, r)
    BY <2>1, <2>3
  <2> QED BY <2>2, <2>3
<1>9. \A r \in DOMAIN new : KnownOnce(new[r].referencedBy)
  BY <1>4, <1>8
<1>10. ASSUME NEW u \in C, NEW i \in DOMAIN new[u].foreign, NEW r \in C
       PROVE  /\ 1 \in DOMAIN new[u].foreign[i].columns
              /\ Refers(tables, new[u].foreign[i], r) =>
                   KnowsColumn(new[r].referencedBy, u, new[u].foreign[i].name, new[u].foreign[i].columns[1])
  <2>1. CASE u = t /\ i = n + 1 /\ new[u].foreign[i] = fk
    BY <1>8, <2>1
  <2>2. CASE i \in DOMAIN ks[u].foreign /\ new[u].foreign[i] = ks[u].foreign[i]
    <3>1. /\ 1 \in DOMAIN ks[u].foreign[i].columns
          /\ Refers(tables, ks[u].foreign[i], r) =>
               KnowsColumn(ks[r].referencedBy, u, ks[u].foreign[i].name, ks[u].foreign[i].columns[1])
      BY <1>4, <2>2 DEF Agree
    <3> QED BY <1>8, <2>2, <3>1
  <2> QED BY <1>5, <2>1, <2>2
<1>11. \A u \in DOMAIN new : \A i \in DOMAIN new[u].foreign :
         /\ 1 \in DOMAIN new[u].foreign[i].columns
         /\ \A r \in DOMAIN new : Refers(tables, new[u].foreign[i], r) =>
              KnowsColumn(new[r].referencedBy, u, new[u].foreign[i].name, new[u].foreign[i].columns[1])
  BY <1>4, <1>10
<1>12. ASSUME NEW r \in C, NEW u, NEW m, HasKey(new[r].referencedBy, u, m)
       PROVE  /\ u \in C
              /\ \E i \in DOMAIN new[u].foreign : new[u].foreign[i].name = m /\ Refers(tables, new[u].foreign[i], r)
  <2>1. CASE HasKey(ks[r].referencedBy, u, m)
    <3>1. u \in C /\ \E i \in DOMAIN ks[u].foreign : ks[u].foreign[i].name = m /\ Refers(tables, ks[u].foreign[i], r)
      BY <1>4, <2>1 DEF Agree
    <3> QED BY <1>6, <3>1
  <2>2. CASE u = t /\ m = fk.name /\ Refers(tables, fk, r)
    BY <1>7, <2>2
  <2> QED BY <1>8, <1>12, <2>1, <2>2
<1>13. \A r \in DOMAIN new : \A u, m : HasKey(new[r].referencedBy, u, m) =>
         /\ u \in DOMAIN new
         /\ \E i \in DOMAIN new[u].foreign : new[u].foreign[i].name = m /\ Refers(tables, new[u].foreign[i], r)
  BY <1>4, <1>12
<1> QED BY ONLY <1>9, <1>11, <1>13, Zenon DEF Agree

\* A foreign key is added to its own table.  When FindTable knows no referenced table, that is all.
Told(C, ks, tables, t, fk, new) ==
  LET ref == FindTable(tables, fk.ref)
      added == SetOwn(ks, t, Append(ks[t].foreign, fk))
  IN  \/ ref = 0 /\ new = added
      \/ /\ ref # 0 /\ tables[ref] \in C
         /\ new = SetReferencedBy(added, tables[ref],
                                  Mirror(ks[tables[ref]].referencedBy, t, fk.name, fk.columns[1]))

LEMMA AddedAgrees ==
  ASSUME NEW N, NEW T, NEW C, NEW ks \in [C -> Keys(N, T)], NEW tables, Agree(ks, tables),
         NEW t \in C, t \in T, NEW fk \in Foreign(N, T), 1 \in DOMAIN fk.columns, fk.columns[1] \in N,
         NEW new, Told(C, ks, tables, t, fk, new)
  PROVE  new \in [C -> Keys(N, T)] /\ Agree(new, tables)
<1> PICK foreign : foreign = Append(ks[t].foreign, fk)
  OBVIOUS
<1> PICK added : added = SetOwn(ks, t, foreign)
  OBVIOUS
<1> PICK ref : ref = FindTable(tables, fk.ref)
  OBVIOUS
<1> USE DEF Told
<1>1. ks[t].foreign \in Seq(Foreign(N, T))
  BY DEF Keys
<1>2. foreign \in Seq(Foreign(N, T))
  BY <1>1
<1>0. ks \in [C -> Keys(N, T)] /\ t \in C /\ added = SetOwn(ks, t, foreign)
  OBVIOUS
<1>8. /\ Agree(ks, tables) /\ fk \in Foreign(N, T) /\ 1 \in DOMAIN fk.columns
      /\ foreign = Append(ks[t].foreign, fk)
  OBVIOUS
<1>3. added \in [C -> Keys(N, T)] /\ added[t].foreign = foreign
  BY ONLY <1>0, <1>2, OwnEdit
<1>4. \A r \in C : r # t => added[r].foreign = ks[r].foreign
  BY ONLY <1>0, <1>2, OwnEdit
<1>5. \A r \in C : added[r].referencedBy = ks[r].referencedBy
  BY ONLY <1>0, <1>2, OwnEdit
<1>6. CASE ref = 0 /\ new = added
  <2>1. OnlyForeign(C, ks, added, t, foreign)
    BY <1>3, <1>4 DEF OnlyForeign
  <2>3. OnlyLearns(C, ks, added, t, tables, fk)
    BY <1>5, <1>6 DEF OnlyLearns, Refers
  <2>2. Agree(added, tables)
    BY ONLY <1>0, <1>8, <1>3, <2>1, <2>3, StartedAgrees
  <2> QED BY <1>3, <1>6, <2>2
<1>7. ASSUME NEW r0 \in C, ref # 0, tables[ref] = r0,
             NEW refs, refs = Mirror(ks[r0].referencedBy, t, fk.name, fk.columns[1]),
             new = SetReferencedBy(added, r0, refs)
      PROVE  new \in [C -> Keys(N, T)] /\ Agree(new, tables)
  <2>1. ks[r0].referencedBy \in Seq(Referrer(N, T)) /\ KnownOnce(ks[r0].referencedBy)
    BY DEF Keys, Agree
  <2>2. fk.name \in N
    BY DEF Foreign
  <2>3. refs \in Seq(Referrer(N, T))
    BY <1>7, <2>1, <2>2, MirrorAdds
  <2>4. Learns(ks[r0].referencedBy, refs, t, fk.name, fk.columns[1])
    <3>1. KnownOnce(refs)
      BY <1>7, <2>1, <2>2, MirrorAdds
    <3>2. KnowsColumn(refs, t, fk.name, fk.columns[1])
      BY <1>7, <2>1, <2>2, MirrorAdds
    <3>3. \A u, m, c : KnowsColumn(ks[r0].referencedBy, u, m, c) => KnowsColumn(refs, u, m, c)
      BY <1>7, <2>1, <2>2, MirrorAdds
    <3>4. \A u, m : HasKey(refs, u, m) => HasKey(ks[r0].referencedBy, u, m) \/ (u = t /\ m = fk.name)
      BY <1>7, <2>1, <2>2, MirrorAdds
    <3> QED BY <3>1, <3>2, <3>3, <3>4 DEF Learns
  <2>0. r0 \in C /\ added \in [C -> Keys(N, T)] /\ new = SetReferencedBy(added, r0, refs)
    BY <1>3, <1>7
  <2>5. new \in [C -> Keys(N, T)]
    BY ONLY <2>0, <2>3, ReferencedByEdit
  <2>6. OnlyReferencedBy(C, added, new, r0, refs)
    BY ONLY <2>0, <2>3, ReferencedByEdit
  <2>7. /\ new[r0].referencedBy = refs
        /\ \A r \in C : r # r0 => new[r].referencedBy = added[r].referencedBy
        /\ \A r \in C : new[r].foreign = added[r].foreign
    BY <2>6 DEF OnlyReferencedBy
  <2>8. OnlyForeign(C, ks, new, t, foreign)
    BY <1>3, <1>4, <2>7 DEF OnlyForeign
  <2>9. \A r : Refers(tables, fk, r) <=> r = r0
    BY <1>7 DEF Refers
  <2>10. OnlyLearns(C, ks, new, t, tables, fk)
    <3> SUFFICES ASSUME NEW r \in C
                 PROVE  IF Refers(tables, fk, r)
                        THEN Learns(ks[r].referencedBy, new[r].referencedBy, t, fk.name, fk.columns[1])
                        ELSE new[r].referencedBy = ks[r].referencedBy
      BY DEF OnlyLearns
    <3>1. CASE r = r0
      <4>1. Refers(tables, fk, r) /\ new[r].referencedBy = refs
        BY <2>7, <2>9, <3>1
      <4> QED BY <2>4, <3>1, <4>1
    <3>2. CASE r # r0
      <4>1. ~Refers(tables, fk, r) /\ new[r].referencedBy = ks[r].referencedBy
        BY <1>5, <2>7, <2>9, <3>2
      <4> QED BY <4>1
    <3> QED BY <3>1, <3>2
  <2>11. Agree(new, tables)
    BY ONLY <1>0, <1>8, <2>5, <2>8, <2>10, StartedAgrees
  <2> QED BY <2>5, <2>11
<1> QED BY <1>6, <1>7

LEMMA UniqueIsListed ==
  ASSUME NEW N, NEW list \in Seq(Named(N)), NEW row, row.name \in N, row.column \in N,
         NEW new, new = AddUnique(list, row)
  PROVE  new \in Seq(Named(N))
<1>1. CASE ContinuesLast(list, row.name)
  <2>1. Len(list) \in 1..Len(list)
    BY <1>1 DEF ContinuesLast
  <2>2. new = AddColumn(list, Len(list), row.column)
    BY <1>1 DEF AddUnique
  <2> QED BY <2>1, <2>2, NamedColumnIsAdded
<1>2. CASE ~ContinuesLast(list, row.name)
  <2> DEFINE entry == [name |-> row.name, columns |-> <<row.column>>]
  <2>1. entry \in Named(N)
    BY DEF Named
  <2>2. new = Append(list, entry)
    BY <1>2 DEF AddUnique
  <2> HIDE DEF entry
  <2> QED BY <2>1, <2>2
<1> QED BY <1>1, <1>2

\* A row of a constraint of table t, in names N and tables T.
ConstraintOf(row, t, N, T) ==
  row.table = t /\ row.name \in N /\ row.column \in N /\ row.ref \in T

LEMMA ForeignKeyRowKeeps ==
  ASSUME NEW N, NEW T, NEW C, NEW ks \in [C -> Keys(N, T)], NEW tables, Agree(ks, tables),
         Len(tables) \in Nat, \A j \in 1..Len(tables) : tables[j] \in C,
         NEW t \in C, t \in T, NEW row, ConstraintOf(row, t, N, T),
         NEW done, done = ForeignKeyRow(ks, tables, t, row)
  PROVE  done.keys \in [C -> Keys(N, T)] /\ Agree(done.keys, tables)
<1>0. row.table = t /\ row.name \in N /\ row.column \in N /\ row.ref \in T
  BY DEF ConstraintOf
<1> PICK own : own = ks[t].foreign
  OBVIOUS
<1> PICK ref : ref = FindTable(tables, row.ref)
  OBVIOUS
<1> PICK fk : fk = [name |-> row.name, columns |-> <<row.column>>, ref |-> row.ref]
  OBVIOUS
<1> PICK foreign : foreign = Append(ks[t].foreign, fk)
  OBVIOUS
<1> PICK added : added = SetOwn(ks, t, foreign)
  OBVIOUS
<1>1. own \in Seq(Foreign(N, T))
  BY DEF Keys
<1>2. CASE ContinuesLast(own, row.name)
  <2>1. Len(own) # 0
    BY <1>1, <1>2 DEF ContinuesLast
  <2>2. done.keys = SetOwn(ks, t, AddColumn(own, Len(own), row.column))
    BY <1>2 DEF ForeignKeyRow, SetOwn
  <2> QED BY <1>0, <2>1, <2>2, ContinuedAgrees
<1>3. /\ fk \in Foreign(N, T) /\ 1 \in DOMAIN fk.columns /\ fk.columns[1] = row.column
      /\ fk.ref = row.ref /\ fk.name = row.name
  BY <1>0 DEF Foreign
<1>6. /\ ks \in [C -> Keys(N, T)] /\ Agree(ks, tables) /\ t \in C /\ t \in T
      /\ fk.columns[1] \in N
  BY <1>0, <1>3
<1>4. CASE ~ContinuesLast(own, row.name) /\ ref = 0
  <2>1. done.keys = added
    BY <1>4 DEF ForeignKeyRow, SetOwn
  <2>2. Told(C, ks, tables, t, fk, added)
    BY <1>3, <1>4 DEF Told
  <2>3. added \in [C -> Keys(N, T)]
    BY ONLY <1>6, <1>3, <2>2, AddedAgrees
  <2>4. Agree(added, tables)
    BY ONLY <1>6, <1>3, <2>2, AddedAgrees
  <2> QED BY <2>1, <2>3, <2>4
<1>5. CASE ~ContinuesLast(own, row.name) /\ ref # 0
  <2>1. tables[ref] \in C
    BY <1>5, FindTableFinds
  <2>2. done.keys = SetReferencedBy(added, tables[ref], Mirror(added[tables[ref]].referencedBy, t, row.name, row.column))
    BY <1>0, <1>5 DEF ForeignKeyRow, SetOwn, SetReferencedBy
  <2>3. foreign \in Seq(Foreign(N, T))
    BY <1>1, <1>3
  <2>4. ks \in [C -> Keys(N, T)] /\ t \in C /\ added = SetOwn(ks, t, foreign)
    OBVIOUS
  <2>5. \A r \in C : added[r].referencedBy = ks[r].referencedBy
    BY ONLY <2>3, <2>4, OwnEdit
  <2> PICK new : new = done.keys
    OBVIOUS
  <2>6. new = SetReferencedBy(added, tables[ref], Mirror(ks[tables[ref]].referencedBy, t, fk.name, fk.columns[1]))
    BY <1>3, <2>1, <2>2, <2>5
  <2>7. Told(C, ks, tables, t, fk, new)
    BY <1>3, <1>5, <2>1, <2>6 DEF Told
  <2>8. new \in [C -> Keys(N, T)]
    BY ONLY <1>6, <1>3, <2>7, AddedAgrees
  <2>9. Agree(new, tables)
    BY ONLY <1>6, <1>3, <2>7, AddedAgrees
  <2> QED BY <2>8, <2>9
<1> QED BY <1>2, <1>4, <1>5

\* A row of a constraint, of any type, keeps both sides of the foreign keys in agreement.
LEMMA ConstraintKeeps ==
  ASSUME NEW N, NEW T, NEW C, NEW ks \in [C -> Keys(N, T)], NEW tables, Agree(ks, tables),
         Len(tables) \in Nat, \A j \in 1..Len(tables) : tables[j] \in C,
         NEW t \in C, t \in T, NEW row, ConstraintOf(row, t, N, T),
         NEW done, done = ProcessConstraint(ks, tables, t, row)
  PROVE  done.keys \in [C -> Keys(N, T)] /\ Agree(done.keys, tables)
<1>1. CASE row.type = "FOREIGN KEY"
  <2>1. done = ForeignKeyRow(ks, tables, t, row)
    BY <1>1 DEF ProcessConstraint
  <2> QED BY <2>1, ForeignKeyRowKeeps
<1>2. ASSUME NEW ks2, done.keys = ks2,
             \/ \E pk \in Seq(N) : ks2 = SetPk(ks, t, pk)
             \/ \E alternate \in Seq(Named(N)) : ks2 = SetAlternate(ks, t, alternate)
      PROVE  done.keys \in [C -> Keys(N, T)] /\ Agree(done.keys, tables)
  <2>1. ks2 \in [C -> Keys(N, T)]
    BY <1>2, OtherEdit
  <2>2. \A r \in C : ks2[r].foreign = ks[r].foreign /\ ks2[r].referencedBy = ks[r].referencedBy
    BY <1>2, OtherEdit
  <2>3. Agree(ks2, tables)
    BY <2>1, <2>2, OtherListsDoNotMatter
  <2> QED BY <1>2, <2>1, <2>3
<1>3. CASE row.type = "PRIMARY KEY"
  <2> DEFINE pk == Append(ks[t].pk, row.column)
  <2>1. done.keys = SetPk(ks, t, pk)
    BY <1>3 DEF ProcessConstraint, SetPk
  <2>2. pk \in Seq(N)
    BY DEF Keys, ConstraintOf
  <2> HIDE DEF pk
  <2> QED BY <1>2, <2>1, <2>2
<1>4. CASE row.type = "UNIQUE"
  <2> DEFINE alternate == AddUnique(ks[t].alternate, row)
  <2>1. done.keys = SetAlternate(ks, t, alternate)
    BY <1>4 DEF ProcessConstraint, SetAlternate
  <2>2. alternate \in Seq(Named(N))
    BY UniqueIsListed DEF Keys, ConstraintOf
  <2> HIDE DEF alternate
  <2> QED BY <1>2, <2>1, <2>2
<1>5. CASE row.type \notin {"PRIMARY KEY", "UNIQUE", "FOREIGN KEY"}
  <2>1. done.keys = ks
    BY <1>5 DEF ProcessConstraint
  <2> QED BY <2>1
<1> QED BY <1>1, <1>3, <1>4, <1>5

LEMMA AtMostOne ==
  ASSUME NEW S, \A x, y \in S : x = y
  PROVE  Cardinality(S) <= 1 /\ (S # {} => Cardinality(S) = 1)
<1>1. CASE S = {}
  BY <1>1, FS_EmptySet
<1>2. ASSUME NEW x \in S PROVE Cardinality(S) = 1
  <2>1. S = {x}
    OBVIOUS
  <2> QED BY <2>1, FS_Singleton
<1> QED BY <1>1, <1>2

LEMMA MirrorPlace ==
  ASSUME NEW refs, NEW t, NEW n, NEW p
  PROVE  p \in MirrorsOf(refs, t, n) <=>
           \E e \in DOMAIN refs : /\ refs[e].table = t
                                  /\ \E k \in DOMAIN refs[e].foreign : refs[e].foreign[k].name = n /\ p = <<e, k>>
BY DEF MirrorsOf

\* Agreement is what the scanner's users see of it.
LEMMA AgreeIsMirrored ==
  ASSUME NEW ks, NEW tables, Agree(ks, tables)
  PROVE  Mirrored(ks, tables)
<1> SUFFICES ASSUME NEW t \in DOMAIN ks, NEW r \in DOMAIN ks
             PROVE
    /\ Cardinality({e \in DOMAIN ks[r].referencedBy : ks[r].referencedBy[e].table = t}) <= 1
    /\ \A i \in ForeignKeysTo(ks, tables, t, r) :
         LET fk == ks[t].foreign[i]
             places == MirrorsOf(ks[r].referencedBy, t, fk.name)
         IN  /\ Cardinality(places) = 1
             /\ \A p \in places : LET names == ks[r].referencedBy[p[1]].foreign[p[2]].columns
                                  IN  \E c \in DOMAIN names : names[c] = fk.columns[1]
    /\ \A e \in DOMAIN ks[r].referencedBy :
         ks[r].referencedBy[e].table = t =>
           \A k \in DOMAIN ks[r].referencedBy[e].foreign :
             \E i \in ForeignKeysTo(ks, tables, t, r) :
               ks[t].foreign[i].name = ks[r].referencedBy[e].foreign[k].name
  BY Zenon DEF Mirrored
<1> PICK refs : refs = ks[r].referencedBy
  OBVIOUS
<1>1. KnownOnce(refs)
  BY DEF Agree
<1>2. \A i : i \in ForeignKeysTo(ks, tables, t, r) <=>
               i \in DOMAIN ks[t].foreign /\ Refers(tables, ks[t].foreign[i], r)
  BY DEF ForeignKeysTo, Refers
<1>3. Cardinality({e \in DOMAIN refs : refs[e].table = t}) <= 1
  <2> DEFINE S == {e \in DOMAIN refs : refs[e].table = t}
  <2>1. \A x, y \in S : x = y
    BY <1>1 DEF KnownOnce
  <2> HIDE DEF S
  <2> QED BY <2>1, AtMostOne DEF S
<1>4. ASSUME NEW i \in ForeignKeysTo(ks, tables, t, r),
             NEW fk, fk = ks[t].foreign[i], NEW places, places = MirrorsOf(refs, t, fk.name)
      PROVE  /\ Cardinality(places) = 1
             /\ \A p \in places : \E c \in DOMAIN refs[p[1]].foreign[p[2]].columns :
                                    refs[p[1]].foreign[p[2]].columns[c] = fk.columns[1]
  <2>1. KnowsColumn(refs, t, fk.name, fk.columns[1])
    BY <1>2, <1>4 DEF Agree
  <2>2. PICK e \in DOMAIN refs : refs[e].table = t /\ HasColumn(refs[e].foreign, fk.name, fk.columns[1])
    BY <2>1 DEF KnowsColumn
  <2>3. PICK k \in DOMAIN refs[e].foreign :
          /\ refs[e].foreign[k].name = fk.name
          /\ \E c \in DOMAIN refs[e].foreign[k].columns : refs[e].foreign[k].columns[c] = fk.columns[1]
    BY <2>2 DEF HasColumn
  <2>4. <<e, k>> \in places
    BY <1>4, <2>2, <2>3, MirrorPlace
  <2>5. ASSUME NEW p \in places PROVE p = <<e, k>>
    <3>1. PICK f \in DOMAIN refs : /\ refs[f].table = t
                                   /\ \E l \in DOMAIN refs[f].foreign :
                                        refs[f].foreign[l].name = fk.name /\ p = <<f, l>>
      BY <1>4, MirrorPlace
    <3>2. f = e
      BY <1>1, <2>2, <3>1 DEF KnownOnce
    <3>3. PICK l \in DOMAIN refs[e].foreign : refs[e].foreign[l].name = fk.name /\ p = <<e, l>>
      BY <3>1, <3>2
    <3>4. l = k
      BY <1>1, <2>3, <3>3 DEF KnownOnce, NamesOnce
    <3> QED BY <3>3, <3>4
  <2>6. Cardinality(places) = 1
    <3>1. \A x, y \in places : x = y
      BY <2>5
    <3> QED BY <2>4, <3>1, AtMostOne
  <2>7. ASSUME NEW p \in places
        PROVE  \E c \in DOMAIN refs[p[1]].foreign[p[2]].columns :
                 refs[p[1]].foreign[p[2]].columns[c] = fk.columns[1]
    <3>1. p = <<e, k>> /\ p[1] = e /\ p[2] = k
      BY <2>5
    <3>2. \E c \in DOMAIN refs[e].foreign[k].columns : refs[e].foreign[k].columns[c] = fk.columns[1]
      BY <2>3
    <3> QED BY ONLY <3>1, <3>2
  <2> QED BY <2>6, <2>7
<1>5. ASSUME NEW e \in DOMAIN refs, refs[e].table = t, NEW k \in DOMAIN refs[e].foreign
      PROVE  \E i \in ForeignKeysTo(ks, tables, t, r) : ks[t].foreign[i].name = refs[e].foreign[k].name
  <2>1. HasKey(refs, t, refs[e].foreign[k].name)
    BY <1>5 DEF HasKey, HasName
  <2> QED BY <1>2, <2>1 DEF Agree
<1>6. \A i \in ForeignKeysTo(ks, tables, t, r) :
        /\ Cardinality(MirrorsOf(refs, t, ks[t].foreign[i].name)) = 1
        /\ \A p \in MirrorsOf(refs, t, ks[t].foreign[i].name) :
             \E c \in DOMAIN refs[p[1]].foreign[p[2]].columns :
               refs[p[1]].foreign[p[2]].columns[c] = ks[t].foreign[i].columns[1]
  BY <1>4
<1> QED BY <1>3, <1>5, <1>6

-----------------------------------------------------------------------------
\* Places of rows

\* All that a stream's rows may name: the tables, or the indexes.
FullList(s) ==
  IF s = "indexColumns"
  THEN [i \in 1..Len(db.rows["indexes"]) |-> IndexKey(db.rows["indexes"][i])]
  ELSE [i \in 1..Len(db.collections) |-> db.collections[i].table]
KeyOf(s, r) == IF s = "indexColumns" THEN <<r.table, r.index>> ELSE r.table

LEMMA CatalogLists ==
  ASSUME db \in Databases
  PROVE  /\ Len(db.collections) \in Nat /\ DOMAIN db.collections = 1..Len(db.collections)
         /\ \A s \in Streams : Len(db.rows[s]) \in Nat /\ DOMAIN db.rows[s] = 1..Len(db.rows[s])
<1>1. IsCatalog(db)
  BY DatabasesAssumption
<1>2. \A s : IsList(s) => Len(s) \in Nat /\ DOMAIN s = 1..Len(s)
  BY DEF IsList
<1> QED BY <1>1, <1>2 DEF IsCatalog

LEMMA NamedOnce ==
  ASSUME db \in Databases, NEW s \in Streams
  PROVE  /\ Len(FullList(s)) \in Nat /\ DOMAIN FullList(s) = 1..Len(FullList(s))
         /\ \A i, j \in 1..Len(FullList(s)) : FullList(s)[i] = FullList(s)[j] => i = j
<1>1. IsCatalog(db)
  BY DatabasesAssumption
<1>2. CASE s = "indexColumns"
  <2> PICK rows : rows = db.rows["indexes"]
    OBVIOUS
  <2>1. Len(rows) \in Nat /\ DOMAIN rows = 1..Len(rows)
    BY CatalogLists DEF Streams
  <2>2. \A i, j \in DOMAIN rows : IndexKey(rows[i]) = IndexKey(rows[j]) => i = j
    BY <1>1 DEF IsCatalog
  <2>3. FullList(s) = [i \in 1..Len(rows) |-> IndexKey(rows[i])]
    BY <1>2 DEF FullList
  <2>4. Len(FullList(s)) = Len(rows) /\ DOMAIN FullList(s) = 1..Len(rows)
    BY <2>1, <2>3
  <2> QED BY <2>1, <2>2, <2>3, <2>4
<1>3. CASE s # "indexColumns"
  <2> PICK rows : rows = db.collections
    OBVIOUS
  <2>1. Len(rows) \in Nat /\ DOMAIN rows = 1..Len(rows)
    BY CatalogLists
  <2>2. \A i, j \in DOMAIN rows : rows[i].table = rows[j].table => i = j
    BY <1>1 DEF IsCatalog
  <2>3. FullList(s) = [i \in 1..Len(rows) |-> rows[i].table]
    BY <1>3 DEF FullList
  <2>4. Len(FullList(s)) = Len(rows) /\ DOMAIN FullList(s) = 1..Len(rows)
    BY <2>1, <2>3
  <2> QED BY <2>1, <2>2, <2>3, <2>4
<1> QED BY <1>2, <1>3

\* Place is the only place of the key, or 0.
LEMMA PlaceIsPlace ==
  ASSUME db \in Databases, NEW s \in Streams, NEW r
  PROVE  /\ Place(s, r) \in 0..Len(FullList(s))
         /\ Place(s, r) # 0 => FullList(s)[Place(s, r)] = KeyOf(s, r)
         /\ \A i \in 1..Len(FullList(s)) : FullList(s)[i] = KeyOf(s, r) => Place(s, r) = i
<1> PICK list : list = FullList(s)
  OBVIOUS
<1> DEFINE hits == {i \in 1..Len(list) : list[i] = KeyOf(s, r)}
<1>1. Place(s, r) = IF hits = {} THEN 0 ELSE First(hits)
  <2>1. CASE s = "indexColumns"
    <3>1. Len(list) = Len(db.rows["indexes"])
      BY <2>1, CatalogLists DEF FullList, Streams
    <3>2. hits = {i \in 1..Len(db.rows["indexes"]) : /\ db.rows["indexes"][i].table = r.table
                                                     /\ db.rows["indexes"][i].name = r.index}
      BY <2>1, <3>1 DEF FullList, KeyOf, IndexKey
    <3> HIDE DEF hits
    <3> QED BY <2>1, <3>2 DEF Place
  <2>2. CASE s # "indexColumns"
    <3>1. Len(list) = Len(db.collections)
      BY <2>2, CatalogLists DEF FullList
    <3>2. hits = {i \in 1..Len(db.collections) : db.collections[i].table = r.table}
      BY <2>2, <3>1 DEF FullList, KeyOf
    <3> HIDE DEF hits
    <3> QED BY <2>2, <3>2 DEF Place
  <2> QED BY <2>1, <2>2
<1>2. /\ Len(list) \in Nat
      /\ \A i, j \in 1..Len(list) : list[i] = list[j] => i = j
  BY NamedOnce
<1>3. hits \subseteq Nat
  OBVIOUS
<1>4. CASE hits = {}
  BY <1>1, <1>2, <1>4
<1>5. CASE hits # {}
  <2>1. Place(s, r) \in hits
    BY <1>1, <1>3, <1>5, FirstIsLeast
  <2> QED BY <1>2, <2>1
<1> QED BY <1>4, <1>5

\* The same of a catalog d, whichever it is.
PlaceIn(d, s, r) ==
  LET hits == IF s = "indexColumns"
              THEN {i \in 1..Len(d.rows["indexes"]) :
                      /\ d.rows["indexes"][i].table = r.table
                      /\ d.rows["indexes"][i].name = r.index}
              ELSE {i \in 1..Len(d.collections) : d.collections[i].table = r.table}
  IN  IF hits = {} THEN 0 ELSE First(hits)

InOrder(d, s) ==
  \A i \in 1..Len(d.rows[s]) :
    /\ PlaceIn(d, s, d.rows[s][i]) > 0
    /\ i > 1 => PlaceIn(d, s, d.rows[s][i - 1]) <= PlaceIn(d, s, d.rows[s][i])

LEMMA PlacesOfDb ==
  ASSUME NEW s
  PROVE  (\A r : Place(s, r) = PlaceIn(db, s, r)) /\ (InListOrder(s) <=> InOrder(db, s))
<1>1. \A r : Place(s, r) = PlaceIn(db, s, r)
  BY DEF Place, PlaceIn
<1> QED BY <1>1 DEF InListOrder, InOrder

\* While a stream is read, what SequentialFind looks through is all there is.
LEMMA AllIsListed ==
  ASSUME db \in Databases, NEW s \in Streams, read = Len(db.collections),
         s = "indexColumns" => stream["indexes"].pos = Len(db.rows["indexes"])
  PROVE  FindKeys(s) = FullList(s) /\ RowKey(s) = KeyOf(s, Row(s))
BY DEF FindKeys, FullList, Tables, RowKey, KeyOf

-----------------------------------------------------------------------------
\* Rows attached to a table

\* Another row of a table comes after the others, and they keep their ranks.
LEMMA NextRank ==
  ASSUME NEW n \in Nat, NEW S, S \subseteq 1..n
  PROVE  /\ Cardinality(S \cup {n + 1}) = Cardinality(S) + 1 /\ Cardinality(S) \in Nat
         /\ Rank(n + 1, S \cup {n + 1}) = Cardinality(S) + 1
         /\ \A i \in S : Rank(i, S \cup {n + 1}) = Rank(i, S) /\ Rank(i, S) \in 1..Cardinality(S)
<1>1. IsFiniteSet(S)
  <2>1. IsFiniteSet(1..n)
    BY FS_Interval
  <2> QED BY <2>1, FS_Subset
<1>2. n + 1 \notin S
  OBVIOUS
<1>3. Cardinality(S \cup {n + 1}) = Cardinality(S) + 1
  BY <1>1, <1>2, FS_AddElement
<1>4. Cardinality(S) \in Nat
  BY <1>1, FS_CardinalityType
<1>5. {j \in S \cup {n + 1} : j <= n + 1} = S \cup {n + 1}
  <2>1. \A j \in S \cup {n + 1} : j <= n + 1
    OBVIOUS
  <2> QED BY <2>1
<1>6. ASSUME NEW i \in S
      PROVE  Rank(i, S \cup {n + 1}) = Rank(i, S) /\ Rank(i, S) \in 1..Cardinality(S)
  <2> DEFINE below == {j \in S : j <= i}
  <2>1. {j \in S \cup {n + 1} : j <= i} = below
    OBVIOUS
  <2>2. below \subseteq S /\ i \in below
    OBVIOUS
  <2> HIDE DEF below
  <2>3. IsFiniteSet(below) /\ Cardinality(below) <= Cardinality(S)
    BY <1>1, <2>2, FS_Subset
  <2>4. Cardinality(below) \in Nat /\ Cardinality(below) # 0
    BY <2>2, <2>3, FS_CardinalityType, FS_EmptySet
  <2>5. Cardinality(below) \in 1..Cardinality(S)
    BY <1>4, <2>3, <2>4
  <2> QED BY <2>1, <2>5 DEF Rank, below
<1> QED BY <1>3, <1>4, <1>5, <1>6 DEF Rank

\* The rows of one table, before and after the next row of the stream.
LandsIn(rows, n, t, list) ==
  LET S == {i \in 1..n : rows[i].table = t}
  IN  /\ Len(list) = Cardinality(S)
      /\ \A i \in S : list[Rank(i, S)] = rows[i]

LEMMA NothingLanded ==
  ASSUME NEW rows, NEW t
  PROVE  LandsIn(rows, 0, t, <<>>)
<1>1. {i \in 1..0 : rows[i].table = t} = {}
  OBVIOUS
<1> QED BY <1>1, FS_EmptySet DEF LandsIn

WithRow(list, row, t) == IF t = row.table THEN Append(list, row) ELSE list

LEMMA NextRowLands ==
  ASSUME NEW X, NEW rows, NEW n \in Nat, NEW row \in X, row = rows[n + 1], NEW t,
         NEW list \in Seq(X), LandsIn(rows, n, t, list), NEW new, new = WithRow(list, row, t)
  PROVE  LandsIn(rows, n + 1, t, new)
<1> USE DEF WithRow
<1> DEFINE S == {i \in 1..n : rows[i].table = t}
           next == {i \in 1..n + 1 : rows[i].table = t}
<1>1. S \subseteq 1..n /\ \A i \in S : i \in 1..n /\ rows[i].table = t
  OBVIOUS
<1>2. Len(list) = Cardinality(S) /\ \A i \in S : list[Rank(i, S)] = rows[i]
  BY DEF LandsIn
<1>3. CASE rows[n + 1].table = t
  <2>1. next = S \cup {n + 1}
    BY <1>3
  <2> HIDE DEF S, next
  <2>2. Cardinality(S \cup {n + 1}) = Cardinality(S) + 1 /\ Cardinality(S) \in Nat
    BY <1>1, NextRank
  <2>3. Rank(n + 1, S \cup {n + 1}) = Cardinality(S) + 1
    BY <1>1, NextRank
  <2>4. \A i \in S : Rank(i, S \cup {n + 1}) = Rank(i, S) /\ Rank(i, S) \in 1..Cardinality(S)
    BY <1>1, NextRank
  <2>5. /\ new \in Seq(X) /\ Len(new) = Len(list) + 1
        /\ new[Len(list) + 1] = rows[n + 1] /\ \A i \in 1..Len(list) : new[i] = list[i]
    BY <1>3, AppendFacts
  <2>6. ASSUME NEW i \in next PROVE new[Rank(i, next)] = rows[i]
    <3>1. CASE i = n + 1
      BY <1>2, <2>1, <2>3, <2>5, <3>1
    <3>2. CASE i \in S
      <4>1. Rank(i, next) = Rank(i, S) /\ Rank(i, S) \in 1..Len(list)
        BY <1>2, <2>1, <2>4, <3>2
      <4> QED BY <1>2, <2>5, <3>2, <4>1
    <3> QED BY <2>1, <3>1, <3>2
  <2>7. Len(new) = Cardinality(next)
    BY <1>2, <2>1, <2>2, <2>5
  <2> QED BY <2>5, <2>6, <2>7 DEF LandsIn, next
<1>4. CASE rows[n + 1].table # t
  <2>1. next = S
    BY <1>4
  <2> QED BY <1>4, <2>1 DEF LandsIn
<1> QED BY <1>3, <1>4

-----------------------------------------------------------------------------
\* The invariant of the bulk scan

Elements(s) == {s[i] : i \in DOMAIN s}
AllRows(d) == UNION {Elements(d.rows[s]) : s \in Streams}
ConstraintRows(d) == Elements(d.rows["constraints"])
Names(d) == UNION {{r.name, r.column} : r \in ConstraintRows(d)}
Keyed(d) == UNION {{r.table, r.ref} : r \in ConstraintRows(d)}

\* More than TypeOK says: what is attached and what the keys are made of comes from the rows.
Typed ==
  /\ db \in Databases
  /\ attached \in [Streams -> [Collections -> Seq(AllRows(db))]]
  /\ keys \in [Collections -> Keys(Names(db), Keyed(db))]

StreamRecord == [state : {"idle", "reading", "end", "provider", "deadline", "unknown", "no reference"},
                 pos : Nat, cursor : Nat \ {0}]

\* The streams start when all collections are known, that of the index columns when the
\* index rows are over, and the keys are empty until there are constraint rows.
Phases ==
  /\ phase = "collections" => \A s \in Streams : stream[s].state = "idle"
  /\ \A s \in Streams :
       /\ stream[s].state = "idle" => stream[s].pos = 0 /\ stream[s].cursor = 1
       /\ stream[s].state = "end" => stream[s].pos = Len(db.rows[s])
       /\ stream[s].state # "idle" => read = Len(db.collections)
  /\ stream["indexColumns"].state # "idle" => stream["indexes"].state = "end"
  /\ stream["constraints"].state = "idle" => keys = [t \in Collections |-> EmptyKeys]

\* The rows read so far came in the order of the collections, and the cursor is where the
\* last of them was found.
Follows(d, s, st) ==
  /\ \A i \in 1..st.pos :
       /\ PlaceIn(d, s, d.rows[s][i]) > 0
       /\ i > 1 => PlaceIn(d, s, d.rows[s][i - 1]) <= PlaceIn(d, s, d.rows[s][i])
  /\ st.state = "reading" => st.cursor = IF st.pos = 0 THEN 1 ELSE PlaceIn(d, s, d.rows[s][st.pos])
  /\ st.state = "unknown" => ~InOrder(d, s)

Landed == \A s \in Streams : \A t \in Collections : LandsIn(db.rows[s], stream[s].pos, t, attached[s][t])

IInv ==
  /\ Typed /\ Phases
  /\ \A s \in Streams : Follows(db, s, stream[s])
  /\ Landed
  /\ Agree(keys, Tables)

LEMMA TypeInit == Init => TypeOK
<1> SUFFICES ASSUME Init PROVE TypeOK
  OBVIOUS
<1>1. db \in Databases
  BY DEF Init
<1>2. Len(db.collections) \in Nat /\ \A s \in Streams : Len(db.rows[s]) \in Nat
  BY <1>1, CatalogLists
<1>3. stream \in [Streams -> [state : {"idle", "reading", "end", "provider", "deadline",
                                      "unknown", "no reference"},
                             pos : Nat, cursor : Nat \ {0}]]
  BY DEF Init
<1>4. \A s \in Streams : stream[s].pos <= Len(db.rows[s])
  BY <1>2 DEF Init
<1>5. DOMAIN attached = Streams /\ \A s \in Streams : DOMAIN attached[s] = Collections
  BY DEF Init
<1>6. DOMAIN schemas \subseteq {t[1] : t \in Collections} /\ read \in 0..Len(db.collections)
  BY <1>2 DEF Init
<1> QED BY <1>3, <1>4, <1>5, <1>6 DEF Init, TypeOK

LEMMA InvInit == Init => IInv
<1> SUFFICES ASSUME Init PROVE IInv
  OBVIOUS
<1> USE DEF Init
<1>0. /\ \A s \in Streams : stream[s].state = "idle" /\ stream[s].pos = 0 /\ stream[s].cursor = 1
      /\ \A s \in Streams : \A t \in Collections : attached[s][t] = <<>>
      /\ \A t \in Collections : keys[t] = EmptyKeys
      /\ DOMAIN keys = Collections
  OBVIOUS
<1>1. Typed
  <2>1. EmptyKeys \in Keys(Names(db), Keyed(db))
    BY DEF EmptyKeys, Keys
  <2> QED BY <2>1 DEF Typed
<1>2. Phases
  BY <1>0 DEF Phases, Streams
<1>3. ASSUME NEW s \in Streams PROVE Follows(db, s, stream[s])
  BY <1>0 DEF Follows
<1>4. Landed
  BY <1>0, NothingLanded DEF Landed
<1>5. Agree(keys, Tables)
  <2>1. \A t \in Collections : keys[t].foreign = <<>> /\ keys[t].referencedBy = <<>>
    BY <1>0 DEF EmptyKeys
  <2> QED BY <1>0, <2>1 DEF Agree, KnownOnce, HasKey
<1> QED BY <1>1, <1>2, <1>3, <1>4, <1>5 DEF IInv

LEMMA EmptyKeysAgree ==
  ASSUME NEW C, NEW ks, ks = [t \in C |-> EmptyKeys], NEW tables
  PROVE  Agree(ks, tables)
<1>1. DOMAIN ks = C /\ \A t \in C : ks[t].foreign = <<>> /\ ks[t].referencedBy = <<>>
  BY DEF EmptyKeys
<1> QED BY <1>1 DEF Agree, KnownOnce, HasKey

\* Steps of the record counters, of the workers' results, of the deadline and of the ends.
LEMMA QuietStep ==
  ASSUME IInv, UNCHANGED <<db, read, scanVars>>, phase' = phase \/ phase' # "collections"
  PROVE  IInv'
<1>0. UNCHANGED <<db, read, stream, attached, keys>> /\ Collections' = Collections
  BY DEF scanVars, Collections
<1>1. Typed'
  BY <1>0 DEF IInv, Typed
<1>2. Phases'
  BY <1>0 DEF IInv, Phases
<1>3. Landed'
  BY <1>0 DEF IInv, Landed
<1>4. Agree(keys, Tables)'
  BY <1>0 DEF IInv, Tables
<1>5. (\A s \in Streams : Follows(db, s, stream[s]))'
  BY <1>0 DEF IInv
<1> QED BY <1>1, <1>2, <1>3, <1>4, <1>5 DEF IInv

LEMMA ReadCollectionKeeps ==
  ASSUME TypeOK, IInv, ReadCollection
  PROVE  TypeOK' /\ IInv'
<1>0. /\ phase = "collections" /\ read < Len(db.collections) /\ read' = read + 1
      /\ phase' \in {phase, "returned"} /\ UNCHANGED <<db, late, scanVars, count, err, worker>>
      /\ result' \in {result, "failure"}
  BY DEF ReadCollection, Fail
<1>1. Collections' = Collections /\ UNCHANGED <<stream, attached, keys>>
  BY <1>0 DEF Collections, scanVars
<1>2. \A s \in Streams : stream[s].state = "idle"
  BY <1>0 DEF IInv, Phases
<1>a. db \in Databases /\ read \in 0..Len(db.collections)
  BY DEF TypeOK, IInv, Typed
<1>b. Len(db.collections) \in Nat
  BY <1>a, CatalogLists
<1>3. db.collections[read + 1].table \in Collections
  <2>1. read + 1 \in 1..Len(db.collections)
    BY <1>0, <1>a, <1>b
  <2> QED BY <2>1 DEF Collections
<1>4. DOMAIN schemas' = DOMAIN schemas \cup {db.collections[read + 1].table[1]}
  BY DEF ReadCollection, ListedIn
<1>5. TypeOK'
  <2>1. read' \in 0..Len(db.collections)
    BY <1>0, <1>a, <1>b
  <2>2. DOMAIN schemas' \subseteq {t[1] : t \in Collections}
    BY <1>3, <1>4 DEF TypeOK
  <2> QED BY <1>0, <1>1, <2>1, <2>2 DEF TypeOK
<1>6. Typed'
  BY <1>0, <1>1 DEF IInv, Typed
<1>7. Phases'
  BY <1>0, <1>1, <1>2 DEF IInv, Phases
<1>8. Landed'
  BY <1>0, <1>1 DEF IInv, Landed
<1>9. (\A s \in Streams : Follows(db, s, stream[s]))'
  BY <1>0, <1>1 DEF IInv
<1>10. Agree(keys, Tables)'
  <2>1. keys' = [t \in Collections |-> EmptyKeys]
    BY <1>1, <1>2 DEF IInv, Phases, Streams
  <2> QED BY <2>1, EmptyKeysAgree
<1> QED BY <1>5, <1>6, <1>7, <1>8, <1>9, <1>10 DEF IInv

LEMMA StartWorkersKeeps ==
  ASSUME TypeOK, IInv, StartWorkers
  PROVE  TypeOK' /\ IInv'
<1>0. /\ phase = "collections" /\ read = Len(db.collections) /\ phase' = "workers"
      /\ worker' = [w \in Workers |-> "scanning"]
      /\ UNCHANGED <<db, read, schemas, late, attached, keys, count, err, result>>
  BY DEF StartWorkers, catalogVars
<1>1. Collections' = Collections
  BY <1>0 DEF Collections
<1>2. \A s \in Streams : stream[s].state = "idle" /\ stream[s].pos = 0 /\ stream[s].cursor = 1
  BY <1>0 DEF IInv, Phases
<1>3. /\ stream' \in [Streams -> StreamRecord]
      /\ \A s \in Streams : /\ stream'[s].pos = 0 /\ stream'[s].cursor = 1
                            /\ stream'[s].state \in {"idle", "reading"}
      /\ stream'["indexColumns"].state = "idle"
  <2>1. stream \in [Streams -> StreamRecord]
    BY DEF TypeOK, StreamRecord
  <2>2. stream' = [s \in Streams |-> IF s \in Workers THEN [stream[s] EXCEPT !.state = "reading"] ELSE stream[s]]
    BY DEF StartWorkers
  <2>3. ASSUME NEW s \in Streams
        PROVE  /\ stream'[s] \in StreamRecord /\ stream'[s].pos = 0 /\ stream'[s].cursor = 1
               /\ stream'[s].state = IF s \in Workers THEN "reading" ELSE "idle"
    <3>1. stream[s] \in StreamRecord
      BY <2>1
    <3>2. CASE s \in Workers
      BY <1>2, <2>2, <3>1, <3>2 DEF StreamRecord
    <3>3. CASE s \notin Workers
      BY <1>2, <2>2, <3>1, <3>3
    <3> QED BY <3>2, <3>3
  <2>4. stream' \in [Streams -> StreamRecord]
    BY <2>2, <2>3
  <2> QED BY <2>3, <2>4 DEF Workers, Streams
<1>4. \A s \in Streams : stream'[s].pos = stream[s].pos
  BY <1>2, <1>3
<1>5. TypeOK'
  BY <1>0, <1>1, <1>3, <1>4 DEF TypeOK, StreamRecord
<1>6. Typed'
  BY <1>0, <1>1 DEF IInv, Typed
<1>7. Phases'
  <2>1. keys' = [t \in Collections |-> EmptyKeys]
    BY <1>0, <1>2 DEF IInv, Phases, Streams
  <2> QED BY <1>0, <1>1, <1>3, <2>1 DEF Phases
<1>8. Landed'
  BY <1>0, <1>1, <1>4 DEF IInv, Landed
<1>9. ASSUME NEW s \in Streams PROVE Follows(db', s, stream'[s])
  <2>1. stream'[s].pos = 0 /\ stream'[s].cursor = 1 /\ stream'[s].state \in {"idle", "reading"}
    BY <1>3
  <2> QED BY <2>1 DEF Follows
<1>10. Agree(keys, Tables)'
  BY <1>0 DEF IInv, Tables
<1> QED BY <1>5, <1>6, <1>7, <1>8, <1>9, <1>10 DEF IInv

\* A stream that stops, or goes on to the next, without a row.
StopsOrStarts(s, old, new) ==
  /\ new.pos = old.pos
  /\ \/ new = old
     \/ new.state = "reading" /\ old.state = "idle" /\ new.cursor = old.cursor
     \/ /\ old.state = "reading" /\ new.state \notin {"idle", "reading"}
        /\ new.state = "end" => old.pos = Len(db.rows[s])
        /\ new.state = "unknown" => ~InOrder(db, s)

LEMMA NoRowKeeps ==
  ASSUME TypeOK, IInv,
         UNCHANGED <<db, phase, read, schemas, late, attached, keys, count, err, worker, result>>,
         stream' \in [Streams -> StreamRecord],
         \A s \in Streams : StopsOrStarts(s, stream[s], stream'[s]),
         \E s \in Streams : stream[s].state = "reading",
         stream'["indexColumns"].state # "idle" => stream'["indexes"].state = "end"
  PROVE  TypeOK' /\ IInv'
<1>0. \A s \in Streams : StopsOrStarts(s, stream[s], stream'[s])
  OBVIOUS
<1>1. Collections' = Collections
  BY DEF Collections
<1>a. read = Len(db.collections) /\ phase # "collections"
  BY DEF IInv, Phases
<1>b. \A s \in Streams : stream'[s].pos = stream[s].pos
  BY <1>0 DEF StopsOrStarts
<1>2. TypeOK'
  BY <1>1, <1>b DEF TypeOK, StreamRecord
<1>3. Typed'
  BY <1>1 DEF IInv, Typed
<1>4. Phases'
  <2>1. ASSUME NEW s \in Streams
        PROVE  /\ stream'[s].state = "idle" => stream'[s].pos = 0 /\ stream'[s].cursor = 1
               /\ stream'[s].state = "end" => stream'[s].pos = Len(db.rows[s])
    BY <1>0 DEF IInv, Phases, StopsOrStarts
  <2>2. stream'["constraints"].state = "idle" => stream["constraints"].state = "idle"
    BY <1>0 DEF Streams, StopsOrStarts
  <2> QED BY <1>1, <1>a, <2>1, <2>2 DEF IInv, Phases
<1>5. Landed'
  BY <1>1, <1>b DEF IInv, Landed
<1>6. ASSUME NEW s \in Streams PROVE Follows(db', s, stream'[s])
  <2>1. Follows(db, s, stream[s]) /\ StopsOrStarts(s, stream[s], stream'[s])
    BY DEF IInv
  <2>2. stream[s].state = "idle" => stream[s].pos = 0 /\ stream[s].cursor = 1
    BY DEF IInv, Phases
  <2> QED BY <2>1, <2>2 DEF Follows, StopsOrStarts
<1>7. Agree(keys, Tables)'
  BY DEF IInv, Tables
<1> QED BY <1>2, <1>3, <1>4, <1>5, <1>6, <1>7 DEF IInv

LEMMA ReaderFailsKeeps ==
  ASSUME TypeOK, IInv, NEW s \in Streams, ReaderFails(s)
  PROVE  TypeOK' /\ IInv'
<1>1. /\ stream[s].state = "reading"
      /\ UNCHANGED <<db, phase, read, schemas, late, attached, keys, count, err, worker, result>>
  BY DEF ReaderFails, catalogVars
<1>2. PICK state \in {"provider", "deadline"} : stream' = [stream EXCEPT ![s].state = state]
  BY DEF ReaderFails
<1>3. stream \in [Streams -> StreamRecord]
  BY DEF TypeOK, StreamRecord
<1>4. stream' \in [Streams -> StreamRecord]
  BY <1>2, <1>3 DEF StreamRecord
<1>5. stream'[s].pos = stream[s].pos /\ stream'[s].state = state /\ \A x \in Streams : x # s => stream'[x] = stream[x]
  BY <1>2, <1>3 DEF StreamRecord
<1>6. \A x \in Streams : StopsOrStarts(x, stream[x], stream'[x])
  BY <1>1, <1>5 DEF StopsOrStarts
<1>7. stream'["indexColumns"].state # "idle" => stream'["indexes"].state = "end"
  BY <1>1, <1>5 DEF IInv, Phases, Streams
<1>8. \E x \in Streams : stream[x].state = "reading"
  BY <1>1
<1> QED BY <1>1, <1>4, <1>6, <1>7, <1>8, NoRowKeeps

LEMMA EndOfRowsKeeps ==
  ASSUME TypeOK, IInv, NEW s \in Streams, EndOfRows(s)
  PROVE  TypeOK' /\ IInv'
<1>1. /\ stream[s].state = "reading" /\ stream[s].pos = Len(db.rows[s])
      /\ UNCHANGED <<db, phase, read, schemas, late, attached, keys, count, err, worker, result>>
  BY DEF EndOfRows, catalogVars
<1>2. stream \in [Streams -> StreamRecord]
  BY DEF TypeOK, StreamRecord
<1>3. stream' = [x \in Streams |->
       CASE x = s -> [stream[s] EXCEPT !.state = "end"]
         [] s = "indexes" /\ x = "indexColumns" -> [stream[x] EXCEPT !.state = "reading"]
         [] OTHER -> stream[x]]
  BY DEF EndOfRows
<1>4. ASSUME NEW x \in Streams
      PROVE  /\ stream'[x] \in StreamRecord /\ stream'[x].pos = stream[x].pos
             /\ stream'[x].cursor = stream[x].cursor
             /\ IF x = s THEN stream'[x].state = "end"
                ELSE IF s = "indexes" /\ x = "indexColumns" THEN stream'[x].state = "reading"
                ELSE stream'[x] = stream[x]
  <2>0. stream[x] \in StreamRecord
    BY <1>2
  <2>1. CASE x = s
    <3>1. stream'[x] = [stream[x] EXCEPT !.state = "end"]
      BY <1>3, <2>1
    <3> QED BY <2>0, <2>1, <3>1 DEF StreamRecord
  <2>2. CASE x # s /\ s = "indexes" /\ x = "indexColumns"
    <3>1. stream'[x] = [stream[x] EXCEPT !.state = "reading"]
      BY <1>3, <2>2
    <3> QED BY <2>0, <2>2, <3>1 DEF StreamRecord
  <2>3. CASE x # s /\ ~(s = "indexes" /\ x = "indexColumns")
    <3>1. stream'[x] = stream[x]
      BY <1>3, <2>3
    <3> QED BY <2>0, <2>3, <3>1
  <2> QED BY <2>1, <2>2, <2>3
<1>5. stream' \in [Streams -> StreamRecord]
  BY <1>3, <1>4
<1>6. s = "indexes" => stream["indexColumns"].state = "idle"
  BY <1>1 DEF IInv, Phases
<1>7. \A x \in Streams : StopsOrStarts(x, stream[x], stream'[x])
  BY <1>1, <1>4, <1>6 DEF StopsOrStarts
<1>8. stream'["indexColumns"].state # "idle" => stream'["indexes"].state = "end"
  <2>1. {"indexes", "indexColumns"} \subseteq Streams
    BY DEF Streams
  <2>2. stream["indexColumns"].state # "idle" => stream["indexes"].state = "end"
    BY DEF IInv, Phases
  <2>3. CASE s = "indexes"
    BY <1>4, <2>1, <2>3
  <2>4. CASE s # "indexes"
    <3>1. stream'["indexes"] = stream["indexes"]
      BY <1>4, <2>1, <2>4
    <3>2. CASE s = "indexColumns"
      BY <1>1, <2>2, <3>1, <3>2
    <3>3. CASE s # "indexColumns"
      BY <1>4, <2>1, <2>2, <2>4, <3>1, <3>3
    <3> QED BY <3>2, <3>3
  <2> QED BY <2>3, <2>4
<1>9. \E x \in Streams : stream[x].state = "reading"
  BY <1>1
<1> QED BY <1>1, <1>5, <1>7, <1>8, <1>9, NoRowKeeps

\* What a row's look-up finds while its stream is read.
LEMMA Found ==
  ASSUME TypeOK, IInv, NEW s \in Streams, stream[s].state = "reading", stream[s].pos < Len(db.rows[s]),
         NEW i, i = SequentialFind(FindKeys(s), stream[s].cursor, RowKey(s))
  PROVE  /\ read = Len(db.collections) /\ FindKeys(s) = FullList(s) /\ Len(FullList(s)) \in Nat
         /\ stream[s].pos + 1 \in 1..Len(db.rows[s]) /\ stream[s].pos \in Nat
         /\ \/ /\ i \in stream[s].cursor..Len(FullList(s)) /\ i \in Nat \ {0}
               /\ FullList(s)[i] = KeyOf(s, Row(s)) /\ PlaceIn(db, s, Row(s)) = i
               /\ stream[s].pos > 0 => PlaceIn(db, s, db.rows[s][stream[s].pos]) <= i
            \/ i = Len(FullList(s)) + 1 /\ ~InOrder(db, s)
<1> PICK c : c = stream[s].cursor
  OBVIOUS
<1> PICK p : p = stream[s].pos
  OBVIOUS
<1>1. db \in Databases /\ c \in Nat \ {0} /\ p \in Nat
  BY DEF IInv, Typed, TypeOK
<1>2. Len(db.rows[s]) \in Nat
  BY <1>1, CatalogLists
<1>3. read = Len(db.collections) /\ (s = "indexColumns" => stream["indexes"].pos = Len(db.rows["indexes"]))
  BY DEF IInv, Phases, Streams
<1>4. FindKeys(s) = FullList(s) /\ RowKey(s) = KeyOf(s, Row(s))
  BY <1>1, <1>3, AllIsListed
<1>5. Len(FullList(s)) \in Nat
  BY <1>1, NamedOnce
<1>6. p + 1 \in 1..Len(db.rows[s]) /\ Row(s) = db.rows[s][p + 1]
  BY <1>1, <1>2 DEF Row
<1>7. c = IF p = 0 THEN 1 ELSE PlaceIn(db, s, db.rows[s][p])
  BY DEF IInv, Follows
<1>8. \/ i \in c..Len(FullList(s)) /\ FullList(s)[i] = KeyOf(s, Row(s))
      \/ i = Len(FullList(s)) + 1 /\ \A j \in c..Len(FullList(s)) : FullList(s)[j] # KeyOf(s, Row(s))
  BY <1>1, <1>4, <1>5, FindsNext
<1>9. CASE i \in c..Len(FullList(s)) /\ FullList(s)[i] = KeyOf(s, Row(s))
  <2>1. i \in 1..Len(FullList(s)) /\ c <= i /\ i \in Nat \ {0}
    BY <1>1, <1>5, <1>9
  <2>2. PlaceIn(db, s, Row(s)) = i
    BY <1>1, <1>9, <2>1, PlaceIsPlace, PlacesOfDb
  <2>3. stream[s].pos > 0 => PlaceIn(db, s, db.rows[s][stream[s].pos]) <= i
    <3>1. p > 0 => c = PlaceIn(db, s, db.rows[s][p])
      BY <1>1, <1>7
    <3> QED BY <2>1, <3>1
  <2> QED BY <1>1, <1>3, <1>4, <1>5, <1>6, <1>9, <2>1, <2>2, <2>3
<1>10. CASE i = Len(FullList(s)) + 1 /\ \A j \in c..Len(FullList(s)) : FullList(s)[j] # KeyOf(s, Row(s))
  <2> PICK q : q = PlaceIn(db, s, Row(s))
    OBVIOUS
  <2>1. q \in 0..Len(FullList(s)) /\ (q # 0 => FullList(s)[q] = KeyOf(s, Row(s)))
    BY <1>1, PlaceIsPlace, PlacesOfDb
  <2>2. ASSUME InOrder(db, s) PROVE FALSE
    <3>1. q > 0 /\ (p > 0 => PlaceIn(db, s, db.rows[s][p]) <= q)
      <4>1. \A j \in 1..Len(db.rows[s]) :
              /\ PlaceIn(db, s, db.rows[s][j]) > 0
              /\ j > 1 => PlaceIn(db, s, db.rows[s][j - 1]) <= PlaceIn(db, s, db.rows[s][j])
        BY <2>2 DEF InOrder
      <4>2. q = PlaceIn(db, s, db.rows[s][p + 1])
        BY <1>6
      <4> PICK n : n = p + 1
        OBVIOUS
      <4>3. n \in 1..Len(db.rows[s])
        BY <1>6
      <4>4. PlaceIn(db, s, db.rows[s][n]) > 0 /\ (n > 1 => PlaceIn(db, s, db.rows[s][n - 1]) <= PlaceIn(db, s, db.rows[s][n]))
        BY ONLY <4>1, <4>3
      <4>5. n - 1 = p /\ (p > 0 => n > 1)
        BY <1>1
      <4>6. q = PlaceIn(db, s, db.rows[s][n])
        BY <4>2
      <4> QED BY <4>4, <4>5, <4>6
    <3>3. q < c
      BY <1>1, <1>5, <1>10, <2>1, <3>1
    <3>4. p # 0
      BY <1>7, <2>1, <3>1, <3>3
    <3> QED BY <1>1, <1>7, <2>1, <3>1, <3>3, <3>4
  <2> QED BY <1>1, <1>3, <1>4, <1>5, <1>6, <1>10, <2>2
<1> QED BY <1>8, <1>9, <1>10

\* A row of a constraint that has found its table.
LEMMA ConstraintRowKeeps ==
  ASSUME TypeOK, IInv, stream["constraints"].pos + 1 \in 1..Len(db.rows["constraints"]),
         read = Len(db.collections), NEW i \in 1..Len(db.collections), Tables[i] = Row("constraints").table,
         NEW done, done = ProcessConstraint(keys, Tables, Tables[i], Row("constraints"))
  PROVE  done.keys \in [Collections -> Keys(Names(db), Keyed(db))] /\ Agree(done.keys, Tables)
<1> PICK row : row = Row("constraints")
  OBVIOUS
<1> PICK t : t = Tables[i]
  OBVIOUS
<1>1. db \in Databases /\ keys \in [Collections -> Keys(Names(db), Keyed(db))] /\ Agree(keys, Tables)
  BY DEF IInv, Typed
<1>2. Len(db.collections) \in Nat /\ DOMAIN db.rows["constraints"] = 1..Len(db.rows["constraints"])
  BY <1>1, CatalogLists DEF Streams
<1>3. Len(Tables) = Len(db.collections) /\ \A j \in 1..Len(Tables) : Tables[j] \in Collections
  BY <1>2 DEF Tables, Collections
<1>4. row \in ConstraintRows(db)
  BY <1>2 DEF Row, ConstraintRows, Elements
<1>5. row.table = t /\ row.name \in Names(db) /\ row.column \in Names(db) /\ row.ref \in Keyed(db) /\ t \in Keyed(db)
  BY <1>4 DEF Names, Keyed
<1>6. t \in Collections /\ ConstraintOf(row, t, Names(db), Keyed(db))
  BY <1>3, <1>5 DEF ConstraintOf
<1>7. done = ProcessConstraint(keys, Tables, t, row)
  OBVIOUS
<1>8. done.keys \in [Collections -> Keys(Names(db), Keyed(db))]
  BY <1>1, <1>2, <1>3, <1>5, <1>6, <1>7, ConstraintKeeps, SMTT(30)
<1>9. Agree(done.keys, Tables)
  BY <1>1, <1>2, <1>3, <1>5, <1>6, <1>7, ConstraintKeeps, SMTT(30)
<1> QED BY <1>8, <1>9

AttachTo(f, a, t, x) == [f EXCEPT ![a][t] = Append(@, x)]

OnlyAttached(A, B, f, a, t, x, g) ==
  /\ \A b \in A : b # a => g[b] = f[b]
  /\ \A u \in B : g[a][u] = IF u = t THEN Append(f[a][u], x) ELSE f[a][u]

LEMMA AttachFacts ==
  ASSUME NEW A, NEW B, NEW X, NEW f \in [A -> [B -> Seq(X)]], NEW a \in A, NEW t, NEW x \in X,
         NEW g, g = AttachTo(f, a, t, x)
  PROVE  g \in [A -> [B -> Seq(X)]] /\ OnlyAttached(A, B, f, a, t, x, g)
<1> USE DEF OnlyAttached
<1> PICK h : h = [f[a] EXCEPT ![t] = Append(f[a][t], x)]
  OBVIOUS
<1>1. g = [f EXCEPT ![a] = h]
  BY DEF AttachTo
<1>2. f[a] \in [B -> Seq(X)]
  OBVIOUS
<1>3. ASSUME NEW u \in B PROVE h[u] = (IF u = t THEN Append(f[a][u], x) ELSE f[a][u]) /\ h[u] \in Seq(X)
  <2>1. f[a][u] \in Seq(X)
    BY <1>2
  <2>2. CASE u = t
    BY <1>2, <2>1, <2>2
  <2>3. CASE u # t
    BY <1>2, <2>1, <2>3
  <2> QED BY <2>2, <2>3
<1>4. h \in [B -> Seq(X)]
  BY <1>2, <1>3
<1>5. g[a] = h /\ g \in [A -> [B -> Seq(X)]] /\ \A b \in A : b # a => g[b] = f[b]
  BY <1>1, <1>4
<1> QED BY <1>3, <1>5

\* What a row does when its table is known: to the keys,
LEMMA ReadRowKeys ==
  ASSUME TypeOK, IInv, NEW s \in Streams, stream[s].state = "reading", stream[s].pos < Len(db.rows[s]),
         NEW i, i = SequentialFind(FindKeys(s), stream[s].cursor, RowKey(s)), i <= Len(FindKeys(s)),
         NEW done, done = IF s = "constraints" /\ i <= Len(FindKeys(s))
                          THEN ProcessConstraint(keys, Tables, Tables[i], Row(s))
                          ELSE [ok |-> TRUE, keys |-> keys]
  PROVE  /\ done.keys \in [Collections -> Keys(Names(db), Keyed(db))] /\ Agree(done.keys, Tables)
         /\ s # "constraints" => done.ok /\ done.keys = keys
<1>1. CASE s = "constraints"
  <2>1. /\ read = Len(db.collections) /\ FindKeys(s) = FullList(s) /\ Len(FullList(s)) \in Nat
        /\ stream[s].pos + 1 \in 1..Len(db.rows[s])
    BY Found
  <2>2. i \in stream[s].cursor..Len(FullList(s)) /\ i \in Nat \ {0} /\ FullList(s)[i] = KeyOf(s, Row(s))
    <3>1. i # Len(FullList(s)) + 1
      BY <2>1
    <3> QED BY <3>1, Found
  <2>3. FullList(s) = Tables
    BY <1>1, <2>1 DEF FullList, Tables
  <2>4. Len(Tables) = Len(db.collections)
    <3>1. db \in Databases
      BY DEF IInv, Typed
    <3>2. Len(db.collections) \in Nat
      BY <3>1, CatalogLists
    <3> QED BY <2>1, <3>2 DEF Tables
  <2>5. i \in 1..Len(db.collections) /\ Tables[i] = Row("constraints").table
    BY <1>1, <2>1, <2>2, <2>3, <2>4 DEF KeyOf
  <2>6. done = ProcessConstraint(keys, Tables, Tables[i], Row("constraints"))
    BY <1>1
  <2>7. stream["constraints"].pos + 1 \in 1..Len(db.rows["constraints"])
    BY <1>1, <2>1
  <2>8. done.keys \in [Collections -> Keys(Names(db), Keyed(db))]
    BY <2>1, <2>5, <2>6, <2>7, ConstraintRowKeeps
  <2>9. Agree(done.keys, Tables)
    BY <2>1, <2>5, <2>6, <2>7, ConstraintRowKeeps
  <2> QED BY <1>1, <2>8, <2>9
<1>2. CASE s # "constraints"
  <2>1. done = [ok |-> TRUE, keys |-> keys]
    BY <1>2
  <2>2. done.ok /\ done.keys = keys
    BY <2>1
  <2> QED BY <1>2, <2>2 DEF IInv, Typed
<1> QED BY <1>1, <1>2

\* to its table,
Elsewhere(s, old, new) == \A x \in Streams : x # s => new[x] = old[x]

LEMMA RowLands ==
  ASSUME TypeOK, IInv, NEW s \in Streams, stream[s].state = "reading", stream[s].pos < Len(db.rows[s]),
         NEW i, i = SequentialFind(FindKeys(s), stream[s].cursor, RowKey(s)), i <= Len(FindKeys(s)),
         NEW new, new = AttachTo(attached, s, HitTable(s, i), Row(s))
  PROVE  /\ new \in [Streams -> [Collections -> Seq(AllRows(db))]]
         /\ Elsewhere(s, attached, new)
         /\ \A t \in Collections : LandsIn(db.rows[s], stream[s].pos + 1, t, new[s][t])
<1> PICK p : p = stream[s].pos
  OBVIOUS
<1> PICK row : row = Row(s)
  OBVIOUS
<1> PICK u : u = HitTable(s, i)
  OBVIOUS
<1>1. /\ read = Len(db.collections) /\ FindKeys(s) = FullList(s) /\ Len(FullList(s)) \in Nat
      /\ p + 1 \in 1..Len(db.rows[s]) /\ p \in Nat
  BY Found
<1>2. i \in stream[s].cursor..Len(FullList(s)) /\ i \in Nat \ {0} /\ FullList(s)[i] = KeyOf(s, Row(s))
  <2>1. i # Len(FullList(s)) + 1
    BY <1>1
  <2> QED BY <2>1, Found
<1>3. HitTable(s, i) = Row(s).table
  <2>1. CASE s = "indexColumns"
    BY <1>1, <1>2, <2>1 DEF HitTable, KeyOf
  <2>2. CASE s # "indexColumns"
    <3>1. FullList(s) = Tables
      BY <1>1, <2>2 DEF FullList, Tables
    <3> QED BY <1>2, <2>2, <3>1 DEF HitTable, KeyOf
  <2> QED BY <2>1, <2>2
<1>4. db \in Databases /\ attached \in [Streams -> [Collections -> Seq(AllRows(db))]]
  BY DEF IInv, Typed
<1>5. row = db.rows[s][p + 1] /\ row \in AllRows(db)
  <2>1. DOMAIN db.rows[s] = 1..Len(db.rows[s])
    BY <1>4, CatalogLists
  <2> QED BY <1>1, <2>1 DEF Row, AllRows, Elements
<1>6. s \in Streams /\ u = row.table /\ new = AttachTo(attached, s, u, row)
  BY <1>3
<1>7. new \in [Streams -> [Collections -> Seq(AllRows(db))]] /\ OnlyAttached(Streams, Collections, attached, s, u, row, new)
  <2> PICK X : X = AllRows(db)
    OBVIOUS
  <2> PICK B : B = Collections
    OBVIOUS
  <2> PICK old : old = attached
    OBVIOUS
  <2>1. old \in [Streams -> [B -> Seq(X)]] /\ s \in Streams /\ row \in X /\ new = AttachTo(old, s, u, row)
    BY <1>4, <1>5, <1>6
  <2>2. new \in [Streams -> [B -> Seq(X)]]
    BY ONLY <2>1, AttachFacts
  <2>3. OnlyAttached(Streams, B, old, s, u, row, new)
    BY ONLY <2>1, AttachFacts
  <2> QED BY <2>2, <2>3
<1>9. ASSUME NEW t \in Collections PROVE LandsIn(db.rows[s], p + 1, t, new[s][t])
  <2>1. attached[s][t] \in Seq(AllRows(db)) /\ LandsIn(db.rows[s], p, t, attached[s][t])
    BY <1>4 DEF IInv, Landed
  <2>2. new[s][t] = WithRow(attached[s][t], row, t)
    BY <1>6, <1>7 DEF OnlyAttached, WithRow
  <2> QED BY ONLY <1>1, <1>5, <2>1, <2>2, NextRowLands
<1> QED BY <1>7, <1>9 DEF OnlyAttached, Elsewhere

\* and to the invariant, whether its table is known or not.
LEMMA ReadRowKeeps ==
  ASSUME TypeOK, IInv, NEW s \in Streams, ReadRow(s)
  PROVE  TypeOK' /\ IInv'
<1> PICK i : i = SequentialFind(FindKeys(s), stream[s].cursor, RowKey(s))
  OBVIOUS
<1> PICK done : done = IF s = "constraints" /\ i <= Len(FindKeys(s))
                       THEN ProcessConstraint(keys, Tables, Tables[i], Row(s))
                       ELSE [ok |-> TRUE, keys |-> keys]
  OBVIOUS
<1> PICK p : p = stream[s].pos
  OBVIOUS
<1>1. /\ stream[s].state = "reading" /\ stream[s].pos < Len(db.rows[s])
      /\ UNCHANGED <<db, phase, read, schemas, late, count, err, worker, result>>
      /\ \/ i > Len(FindKeys(s)) /\ stream' = StopsWith(s, "unknown", i) /\ UNCHANGED <<attached, keys>>
         \/ /\ i <= Len(FindKeys(s)) /\ ~done.ok /\ stream' = StopsWith(s, "no reference", i)
            /\ keys' = done.keys /\ UNCHANGED attached
         \/ /\ i <= Len(FindKeys(s)) /\ done.ok
            /\ stream' = [stream EXCEPT ![s].pos = @ + 1, ![s].cursor = CursorAfterHit(i)]
            /\ attached' = AttachTo(attached, s, HitTable(s, i), Row(s)) /\ keys' = done.keys
  BY DEF ReadRow, AttachTo, catalogVars
<1>2. /\ read = Len(db.collections) /\ FindKeys(s) = FullList(s) /\ Len(FullList(s)) \in Nat
      /\ p + 1 \in 1..Len(db.rows[s]) /\ p \in Nat
      /\ \/ /\ i \in stream[s].cursor..Len(FullList(s)) /\ i \in Nat \ {0}
            /\ FullList(s)[i] = KeyOf(s, Row(s)) /\ PlaceIn(db, s, Row(s)) = i
            /\ p > 0 => PlaceIn(db, s, db.rows[s][p]) <= i
         \/ i = Len(FullList(s)) + 1 /\ ~InOrder(db, s)
  BY <1>1, Found
<1>3. stream \in [Streams -> StreamRecord] /\ stream[s] \in StreamRecord /\ Collections' = Collections
  <2>1. stream \in [Streams -> StreamRecord]
    BY DEF TypeOK, StreamRecord
  <2>2. Collections' = Collections
    BY <1>1 DEF Collections
  <2> QED BY <2>1, <2>2
<1>4. i \in Nat \ {0}
  BY <1>2
<1>5. stream["indexColumns"].state # "idle" => stream["indexes"].state = "end"
  BY DEF IInv, Phases
<1>a. Landed /\ \A x \in Streams : Follows(db, x, stream[x])
  BY DEF IInv
<1>6. CASE i > Len(FindKeys(s)) /\ stream' = StopsWith(s, "unknown", i) /\ UNCHANGED <<attached, keys>>
  <2>1. ~InOrder(db, s)
    BY <1>2, <1>6
  <2>2. /\ stream' \in [Streams -> StreamRecord] /\ stream'[s].pos = stream[s].pos /\ stream'[s].state = "unknown"
        /\ \A x \in Streams : x # s => stream'[x] = stream[x]
    BY <1>3, <1>4, <1>6 DEF StopsWith, StreamRecord
  <2>3. \A x \in Streams : StopsOrStarts(x, stream[x], stream'[x])
    BY <1>1, <2>1, <2>2 DEF StopsOrStarts
  <2>4. stream'["indexColumns"].state # "idle" => stream'["indexes"].state = "end"
    BY <1>1, <1>5, <2>2 DEF Streams
  <2>5. \E x \in Streams : stream[x].state = "reading"
    BY <1>1
  <2> QED BY <1>1, <1>6, <2>2, <2>3, <2>4, <2>5, NoRowKeeps
<1>7. ASSUME i <= Len(FindKeys(s)), keys' = done.keys,
             stream' \in [Streams -> StreamRecord], stream'[s].pos <= Len(db.rows[s]),
             \A x \in Streams : x # s => stream'[x] = stream[x] /\ attached'[x] = attached[x],
             attached' \in [Streams -> [Collections -> Seq(AllRows(db))]],
             stream'[s].state \in {"reading", "no reference"},
             Follows(db, s, stream'[s]),
             \A t \in Collections : LandsIn(db.rows[s], stream'[s].pos, t, attached'[s][t])
      PROVE  TypeOK' /\ IInv'
  <2>1. /\ done.keys \in [Collections -> Keys(Names(db), Keyed(db))] /\ Agree(done.keys, Tables)
        /\ s # "constraints" => done.keys = keys
    BY <1>1, <1>7, ReadRowKeys
  <2>2. DOMAIN keys' = Collections
    BY <1>7, <2>1
  <2>3. \A x \in Streams : stream'[x].pos <= Len(db.rows[x])
    BY <1>7 DEF TypeOK
  <2>4. DOMAIN attached' = Streams /\ \A x \in Streams : DOMAIN attached'[x] = Collections
    BY <1>7
  <2>5. TypeOK'
    BY <1>1, <1>3, <1>7, <2>2, <2>3, <2>4 DEF TypeOK, StreamRecord
  <2>6. Typed'
    BY <1>1, <1>3, <1>7, <2>1 DEF Typed, IInv
  <2>7. Phases'
    <3>1. phase # "collections"
      BY <1>1 DEF IInv, Phases
    <3>2. \A x \in Streams : /\ stream'[x].state = "idle" => stream'[x].pos = 0 /\ stream'[x].cursor = 1
                             /\ stream'[x].state = "end" => stream'[x].pos = Len(db.rows[x])
      BY <1>7 DEF IInv, Phases
    <3>3. stream'["indexColumns"].state # "idle" => stream'["indexes"].state = "end"
      BY <1>1, <1>5, <1>7 DEF Streams
    <3>4. stream'["constraints"].state = "idle" => keys' = [t \in Collections |-> EmptyKeys]
      BY <1>7, <2>1 DEF IInv, Phases, Streams
    <3> QED BY <1>1, <1>2, <1>3, <3>1, <3>2, <3>3, <3>4 DEF Phases
  <2>8. ASSUME NEW x \in Streams, NEW t \in Collections
        PROVE  LandsIn(db.rows[x], stream'[x].pos, t, attached'[x][t])
    BY <1>7, <1>a DEF Landed
  <2>9. Landed'
    BY <1>1, <1>3, <2>8 DEF Landed
  <2>10. ASSUME NEW x \in Streams PROVE Follows(db, x, stream'[x])
    BY <1>7, <1>a
  <2>11. Agree(keys, Tables)'
    BY <1>1, <1>7, <2>1 DEF Tables
  <2> QED BY <1>1, <2>5, <2>6, <2>7, <2>9, <2>10, <2>11 DEF IInv
<1>8. CASE /\ i <= Len(FindKeys(s)) /\ ~done.ok /\ stream' = StopsWith(s, "no reference", i)
           /\ keys' = done.keys /\ UNCHANGED attached
  <2>1. /\ stream' \in [Streams -> StreamRecord] /\ stream'[s].pos = stream[s].pos
        /\ stream'[s].state = "no reference"
        /\ \A x \in Streams : x # s => stream'[x] = stream[x]
    BY <1>3, <1>4, <1>8 DEF StopsWith, StreamRecord
  <2>2. Follows(db, s, stream'[s])
    BY <1>a, <2>1 DEF Follows
  <2>3. \A t \in Collections : LandsIn(db.rows[s], stream'[s].pos, t, attached'[s][t])
    BY <1>8, <1>a, <2>1 DEF Landed
  <2>4. attached' \in [Streams -> [Collections -> Seq(AllRows(db))]]
    BY <1>8 DEF IInv, Typed
  <2>5. stream'[s].pos <= Len(db.rows[s])
    BY <2>1 DEF TypeOK
  <2> QED BY <1>7, <1>8, <2>1, <2>2, <2>3, <2>4, <2>5
<1>9. CASE /\ i <= Len(FindKeys(s)) /\ done.ok
           /\ stream' = [stream EXCEPT ![s].pos = @ + 1, ![s].cursor = CursorAfterHit(i)]
           /\ attached' = AttachTo(attached, s, HitTable(s, i), Row(s)) /\ keys' = done.keys
  <2>1. /\ stream' \in [Streams -> StreamRecord] /\ stream'[s].pos = p + 1 /\ stream'[s].cursor = i
        /\ stream'[s].state = "reading"
        /\ \A x \in Streams : x # s => stream'[x] = stream[x]
    <3>n. PICK next : next = [stream[s] EXCEPT !.pos = p + 1, !.cursor = i]
      OBVIOUS
    <3>0. stream[s] \in StreamRecord /\ p + 1 \in Nat /\ i \in Nat \ {0} /\ stream[s].state = "reading"
      <4>1. p \in Nat
        BY <1>2
      <4>2. p + 1 \in Nat
        BY ONLY <4>1
      <4>3. stream[s].state = "reading"
        BY <1>1
      <4> QED BY ONLY <1>3, <1>4, <4>2, <4>3
    <3>1. next \in StreamRecord /\ next.pos = p + 1 /\ next.cursor = i /\ next.state = "reading"
      BY ONLY <3>n, <3>0 DEF StreamRecord
    <3>2. stream' = [stream EXCEPT ![s] = next]
      BY <1>9, <3>n DEF CursorAfterHit
    <3> QED BY <1>3, <3>1, <3>2
  <2> PICK new : new = AttachTo(attached, s, HitTable(s, i), Row(s))
    OBVIOUS
  <2>9. new = attached' /\ i <= Len(FindKeys(s))
    BY <1>9
  <2>2. attached' \in [Streams -> [Collections -> Seq(AllRows(db))]]
    BY <1>1, <2>9, RowLands
  <2>3. \A x \in Streams : x # s => attached'[x] = attached[x]
    <3>1. Elsewhere(s, attached, new)
      BY <1>1, <2>9, RowLands
    <3> QED BY <2>9, <3>1 DEF Elsewhere
  <2>4. \A t \in Collections : LandsIn(db.rows[s], p + 1, t, attached'[s][t])
    BY <1>1, <2>9, RowLands
  <2>5. /\ PlaceIn(db, s, db.rows[s][p + 1]) = i /\ i > 0
        /\ p > 0 => PlaceIn(db, s, db.rows[s][p]) <= i
    <3>1. i # Len(FullList(s)) + 1
      BY <1>2, <1>9
    <3> QED BY <1>2, <1>4, <3>1 DEF Row
  <2>6. Follows(db, s, stream'[s])
    <3>1. ASSUME NEW j \in 1..p + 1
          PROVE  /\ PlaceIn(db, s, db.rows[s][j]) > 0
                 /\ j > 1 => PlaceIn(db, s, db.rows[s][j - 1]) <= PlaceIn(db, s, db.rows[s][j])
      <4>1. CASE j = p + 1
        <5>1. j - 1 = p /\ (j > 1 => p > 0)
          BY <1>2, <4>1
        <5> QED BY <2>5, <4>1, <5>1
      <4>2. CASE j \in 1..p
        BY <1>a, <4>2 DEF Follows
      <4> QED BY <1>2, <4>1, <4>2
    <3>2. p + 1 # 0
      BY <1>2
    <3> QED BY <2>1, <2>5, <3>1, <3>2 DEF Follows
  <2>7. stream'[s].pos <= Len(db.rows[s])
    BY <1>2, <2>1
  <2>8. \A t \in Collections : LandsIn(db.rows[s], stream'[s].pos, t, attached'[s][t])
    BY <2>1, <2>4
  <2> QED BY <1>7, <1>9, <2>1, <2>2, <2>3, <2>6, <2>7, <2>8
<1> QED BY <1>1, <1>6, <1>8, <1>9

\* Every step keeps the invariant.
LEMMA ScanStep ==
  ASSUME TypeOK, IInv, [Next]_vars
  PROVE  TypeOK' /\ IInv'
<1>0. ASSUME UNCHANGED <<db, read, schemas, scanVars>>, phase' = phase \/ phase' = "returned",
             late' \in BOOLEAN, count' \in [Collections -> {"none", "failed", "counted"}],
             err' \in {"nil", "failure"}, result' \in {"none", "nil", "failure"},
             worker' \in [Workers -> {"idle", "scanning", "assigned", "ok", "err"}]
      PROVE  TypeOK' /\ IInv'
  <2>1. IInv'
    BY <1>0, QuietStep
  <2>2. Collections' = Collections
    BY <1>0 DEF Collections
  <2>3. TypeOK'
    BY <1>0, <2>2 DEF TypeOK, scanVars
  <2> QED BY <2>1, <2>3
<1>t. /\ late \in BOOLEAN /\ count \in [Collections -> {"none", "failed", "counted"}]
      /\ err \in {"nil", "failure"} /\ result \in {"none", "nil", "failure"}
      /\ worker \in [Workers -> {"idle", "scanning", "assigned", "ok", "err"}]
  BY DEF TypeOK
<1>o. \A w : Outcome(w) \in {"nil", "failure"}
  BY DEF Outcome
<1>1. CASE DeadlinePasses
  BY <1>0, <1>1, <1>t DEF DeadlinePasses, catalogVars
<1>2. CASE CollectionStep
  <2>1. CASE CollectionsFail
    BY <1>0, <1>t, <2>1 DEF CollectionsFail, Fail, catalogVars
  <2> QED BY <1>2, <2>1, ReadCollectionKeeps, StartWorkersKeeps DEF CollectionStep
<1>3. CASE RunReturns
  <2>1. result' \in {"nil", "failure"} /\ err' = result' /\ phase' = "returned"
    BY <1>3 DEF RunReturns
  <2> QED BY <1>0, <1>3, <1>t, <2>1 DEF RunReturns, catalogVars
<1>4. ASSUME NEW s \in Streams, StreamStep(s) PROVE TypeOK' /\ IInv'
  BY <1>4, ReadRowKeeps, EndOfRowsKeeps, ReaderFailsKeeps DEF StreamStep
<1>5. ASSUME NEW w \in Workers, WorkerStep(w) PROVE TypeOK' /\ IInv'
  <2>1. CASE AssignErr(w)
    <3>1. worker' \in [Workers -> {"idle", "scanning", "assigned", "ok", "err"}]
      BY <1>t, <2>1 DEF AssignErr
    <3> QED BY <1>0, <1>o, <1>t, <2>1, <3>1 DEF AssignErr, catalogVars
  <2>2. CASE TestErr(w)
    <3>1. worker' \in [Workers -> {"idle", "scanning", "assigned", "ok", "err"}]
      BY <1>t, <2>2 DEF TestErr
    <3> QED BY <1>0, <1>t, <2>2, <3>1 DEF TestErr, catalogVars
  <2> QED BY <1>5, <2>1, <2>2 DEF WorkerStep
<1>6. ASSUME NEW t \in Collections, CountRecords(t) PROVE TypeOK' /\ IInv'
  <2>1. count' \in [Collections -> {"none", "failed", "counted"}]
    BY <1>t, <1>6 DEF CountRecords
  <2> QED BY <1>0, <1>t, <1>6, <2>1 DEF CountRecords, catalogVars
<1>7. CASE UNCHANGED vars
  BY <1>0, <1>t, <1>7 DEF vars, catalogVars, scanVars
<1> QED BY <1>1, <1>2, <1>3, <1>4, <1>5, <1>6, <1>7 DEF Next, Returned

\* The type invariant and the inductive invariant of scanTables with a bulk provider: cursors at
\* the place of the last row found, rows landed as read so far, the two sides of foreign keys in
\* agreement, nothing read before the workers start.
THEOREM ScanInvariance == Spec => [](TypeOK /\ IInv)
<1>1. Init => TypeOK /\ IInv
  BY TypeInit, InvInit
<1>2. TypeOK /\ IInv /\ [Next]_vars => TypeOK' /\ IInv'
  BY ScanStep
<1> QED BY <1>1, <1>2, PTL DEF Spec

\* Every row read is attached to the table it names, once and in the order of its stream,
\* and nothing else is, however the stream workers interleave.
THEOREM RowsLand == Spec => []RowsLandInOrder
<1>1. ASSUME IInv PROVE RowsLandInOrder
  BY <1>1 DEF IInv, Landed, LandsIn, RowsLandInOrder, RowsOf
<1> QED BY <1>1, ScanInvariance, PTL

\* Whether SequentialFind, which only moves forward, finds every row of a stream is decided by
\* the order of the rows alone: a stream in the order of the collections never meets an
\* unknown table, and any other never comes to its end.
THEOREM FoundInOrder == Spec => []OrderDecidesFind
<1>1. ASSUME TypeOK, IInv PROVE OrderDecidesFind
  <2> SUFFICES ASSUME NEW s \in Streams
               PROVE  IF InListOrder(s) THEN stream[s].state # "unknown" ELSE stream[s].state # "end"
    BY DEF OrderDecidesFind
  <2>1. Follows(db, s, stream[s]) /\ (stream[s].state = "end" => stream[s].pos = Len(db.rows[s]))
    BY <1>1 DEF IInv, Phases
  <2>2. InListOrder(s) <=> InOrder(db, s)
    BY PlacesOfDb
  <2>3. ASSUME stream[s].state = "end" PROVE InOrder(db, s)
    BY <2>1, <2>3 DEF Follows, InOrder
  <2>4. stream[s].state = "unknown" => ~InOrder(db, s)
    BY <2>1 DEF Follows
  <2> QED BY <2>2, <2>3, <2>4
<1> QED BY <1>1, ScanInvariance, PTL

\* At every moment of a bulk scan the foreign keys and the ReferencedBy of the tables they
\* refer to are in agreement, in circles of references and with repeated names, too.
THEOREM MirrorsAgree == Spec => []ReferencesMirrored
<1>1. ASSUME IInv PROVE ReferencesMirrored
  BY <1>1, AgreeIsMirrored DEF IInv, ReferencesMirrored
<1> QED BY <1>1, ScanInvariance, PTL

-----------------------------------------------------------------------------
\* The scan table by table

Reader(states) == [state : states, read : Nat]
TableColumns(c) == c \in [AllTables -> Reader({"reading", "end", "failed"})]
TableIndexes(x) == x \in [AllTables -> Reader({"reading", "columns", "end", "failed"})]
ColumnReaders(t) == [IndexesOf(t) -> Reader({"idle", "reading", "end", "failed"})]

\* What a worker's end says of the rows below it, level by level.
ColumnRowsRead(t, c) == c.read <= Len(db.columns[t]) /\ (c.state = "end" => c.read = Len(db.columns[t]))
IndexRowsRead(t, x) == x.read <= Len(db.indexes[t]) /\ (x.state \in {"columns", "end"} => x.read = Len(db.indexes[t]))
IndexColumnRowsRead(t, readers) ==
  \A i \in IndexesOf(t) :
    /\ readers[i].read <= Len(db.indexColumns[t][i])
    /\ readers[i].state = "end" => readers[i].read = Len(db.indexColumns[t][i])
NestedEnded(t, x, readers) == x.state = "end" => \A i \in IndexesOf(t) : readers[i].state = "end"

OnTables(f) == f = [t \in AllTables |-> f[t]]

TableInv ==
  /\ db \in TableDatabases
  /\ TableColumns(columns) /\ TableIndexes(indexes)
  /\ OnTables(indexColumns)
  /\ \A t \in AllTables :
       /\ indexColumns[t] \in ColumnReaders(t)
       /\ ColumnRowsRead(t, columns[t]) /\ IndexRowsRead(t, indexes[t])
       /\ IndexColumnRowsRead(t, indexColumns[t]) /\ NestedEnded(t, indexes[t], indexColumns[t])
  /\ at \in [table : 0..Len(ListedTables) + 1, row : Nat]
  /\ result \in {"none", "nil", "failure"}
  /\ at.table > 0 \/ result = "nil" =>
       \A t \in AllTables : columns[t].state = "end" /\ indexes[t].state = "end"

LEMMA TableLists ==
  ASSUME db \in TableDatabases
  PROVE  /\ Len(ListedTables) \in Nat
         /\ \A t \in AllTables :
              /\ Len(db.columns[t]) \in Nat /\ Len(db.indexes[t]) \in Nat
              /\ \A i \in IndexesOf(t) : Len(db.indexColumns[t][i]) \in Nat
<1>1. IsTableCatalog(db)
  BY TableDatabasesAssumption
<1>2. \A s : IsList(s) => Len(s) \in Nat /\ DOMAIN s = 1..Len(s)
  BY DEF IsList
<1>3. Len(db.tables) \in Nat /\ DOMAIN db.tables = 1..Len(db.tables)
  BY <1>1, <1>2 DEF IsTableCatalog
<1>4. ASSUME NEW t \in AllTables
      PROVE  /\ Len(db.columns[t]) \in Nat /\ Len(db.indexes[t]) \in Nat
             /\ \A i \in IndexesOf(t) : Len(db.indexColumns[t][i]) \in Nat
  <2>1. PICK k \in DOMAIN db.tables : t = db.tables[k]
    BY <1>3 DEF AllTables, ListedTables
  <2>2. /\ IsList(db.columns[t]) /\ IsList(db.indexes[t])
        /\ \A i \in DOMAIN db.indexes[t] : IsList(db.indexColumns[t][i])
    BY <1>1, <2>1 DEF IsTableCatalog, IsTable
  <2> QED BY <1>2, <2>2 DEF IndexesOf
<1> QED BY <1>3, <1>4 DEF ListedTables

LEMMA TableInit == TableScanInit => TableInv
<1> SUFFICES ASSUME TableScanInit PROVE TableInv
  OBVIOUS
<1>1. db \in TableDatabases
  BY DEF TableScanInit
<1>2. /\ Len(ListedTables) \in Nat
      /\ \A t \in AllTables :
           /\ Len(db.columns[t]) \in Nat /\ Len(db.indexes[t]) \in Nat
           /\ \A i \in IndexesOf(t) : Len(db.indexColumns[t][i]) \in Nat
  BY <1>1, TableLists
<1>3. TableColumns(columns) /\ TableIndexes(indexes) /\ OnTables(indexColumns)
  BY DEF TableScanInit, TableColumns, TableIndexes, OnTables, Reader
<1>4. ASSUME NEW t \in AllTables
      PROVE  /\ indexColumns[t] \in ColumnReaders(t)
             /\ ColumnRowsRead(t, columns[t]) /\ IndexRowsRead(t, indexes[t])
             /\ IndexColumnRowsRead(t, indexColumns[t]) /\ NestedEnded(t, indexes[t], indexColumns[t])
  <2>1. /\ columns[t] = [state |-> "reading", read |-> 0] /\ indexes[t] = [state |-> "reading", read |-> 0]
        /\ indexColumns[t] = [i \in IndexesOf(t) |-> [state |-> "idle", read |-> 0]]
    BY DEF TableScanInit
  <2> QED BY <1>2, <2>1 DEF ColumnReaders, Reader, ColumnRowsRead, IndexRowsRead, IndexColumnRowsRead, NestedEnded
<1>5. at = [table |-> 0, row |-> 0] /\ result = "none"
  BY DEF TableScanInit
<1>6. at \in [table : 0..Len(ListedTables) + 1, row : Nat] /\ ~(at.table > 0)
  BY <1>2, <1>5
<1> QED BY <1>1, <1>3, <1>4, <1>5, <1>6 DEF TableInv

\* A step of the workers of table t.
StepOf(t) ==
  /\ TableColumns(columns') /\ TableIndexes(indexes') /\ OnTables(indexColumns')
  /\ \A u \in AllTables :
       u # t => columns'[u] = columns[u] /\ indexes'[u] = indexes[u] /\ indexColumns'[u] = indexColumns[u]
  /\ indexColumns'[t] \in ColumnReaders(t)
  /\ ColumnRowsRead(t, columns'[t]) /\ IndexRowsRead(t, indexes'[t])
  /\ IndexColumnRowsRead(t, indexColumns'[t]) /\ NestedEnded(t, indexes'[t], indexColumns'[t])
  /\ columns[t].state = "end" => columns'[t].state = "end"
  /\ indexes[t].state = "end" => indexes'[t].state = "end"

LEMMA WorkersKeep ==
  ASSUME TableInv, NEW t \in AllTables, UNCHANGED <<db, at, result>>, StepOf(t)
  PROVE  TableInv'
<1> USE DEF StepOf
<1>1. /\ AllTables' = AllTables /\ ListedTables' = ListedTables
      /\ \A u : IndexesOf(u)' = IndexesOf(u)
  BY DEF AllTables, ListedTables, IndexesOf
<1>2. TableColumns(columns)' /\ TableIndexes(indexes)' /\ OnTables(indexColumns)'
  BY <1>1 DEF TableColumns, TableIndexes, OnTables
<1>3. ASSUME NEW u \in AllTables
      PROVE  /\ indexColumns'[u] \in ColumnReaders(u)
             /\ ColumnRowsRead(u, columns'[u]) /\ IndexRowsRead(u, indexes'[u])
             /\ IndexColumnRowsRead(u, indexColumns'[u]) /\ NestedEnded(u, indexes'[u], indexColumns'[u])
             /\ columns[u].state = "end" => columns'[u].state = "end"
             /\ indexes[u].state = "end" => indexes'[u].state = "end"
  <2>1. CASE u = t
    BY <2>1
  <2>2. CASE u # t
    BY <2>2 DEF TableInv
  <2> QED BY <2>1, <2>2
<1>4. (\A u \in AllTables :
         /\ indexColumns[u] \in ColumnReaders(u)
         /\ ColumnRowsRead(u, columns[u]) /\ IndexRowsRead(u, indexes[u])
         /\ IndexColumnRowsRead(u, indexColumns[u]) /\ NestedEnded(u, indexes[u], indexColumns[u]))'
  BY <1>1, <1>3 DEF ColumnReaders, ColumnRowsRead, IndexRowsRead, IndexColumnRowsRead, NestedEnded
<1>5. (at.table > 0 \/ result = "nil")' =>
        (\A u \in AllTables : columns[u].state = "end" /\ indexes[u].state = "end")'
  BY <1>1, <1>3 DEF TableInv
<1> QED BY <1>1, <1>2, <1>4, <1>5 DEF TableInv

LEMMA ColumnsStepKeeps ==
  ASSUME TableInv, NEW t \in AllTables, ColumnsStep(t)
  PROVE  TableInv'
<1> PICK old : old = columns[t]
  OBVIOUS
<1>1. /\ old \in Reader({"reading", "end", "failed"}) /\ old.state = "reading"
      /\ old.read <= Len(db.columns[t]) /\ Len(db.columns[t]) \in Nat /\ old.read \in Nat
  <2>1. db \in TableDatabases /\ TableColumns(columns) /\ ColumnRowsRead(t, columns[t])
    BY DEF TableInv
  <2>2. Len(db.columns[t]) \in Nat
    BY <2>1, TableLists
  <2>3. old.state = "reading"
    BY DEF ColumnsStep, ReadColumn, ColumnsEnd
  <2> QED BY <2>1, <2>2, <2>3 DEF TableColumns, Reader, ColumnRowsRead
<1>2. PICK new \in Reader({"reading", "end", "failed"}) :
        columns' = [columns EXCEPT ![t] = new] /\ ColumnRowsRead(t, new)
  <2>1. CASE ReadColumn(t)
    <3>1. columns' = [columns EXCEPT ![t] = [old EXCEPT !.read = old.read + 1]] /\ old.read < Len(db.columns[t])
      BY <2>1 DEF ReadColumn
    <3>2. PICK new : new = [old EXCEPT !.read = old.read + 1]
      OBVIOUS
    <3>3. new \in Reader({"reading", "end", "failed"}) /\ new.read = old.read + 1 /\ new.state = "reading"
      BY <1>1, <3>2 DEF Reader
    <3>4. ColumnRowsRead(t, new)
      BY <1>1, <3>1, <3>3 DEF ColumnRowsRead
    <3> QED BY <3>1, <3>2, <3>3, <3>4
  <2>2. CASE ColumnsEnd(t)
    <3>1. PICK state \in {"end", "failed"} :
            /\ columns' = [columns EXCEPT ![t] = [old EXCEPT !.state = state]]
            /\ state = "end" => old.read = Len(db.columns[t])
      BY <2>2 DEF ColumnsEnd, Over, LoopEnds
    <3>2. PICK new : new = [old EXCEPT !.state = state]
      OBVIOUS
    <3>3. new \in Reader({"reading", "end", "failed"}) /\ new.read = old.read /\ new.state = state
      BY <1>1, <3>2 DEF Reader
    <3>4. ColumnRowsRead(t, new)
      BY <1>1, <3>1, <3>3 DEF ColumnRowsRead
    <3> QED BY <3>1, <3>2, <3>3, <3>4
  <2> QED BY <2>1, <2>2 DEF ColumnsStep
<1>3. UNCHANGED <<db, at, result, indexes, indexColumns>>
  BY DEF ColumnsStep, ReadColumn, ColumnsEnd
<1>4. TableColumns(columns') /\ columns'[t] = new /\ \A u \in AllTables : u # t => columns'[u] = columns[u]
  BY <1>2 DEF TableInv, TableColumns
<1>5. /\ TableIndexes(indexes') /\ OnTables(indexColumns')
      /\ indexColumns'[t] \in ColumnReaders(t) /\ IndexRowsRead(t, indexes'[t])
      /\ IndexColumnRowsRead(t, indexColumns'[t]) /\ NestedEnded(t, indexes'[t], indexColumns'[t])
  BY <1>3 DEF TableInv
<1>6. StepOf(t)
  BY <1>1, <1>2, <1>3, <1>4, <1>5 DEF StepOf
<1> QED BY <1>3, <1>6, WorkersKeep

LEMMA IndexesStepKeeps ==
  ASSUME TableInv, NEW t \in AllTables, IndexesStep(t)
  PROVE  TableInv'
<1> PICK old : old = indexes[t]
  OBVIOUS
<1> PICK readers : readers = indexColumns[t]
  OBVIOUS
<1> PICK S : S = {"reading", "columns", "end", "failed"}
  OBVIOUS
<1>1. /\ old \in Reader(S) /\ old.state \in {"reading", "columns"} /\ IndexRowsRead(t, old)
      /\ Len(db.indexes[t]) \in Nat /\ old.read \in Nat
      /\ readers \in ColumnReaders(t) /\ IndexColumnRowsRead(t, readers)
  <2>1. db \in TableDatabases /\ TableIndexes(indexes) /\ IndexRowsRead(t, old)
    BY DEF TableInv
  <2>2. Len(db.indexes[t]) \in Nat
    BY <2>1, TableLists
  <2>3. old.state \in {"reading", "columns"}
    BY DEF IndexesStep, ReadIndex, IndexesRead, NestedRunReturns
  <2>4. readers \in ColumnReaders(t) /\ IndexColumnRowsRead(t, readers)
    BY DEF TableInv
  <2> QED BY <2>1, <2>2, <2>3, <2>4 DEF TableIndexes, Reader
<1>2. \E new \in Reader(S), next \in ColumnReaders(t) :
        /\ indexes' = [indexes EXCEPT ![t] = new] /\ indexColumns' = [indexColumns EXCEPT ![t] = next]
        /\ IndexRowsRead(t, new) /\ IndexColumnRowsRead(t, next) /\ NestedEnded(t, new, next)
  <2>0. indexColumns = [indexColumns EXCEPT ![t] = readers]
    BY DEF TableInv, OnTables
  <2>1. CASE ReadIndex(t)
    <3>1. /\ indexes' = [indexes EXCEPT ![t] = [old EXCEPT !.read = old.read + 1]] /\ indexColumns' = indexColumns
          /\ old.read < Len(db.indexes[t]) /\ old.state = "reading"
      BY <2>1 DEF ReadIndex
    <3>2. PICK new : new = [old EXCEPT !.read = old.read + 1]
      OBVIOUS
    <3>3. new \in Reader(S) /\ new.read = old.read + 1 /\ new.state = "reading"
      BY <1>1, <3>1, <3>2 DEF Reader
    <3>4. IndexRowsRead(t, new) /\ NestedEnded(t, new, readers)
      BY <1>1, <3>1, <3>3 DEF IndexRowsRead, NestedEnded
    <3> QED BY <1>1, <2>0, <3>1, <3>2, <3>3, <3>4
  <2>2. CASE IndexesRead(t)
    <3>1. PICK state \in {"end", "failed"} :
            /\ indexes' = [indexes EXCEPT ![t] = [old EXCEPT !.state = IF state = "end" THEN "columns" ELSE state]]
            /\ state = "end" => old.read = Len(db.indexes[t])
            /\ indexColumns' = IF state = "failed" THEN indexColumns
                               ELSE [indexColumns EXCEPT ![t] = [i \in DOMAIN readers |-> [readers[i] EXCEPT !.state = "reading"]]]
      BY <2>2 DEF IndexesRead, Over, LoopEnds
    <3>2. PICK new : new = [old EXCEPT !.state = IF state = "end" THEN "columns" ELSE state]
      OBVIOUS
    <3>3. new \in Reader(S) /\ new.read = old.read /\ new.state = IF state = "end" THEN "columns" ELSE state
      BY <1>1, <3>2 DEF Reader
    <3>4. IndexRowsRead(t, new) /\ new.state # "end"
      BY <1>1, <3>1, <3>3 DEF IndexRowsRead
    <3>5. CASE state = "failed"
      BY <1>1, <2>0, <3>1, <3>2, <3>3, <3>4, <3>5 DEF NestedEnded
    <3>6. CASE state = "end"
      <4>1. PICK next : next = [i \in DOMAIN readers |-> [readers[i] EXCEPT !.state = "reading"]]
        OBVIOUS
      <4>2. DOMAIN readers = IndexesOf(t)
        BY <1>1 DEF ColumnReaders
      <4>3. ASSUME NEW i \in IndexesOf(t)
            PROVE  /\ next[i] \in Reader({"idle", "reading", "end", "failed"})
                   /\ next[i].read = readers[i].read /\ next[i].state = "reading"
        <5>1. readers[i] \in Reader({"idle", "reading", "end", "failed"})
          BY <1>1 DEF ColumnReaders
        <5>2. next[i] = [readers[i] EXCEPT !.state = "reading"]
          BY <4>1, <4>2
        <5> QED BY <5>1, <5>2 DEF Reader
      <4>4. next \in ColumnReaders(t)
        BY <4>1, <4>2, <4>3 DEF ColumnReaders
      <4>5. IndexColumnRowsRead(t, next) /\ NestedEnded(t, new, next)
        BY <1>1, <3>4, <4>3 DEF IndexColumnRowsRead, NestedEnded
      <4>6. indexColumns' = [indexColumns EXCEPT ![t] = next]
        BY <3>1, <3>6, <4>1
      <4> QED BY <3>1, <3>2, <3>3, <3>4, <4>4, <4>5, <4>6
    <3> QED BY <3>5, <3>6
  <2>3. CASE NestedRunReturns(t)
    <3>1. /\ indexes' = [indexes EXCEPT ![t] = [old EXCEPT !.state = NestedOutcome(t)]]
          /\ indexColumns' = indexColumns /\ old.state = "columns"
          /\ \A i \in IndexesOf(t) : readers[i].state \in {"end", "failed"}
      BY <2>3 DEF NestedRunReturns, Over
    <3>2. PICK new : new = [old EXCEPT !.state = NestedOutcome(t)]
      OBVIOUS
    <3>3. /\ NestedOutcome(t) \in {"end", "failed"}
          /\ NestedOutcome(t) = "end" => \A i \in IndexesOf(t) : readers[i].state = "end"
      BY <3>1 DEF NestedOutcome
    <3>4. new \in Reader(S) /\ new.read = old.read /\ new.state = NestedOutcome(t)
      BY <1>1, <3>2, <3>3 DEF Reader
    <3>5. IndexRowsRead(t, new) /\ NestedEnded(t, new, readers)
      BY <1>1, <3>1, <3>3, <3>4 DEF IndexRowsRead, NestedEnded
    <3> QED BY <1>1, <2>0, <3>1, <3>2, <3>4, <3>5
  <2> QED BY <2>1, <2>2, <2>3 DEF IndexesStep
<1>3. PICK new \in Reader(S), next \in ColumnReaders(t) :
        /\ indexes' = [indexes EXCEPT ![t] = new] /\ indexColumns' = [indexColumns EXCEPT ![t] = next]
        /\ IndexRowsRead(t, new) /\ IndexColumnRowsRead(t, next) /\ NestedEnded(t, new, next)
  BY <1>2
<1>4. UNCHANGED <<db, at, result, columns>>
  BY DEF IndexesStep, ReadIndex, IndexesRead, NestedRunReturns
<1>5. /\ TableIndexes(indexes') /\ indexes'[t] = new /\ indexColumns'[t] = next
      /\ OnTables(indexColumns')
      /\ \A u \in AllTables : u # t => indexes'[u] = indexes[u] /\ indexColumns'[u] = indexColumns[u]
  BY <1>3 DEF TableInv, TableIndexes, OnTables
<1>6. TableColumns(columns') /\ ColumnRowsRead(t, columns'[t])
  BY <1>4 DEF TableInv
<1>7. StepOf(t)
  BY <1>1, <1>3, <1>4, <1>5, <1>6 DEF StepOf
<1> QED BY <1>4, <1>7, WorkersKeep

LEMMA IndexColumnsStepKeeps ==
  ASSUME TableInv, NEW t \in AllTables, NEW i \in IndexesOf(t),
         IndexColumnsStep(t, i)
  PROVE  TableInv'
<1> PICK readers : readers = indexColumns[t]
  OBVIOUS
<1> PICK old : old = readers[i]
  OBVIOUS
<1> PICK S : S = {"idle", "reading", "end", "failed"}
  OBVIOUS
<1>1. /\ readers \in ColumnReaders(t) /\ IndexColumnRowsRead(t, readers) /\ old \in Reader(S)
      /\ old.state = "reading" /\ old.read \in Nat /\ Len(db.indexColumns[t][i]) \in Nat
      /\ old.read <= Len(db.indexColumns[t][i])
  <2>1. db \in TableDatabases /\ readers \in ColumnReaders(t) /\ IndexColumnRowsRead(t, readers)
    BY DEF TableInv
  <2>2. Len(db.indexColumns[t][i]) \in Nat
    BY <2>1, TableLists
  <2>3. old.state = "reading"
    BY DEF IndexColumnsStep, ReadIndexColumn, IndexColumnsEnd
  <2>4. old \in Reader(S)
    BY <2>1 DEF ColumnReaders
  <2> QED BY <2>1, <2>2, <2>3, <2>4 DEF Reader, IndexColumnRowsRead
<1>2. PICK new \in Reader(S) :
        /\ indexColumns' = [indexColumns EXCEPT ![t] = [readers EXCEPT ![i] = new]]
        /\ new.read <= Len(db.indexColumns[t][i])
        /\ new.state = "end" => new.read = Len(db.indexColumns[t][i])
  <2>1. CASE ReadIndexColumn(t, i)
    <3>1. PICK new : new = [old EXCEPT !.read = old.read + 1]
      OBVIOUS
    <3>2. old.read < Len(db.indexColumns[t][i])
      BY <2>1 DEF ReadIndexColumn
    <3>3. indexColumns' = [indexColumns EXCEPT ![t] = [readers EXCEPT ![i] = new]]
      BY <2>1, <3>1 DEF ReadIndexColumn
    <3>4. new \in Reader(S) /\ new.read = old.read + 1 /\ new.state = "reading"
      BY <1>1, <3>1 DEF Reader
    <3>5. new.read <= Len(db.indexColumns[t][i])
      BY <1>1, <3>2, <3>4
    <3> QED BY <3>3, <3>4, <3>5
  <2>2. CASE IndexColumnsEnd(t, i)
    <3>1. PICK state \in {"end", "failed"} :
            /\ indexColumns' = [indexColumns EXCEPT ![t][i].state = state]
            /\ state = "end" => old.read = Len(db.indexColumns[t][i])
      BY <2>2 DEF IndexColumnsEnd, Over, LoopEnds
    <3>2. PICK new : new = [old EXCEPT !.state = state]
      OBVIOUS
    <3>3. indexColumns' = [indexColumns EXCEPT ![t] = [readers EXCEPT ![i] = new]]
      BY <3>1, <3>2
    <3>4. new \in Reader(S) /\ new.read = old.read /\ new.state = state
      BY <1>1, <3>2 DEF Reader
    <3> QED BY <1>1, <3>1, <3>3, <3>4
  <2> QED BY <2>1, <2>2 DEF IndexColumnsStep
<1>3. PICK next : next = [readers EXCEPT ![i] = new]
  OBVIOUS
<1>4. /\ next \in ColumnReaders(t) /\ next[i] = new
      /\ \A j \in IndexesOf(t) : j # i => next[j] = readers[j]
  BY <1>1, <1>3 DEF ColumnReaders
<1>5. UNCHANGED <<db, at, result, columns, indexes>>
  BY DEF IndexColumnsStep, ReadIndexColumn, IndexColumnsEnd
<1>6. /\ indexColumns'[t] = next /\ OnTables(indexColumns')
      /\ \A u \in AllTables : u # t => indexColumns'[u] = indexColumns[u]
  <2>1. OnTables(indexColumns) /\ indexColumns' = [indexColumns EXCEPT ![t] = next]
    BY <1>2, <1>3 DEF TableInv
  <2> QED BY <2>1 DEF OnTables
<1>7. IndexColumnRowsRead(t, next)
  BY <1>1, <1>2, <1>4 DEF IndexColumnRowsRead
<1>8. NestedEnded(t, indexes[t], next)
  <2>1. NestedEnded(t, indexes[t], readers)
    BY DEF TableInv
  <2> QED BY <1>1, <2>1 DEF NestedEnded
<1>9. /\ TableColumns(columns') /\ ColumnRowsRead(t, columns'[t])
      /\ TableIndexes(indexes') /\ IndexRowsRead(t, indexes'[t])
  BY <1>5 DEF TableInv
<1>10. StepOf(t)
  BY <1>4, <1>5, <1>6, <1>7, <1>8, <1>9 DEF StepOf
<1> QED BY <1>5, <1>10, WorkersKeep

\* Steps of the scanner's own goroutine, and of the deadline.
LEMMA ScannerKeeps ==
  ASSUME TableInv, UNCHANGED <<db, columns, indexes, indexColumns>>,
         at' \in [table : 0..Len(ListedTables) + 1, row : Nat], result' \in {"none", "nil", "failure"},
         at'.table > 0 \/ result' = "nil" =>
           \A t \in AllTables : columns[t].state = "end" /\ indexes[t].state = "end"
  PROVE  TableInv'
<1>1. /\ AllTables' = AllTables /\ ListedTables' = ListedTables
      /\ \A u : IndexesOf(u)' = IndexesOf(u)
  BY DEF AllTables, ListedTables, IndexesOf
<1>2. TableColumns(columns)' /\ TableIndexes(indexes)' /\ OnTables(indexColumns)'
  BY <1>1 DEF TableInv, TableColumns, TableIndexes, OnTables
<1>3. (\A u \in AllTables :
         /\ indexColumns[u] \in ColumnReaders(u)
         /\ ColumnRowsRead(u, columns[u]) /\ IndexRowsRead(u, indexes[u])
         /\ IndexColumnRowsRead(u, indexColumns[u]) /\ NestedEnded(u, indexes[u], indexColumns[u]))'
  BY <1>1 DEF TableInv, ColumnReaders, ColumnRowsRead, IndexRowsRead, IndexColumnRowsRead, NestedEnded
<1> QED BY <1>1, <1>2, <1>3 DEF TableInv

LEMMA TableStep ==
  ASSUME TableInv, [TableScanNext]_tableScanVars
  PROVE  TableInv'
<1>1. /\ at \in [table : 0..Len(ListedTables) + 1, row : Nat] /\ result \in {"none", "nil", "failure"}
      /\ Len(ListedTables) \in Nat
      /\ at.table > 0 \/ result = "nil" =>
           \A t \in AllTables : columns[t].state = "end" /\ indexes[t].state = "end"
  <2>1. db \in TableDatabases
    BY DEF TableInv
  <2>2. Len(ListedTables) \in Nat
    BY <2>1, TableLists
  <2> QED BY <2>2 DEF TableInv
<1>2. ASSUME UNCHANGED <<db, columns, indexes, indexColumns, at>>, result' \in {result, "failure"}
      PROVE  TableInv'
  BY <1>1, <1>2, ScannerKeeps
<1>3. CASE TimeRunsOut
  BY <1>2, <1>3 DEF TimeRunsOut
<1>4. CASE OuterRunReturns
  <2>0. UNCHANGED <<db, columns, indexes, indexColumns>>
    BY <1>4 DEF OuterRunReturns
  <2>1. CASE \E t \in AllTables : PropsFailed(t)
    BY <1>2, <1>4, <2>1 DEF OuterRunReturns
  <2>2. CASE ~\E t \in AllTables : PropsFailed(t)
    <3>1. at' = [table |-> 1, row |-> 0] /\ result' = result
      BY <1>4, <2>2 DEF OuterRunReturns
    <3>2. \A t \in AllTables : columns[t].state = "end" /\ indexes[t].state = "end"
      BY <1>4, <2>2 DEF OuterRunReturns, PropsFailed, Over
    <3>3. at' \in [table : 0..Len(ListedTables) + 1, row : Nat]
      BY <1>1, <3>1
    <3> QED BY <1>1, <2>0, <3>1, <3>2, <3>3, ScannerKeeps
  <2> QED BY <2>1, <2>2
<1>5. CASE ReadConstraint
  <2>0. /\ UNCHANGED <<db, columns, indexes, indexColumns>> /\ at.table \in 1..Len(ListedTables)
        /\ \/ at' = [at EXCEPT !.row = @ + 1] /\ UNCHANGED result
           \/ result' = "failure" /\ UNCHANGED at
    BY <1>5 DEF ReadConstraint, InConstraints
  <2>1. CASE at' = [at EXCEPT !.row = @ + 1] /\ UNCHANGED result
    <3>1. at' \in [table : 0..Len(ListedTables) + 1, row : Nat] /\ at'.table = at.table
      BY <1>1, <2>1
    <3> QED BY <1>1, <2>0, <2>1, <3>1, ScannerKeeps
  <2> QED BY <1>2, <2>0, <2>1
<1>6. CASE NextTable
  <2>0. /\ UNCHANGED <<db, columns, indexes, indexColumns, result>> /\ at.table \in 1..Len(ListedTables)
        /\ at' = [table |-> at.table + 1, row |-> 0]
    BY <1>6 DEF NextTable, InConstraints
  <2>1. at' \in [table : 0..Len(ListedTables) + 1, row : Nat] /\ at.table > 0
    BY <1>1, <2>0
  <2> QED BY <1>1, <2>0, <2>1, ScannerKeeps
<1>7. CASE ConstraintsFail
  BY <1>2, <1>7 DEF ConstraintsFail
<1>8. CASE Succeed
  <2>0. UNCHANGED <<db, columns, indexes, indexColumns, at>> /\ result' = "nil" /\ at.table = Len(ListedTables) + 1
    BY <1>8 DEF Succeed
  <2>1. at.table > 0
    BY <1>1, <2>0
  <2> QED BY <1>1, <2>0, <2>1, ScannerKeeps
<1>9. CASE UNCHANGED tableScanVars
  BY <1>2, <1>9 DEF tableScanVars
<1>10. ASSUME NEW t \in AllTables,
              \/ ColumnsStep(t) \/ IndexesStep(t)
              \/ \E i \in IndexesOf(t) : IndexColumnsStep(t, i)
       PROVE  TableInv'
  BY <1>10, ColumnsStepKeeps, IndexesStepKeeps, IndexColumnsStepKeeps
<1> QED BY <1>3, <1>4, <1>5, <1>6, <1>7, <1>8, <1>9, <1>10
        DEF TableScanNext, ScannerStep, ScanReturned

\* A scan table by table that returns no error has read every row of every table, index and
\* index column, whichever worker fails on the way and whenever the deadline passes.
THEOREM NoGapWithoutError == TableScanSpec => []NoErrorNoGap
<1>1. TableScanInit => TableInv
  BY TableInit
<1>2. TableInv /\ [TableScanNext]_tableScanVars => TableInv'
  BY TableStep
<1>3. ASSUME TableInv PROVE NoErrorNoGap
  <2> SUFFICES ASSUME result = "nil" \/ at.table > 0, NEW t \in AllTables
               PROVE  FullyRead(t)
    BY DEF NoErrorNoGap
  <2>1. /\ TableColumns(columns) /\ columns[t].state = "end" /\ ColumnRowsRead(t, columns[t])
        /\ TableIndexes(indexes) /\ indexes[t].state = "end" /\ IndexRowsRead(t, indexes[t])
        /\ indexColumns[t] \in ColumnReaders(t) /\ IndexColumnRowsRead(t, indexColumns[t])
        /\ NestedEnded(t, indexes[t], indexColumns[t])
    BY <1>3 DEF TableInv
  <2>2. columns[t] = [state |-> "end", read |-> Len(db.columns[t])]
    BY <2>1 DEF TableColumns, Reader, ColumnRowsRead
  <2>3. indexes[t] = [state |-> "end", read |-> Len(db.indexes[t])]
    BY <2>1 DEF TableIndexes, Reader, IndexRowsRead
  <2>4. ASSUME NEW i \in IndexesOf(t)
        PROVE  indexColumns[t][i] = [state |-> "end", read |-> Len(db.indexColumns[t][i])]
    BY <2>1 DEF ColumnReaders, Reader, IndexColumnRowsRead, NestedEnded
  <2> QED BY <2>2, <2>3, <2>4 DEF FullyRead
<1> QED BY <1>1, <1>2, <1>3, PTL DEF TableScanSpec

-----------------------------------------------------------------------------
\* The keys of a scan table by table

\* The names and the tables that occur in them.
RowsIn(t) == Elements(db.constraints[t])
TableNames ==
  UNION {{r.name : r \in RowsIn(t)} \cup {r.column : r \in RowsIn(t)} \cup {c.name : c \in Elements(db.columns[t])} :
           t \in AllTables}
TableRefs == AllTables \cup UNION {{r.ref : r \in RowsIn(t)} : t \in AllTables}

\* A primary key begins with the key's columns among the first n of table t, by position.
KeyAmong(t, n) == {c \in 1..n : db.columns[t][c].pk > 0}
ByPosition(t, K, order) ==
  /\ order \in Bijection(1..Cardinality(K), K)
  /\ \A i, j \in 1..Cardinality(K) : i < j => db.columns[t][order[i]].pk <= db.columns[t][order[j]].pk
BeginsWith(t, k, order, pk) == k <= Len(pk) /\ \A i \in 1..k : pk[i] = db.columns[t][order[i]].name
PkBegins(t, pk, n) ==
  \E order : /\ ByPosition(t, KeyAmong(t, n), order)
             /\ BeginsWith(t, Cardinality(KeyAmong(t, n)), order, pk)

KeysTyped(ks) == ks \in [AllTables -> Keys(TableNames, TableRefs)]
KeysInv ==
  /\ late \in BOOLEAN /\ KeysTyped(keys) /\ Agree(keys, ListedTables)
  /\ \A t \in AllTables : columns[t].state \in Over => PkBegins(t, keys[t].pk, columns[t].read)

\* The tables of a catalog.
LEMMA TablesAreListed ==
  ASSUME db \in TableDatabases, NEW t \in AllTables
  PROVE  /\ IsTable(db.columns[t]) /\ Len(db.columns[t]) \in Nat /\ DOMAIN db.columns[t] = 1..Len(db.columns[t])
         /\ DOMAIN db.constraints[t] = 1..Len(db.constraints[t]) /\ Len(db.constraints[t]) \in Nat
         /\ \A i \in DOMAIN db.constraints[t] : db.constraints[t][i].table = t
<1>1. IsTableCatalog(db)
  BY TableDatabasesAssumption
<1>2. \A s : IsList(s) => Len(s) \in Nat /\ DOMAIN s = 1..Len(s)
  BY DEF IsList
<1>3. Len(db.tables) \in Nat /\ DOMAIN db.tables = 1..Len(db.tables)
  BY <1>1, <1>2 DEF IsTableCatalog
<1>4. PICK k \in DOMAIN db.tables : t = db.tables[k]
  BY <1>3 DEF AllTables, ListedTables
<1>5. /\ IsTable(db.columns[t]) /\ IsList(db.constraints[t])
      /\ \A i \in DOMAIN db.constraints[t] : db.constraints[t][i].table = t
  BY <1>1, <1>4 DEF IsTableCatalog
<1>6. IsList(db.columns[t])
  BY <1>5 DEF IsTable
<1> QED BY <1>2, <1>5, <1>6

LEMMA KeyAmongFinite ==
  ASSUME NEW t, NEW n \in Nat
  PROVE  IsFiniteSet(KeyAmong(t, n)) /\ Cardinality(KeyAmong(t, n)) \in Nat
<1>1. IsFiniteSet(1..n)
  BY FS_Interval
<1>2. KeyAmong(t, n) \subseteq 1..n
  BY DEF KeyAmong
<1> QED BY <1>1, <1>2, FS_Subset, FS_CardinalityType

\* What a constraint adds to a primary key comes behind it.
LEMMA LongerKeyBegins ==
  ASSUME NEW t, NEW n \in Nat, NEW N, NEW pk \in Seq(N), PkBegins(t, pk, n), NEW x \in N,
         NEW new, new = Append(pk, x)
  PROVE  PkBegins(t, new, n)
<1>1. PICK order : /\ ByPosition(t, KeyAmong(t, n), order)
                   /\ BeginsWith(t, Cardinality(KeyAmong(t, n)), order, pk)
  BY DEF PkBegins
<1>2. PICK k : k = Cardinality(KeyAmong(t, n))
  OBVIOUS
<1>3. k \in Nat
  BY <1>2, KeyAmongFinite
<1>4. /\ Len(pk) \in Nat /\ Len(new) = Len(pk) + 1 /\ \A i \in 1..Len(pk) : new[i] = pk[i]
  BY AppendFacts
<1>5. BeginsWith(t, k, order, new)
  BY <1>1, <1>2, <1>3, <1>4 DEF BeginsWith
<1> QED BY <1>1, <1>2, <1>5 DEF PkBegins

\* A row of a constraint does nothing to a primary key but append to that of its own table.
PkKept(C, ks, new, t, N) ==
  \A r \in C : new[r].pk = ks[r].pk \/ (r = t /\ \E x \in N : new[r].pk = Append(ks[r].pk, x))

LEMMA PkEdit ==
  ASSUME NEW N, NEW T, NEW C, NEW ks \in [C -> Keys(N, T)], NEW t \in C, NEW pk, NEW new, new = SetPk(ks, t, pk)
  PROVE  /\ DOMAIN new = C /\ new[t].pk = pk /\ \A r \in C : r # t => new[r] = ks[r]
<1> PICK entry : entry = [ks[t] EXCEPT !.pk = pk]
  OBVIOUS
<1>1. new = [ks EXCEPT ![t] = entry]
  BY DEF SetPk
<1>2. ks[t] \in Keys(N, T)
  OBVIOUS
<1>3. entry.pk = pk
  BY <1>2 DEF Keys
<1> QED BY <1>1, <1>3

LEMMA OtherEditsKeepPk ==
  ASSUME NEW N, NEW T, NEW C, NEW ks, DOMAIN ks = C, \A r \in C : DOMAIN ks[r] = DOMAIN EmptyKeys,
         NEW t \in C, NEW new,
         \/ \E foreign : new = SetOwn(ks, t, foreign)
         \/ \E refs : new = SetReferencedBy(ks, t, refs)
         \/ \E alternate : new = SetAlternate(ks, t, alternate)
  PROVE  /\ DOMAIN new = C /\ \A r \in C : DOMAIN new[r] = DOMAIN EmptyKeys /\ new[r].pk = ks[r].pk
<1>1. DOMAIN EmptyKeys = {"pk", "alternate", "foreign", "referencedBy"}
  BY DEF EmptyKeys
<1>2. DOMAIN ks[t] = DOMAIN EmptyKeys
  OBVIOUS
<1>3. PICK entry : /\ new = [ks EXCEPT ![t] = entry]
                   /\ DOMAIN entry = DOMAIN EmptyKeys /\ entry.pk = ks[t].pk
  <2>1. ASSUME NEW foreign, new = SetOwn(ks, t, foreign)
        PROVE  \E entry : new = [ks EXCEPT ![t] = entry] /\ DOMAIN entry = DOMAIN EmptyKeys /\ entry.pk = ks[t].pk
    <3> PICK entry : entry = [ks[t] EXCEPT !.foreign = foreign]
      OBVIOUS
    <3>1. new = [ks EXCEPT ![t] = entry]
      BY <2>1 DEF SetOwn
    <3>2. entry = [ks[t] EXCEPT !.foreign = foreign]
      OBVIOUS
    <3>3. DOMAIN entry = DOMAIN EmptyKeys
      BY ONLY <1>2, <3>2
    <3>4. entry.pk = ks[t].pk
      BY ONLY <1>1, <1>2, <3>2
    <3> QED BY ONLY <3>1, <3>3, <3>4
  <2>2. ASSUME NEW refs, new = SetReferencedBy(ks, t, refs)
        PROVE  \E entry : new = [ks EXCEPT ![t] = entry] /\ DOMAIN entry = DOMAIN EmptyKeys /\ entry.pk = ks[t].pk
    <3> PICK entry : entry = [ks[t] EXCEPT !.referencedBy = refs]
      OBVIOUS
    <3>1. new = [ks EXCEPT ![t] = entry]
      BY <2>2 DEF SetReferencedBy
    <3>2. entry = [ks[t] EXCEPT !.referencedBy = refs]
      OBVIOUS
    <3>3. DOMAIN entry = DOMAIN EmptyKeys
      BY ONLY <1>2, <3>2
    <3>4. entry.pk = ks[t].pk
      BY ONLY <1>1, <1>2, <3>2
    <3> QED BY ONLY <3>1, <3>3, <3>4
  <2>3. ASSUME NEW alternate, new = SetAlternate(ks, t, alternate)
        PROVE  \E entry : new = [ks EXCEPT ![t] = entry] /\ DOMAIN entry = DOMAIN EmptyKeys /\ entry.pk = ks[t].pk
    <3> PICK entry : entry = [ks[t] EXCEPT !.alternate = alternate]
      OBVIOUS
    <3>1. new = [ks EXCEPT ![t] = entry]
      BY <2>3 DEF SetAlternate
    <3>2. entry = [ks[t] EXCEPT !.alternate = alternate]
      OBVIOUS
    <3>3. DOMAIN entry = DOMAIN EmptyKeys
      BY ONLY <1>2, <3>2
    <3>4. entry.pk = ks[t].pk
      BY ONLY <1>1, <1>2, <3>2
    <3> QED BY ONLY <3>1, <3>3, <3>4
  <2> QED BY <2>1, <2>2, <2>3
<1> QED BY <1>3

LEMMA ConstraintKeepsPk ==
  ASSUME NEW N, NEW T, NEW C, NEW ks \in [C -> Keys(N, T)], NEW tables,
         Len(tables) \in Nat, \A j \in 1..Len(tables) : tables[j] \in C,
         NEW t \in C, NEW row, row.column \in N,
         NEW done, done = ProcessConstraint(ks, tables, t, row)
  PROVE  PkKept(C, ks, done.keys, t, N)
<1>0. DOMAIN ks = C /\ \A r \in C : DOMAIN ks[r] = DOMAIN EmptyKeys
  BY DEF Keys, EmptyKeys
<1>1. CASE row.type = "PRIMARY KEY"
  <2> PICK pk : pk = Append(ks[t].pk, row.column)
    OBVIOUS
  <2> PICK new : new = done.keys
    OBVIOUS
  <2>1. new = SetPk(ks, t, pk)
    BY <1>1 DEF ProcessConstraint, SetPk
  <2>3. ks \in [C -> Keys(N, T)] /\ t \in C
    OBVIOUS
  <2>2. new[t].pk = pk /\ \A r \in C : r # t => new[r] = ks[r]
    BY ONLY <2>1, <2>3, PkEdit
  <2> QED BY <2>2 DEF PkKept
<1>2. CASE row.type = "UNIQUE"
  <2>1. done.keys = SetAlternate(ks, t, AddUnique(ks[t].alternate, row))
    BY <1>2 DEF ProcessConstraint, SetAlternate
  <2> PICK new : new = done.keys
    OBVIOUS
  <2>2. t \in C /\ \E alternate : new = SetAlternate(ks, t, alternate)
    BY <2>1
  <2>3. \A r \in C : new[r].pk = ks[r].pk
    BY ONLY <1>0, <2>2, OtherEditsKeepPk
  <2> QED BY <2>3 DEF PkKept
<1>3. CASE row.type = "FOREIGN KEY"
  <2> PICK ref : ref = FindTable(tables, row.ref)
    OBVIOUS
  <2> PICK added : added = SetOwn(ks, t, Append(ks[t].foreign, [name |-> row.name, columns |-> <<row.column>>, ref |-> row.ref]))
    OBVIOUS
  <2>1. done = ForeignKeyRow(ks, tables, t, row)
    BY <1>3 DEF ProcessConstraint
  <2>2. DOMAIN added = C /\ \A r \in C : DOMAIN added[r] = DOMAIN EmptyKeys /\ added[r].pk = ks[r].pk
    BY <1>0, OtherEditsKeepPk
  <2>3. CASE ContinuesLast(ks[t].foreign, row.name)
    <3>1. done.keys = SetOwn(ks, t, AddColumn(ks[t].foreign, Len(ks[t].foreign), row.column))
      BY <2>1, <2>3 DEF ForeignKeyRow, SetOwn
    <3>2. \A r \in C : done.keys[r].pk = ks[r].pk
      BY <1>0, <3>1, OtherEditsKeepPk
    <3> QED BY <3>2 DEF PkKept
  <2>4. CASE ~ContinuesLast(ks[t].foreign, row.name) /\ ref = 0
    <3>1. done.keys = added
      BY <2>1, <2>4 DEF ForeignKeyRow, SetOwn
    <3> QED BY <2>2, <3>1 DEF PkKept
  <2>5. CASE ~ContinuesLast(ks[t].foreign, row.name) /\ ref # 0
    <3> PICK r0 : r0 = tables[ref]
      OBVIOUS
    <3>1. r0 \in C
      BY <2>5, FindTableFinds
    <3>2. \E refs : done.keys = SetReferencedBy(added, r0, refs)
      <4>1. done.keys = SetReferencedBy(added, r0, Mirror(added[r0].referencedBy, row.table, row.name, row.column))
        BY <2>1, <2>5 DEF ForeignKeyRow, SetOwn, SetReferencedBy
      <4> QED BY <4>1
    <3>3. \A r \in C : done.keys[r].pk = added[r].pk
      BY <2>2, <3>1, <3>2, OtherEditsKeepPk
    <3> QED BY <2>2, <3>3 DEF PkKept
  <2> QED BY <2>3, <2>4, <2>5
<1>4. CASE row.type \notin {"PRIMARY KEY", "UNIQUE", "FOREIGN KEY"}
  <2>1. done.keys = ks
    BY <1>4 DEF ProcessConstraint
  <2> QED BY <2>1 DEF PkKept
<1> QED BY <1>1, <1>2, <1>3, <1>4

\* The key of a table whose columns have been read begins with them.
LEMMA KeyIsBuilt ==
  ASSUME NEW t, NEW n \in Nat, NEW order, ByPosition(t, KeyAmong(t, n), order),
         NEW pk, pk = [i \in DOMAIN order |-> db.columns[t][order[i]].name]
  PROVE  /\ pk \in Seq({db.columns[t][c].name : c \in 1..n}) /\ PkBegins(t, pk, n)
<1> PICK K : K = KeyAmong(t, n)
  OBVIOUS
<1> PICK k : k = Cardinality(K)
  OBVIOUS
<1>1. k \in Nat
  BY KeyAmongFinite
<1>2. order \in [1..k -> K]
  BY DEF ByPosition, Bijection, Injection
<1>3. K \subseteq 1..n
  BY DEF KeyAmong
<1> PICK S : S = {db.columns[t][c].name : c \in 1..n}
  OBVIOUS
<1>4. pk = [i \in 1..k |-> db.columns[t][order[i]].name] /\ \A i \in 1..k : pk[i] = db.columns[t][order[i]].name
  BY <1>2
<1>7. pk \in [1..k -> S]
  BY <1>2, <1>3, <1>4
<1>5. pk \in Seq(S) /\ Len(pk) = k
  BY ONLY <1>1, <1>7
<1>6. BeginsWith(t, k, order, pk)
  BY <1>1, <1>4, <1>5 DEF BeginsWith
<1> QED BY <1>5, <1>6 DEF PkBegins

\* Where the invariant of the keys is kept: a table's key, and the readers of columns.
LEMMA KeysKept ==
  ASSUME KeysInv, UNCHANGED db, late' \in BOOLEAN, KeysTyped(keys'), Agree(keys', ListedTables),
         \A t \in AllTables : columns'[t].state \in Over => PkBegins(t, keys'[t].pk, columns'[t].read)
  PROVE  KeysInv'
<1>1. AllTables' = AllTables /\ ListedTables' = ListedTables
  BY DEF AllTables, ListedTables
<1>2. TableNames' = TableNames /\ TableRefs' = TableRefs
  BY <1>1 DEF TableNames, TableRefs, RowsIn, Elements
<1>3. KeysTyped(keys)'
  BY <1>1, <1>2 DEF KeysTyped
<1>4. Over' = Over
  BY DEF Over
<1>5. ASSUME NEW t \in AllTables, columns'[t].state \in Over PROVE PkBegins(t, keys[t].pk, columns[t].read)'
  <2>1. PkBegins(t, keys'[t].pk, columns'[t].read) /\ db' = db
    BY <1>5
  <2> QED BY ONLY <2>1 DEF PkBegins, KeyAmong, ByPosition, BeginsWith
<1>6. Agree(keys, ListedTables)'
  BY <1>1
<1>7. \A t \in AllTables' : columns'[t].state \in Over' => PkBegins(t, keys[t].pk, columns[t].read)'
  BY ONLY <1>1, <1>4, <1>5
<1> QED BY ONLY <1>3, <1>6, <1>7, late' \in BOOLEAN DEF KeysInv

LEMMA KeysStay ==
  ASSUME KeysInv, UNCHANGED <<db, keys>>, late' \in BOOLEAN,
         \A t \in AllTables : columns'[t].state \in Over =>
           columns[t].state \in Over /\ columns'[t].read = columns[t].read
  PROVE  KeysInv'
<1>1. KeysTyped(keys') /\ Agree(keys', ListedTables)
  BY DEF KeysInv
<1>2. \A t \in AllTables : columns'[t].state \in Over => PkBegins(t, keys'[t].pk, columns'[t].read)
  BY DEF KeysInv
<1> QED BY <1>1, <1>2, KeysKept

LEMMA NoKeyBegins ==
  ASSUME NEW t, NEW n, KeyAmong(t, n) = {}, NEW N, NEW pk \in Seq(N)
  PROVE  PkBegins(t, pk, n)
<1>1. Cardinality(KeyAmong(t, n)) = 0
  BY FS_EmptySet
<1>2. <<>> \in Bijection(1..0, {})
  BY DEF Bijection, Injection, Surjection, IsInjective
<1>3. ByPosition(t, KeyAmong(t, n), <<>>)
  BY <1>1, <1>2 DEF ByPosition
<1>4. BeginsWith(t, 0, <<>>, pk)
  BY DEF BeginsWith
<1> QED BY <1>1, <1>3, <1>4 DEF PkBegins

LEMMA KeysInit == TableScanInit => KeysInv
<1> SUFFICES ASSUME TableScanInit PROVE KeysInv
  OBVIOUS
<1>1. /\ late = FALSE /\ keys = [t \in AllTables |-> EmptyKeys]
      /\ \A t \in AllTables : columns[t].state = "reading"
  BY DEF TableScanInit
<1>2. EmptyKeys \in Keys(TableNames, TableRefs)
  BY DEF EmptyKeys, Keys
<1>3. KeysTyped(keys)
  BY <1>1, <1>2 DEF KeysTyped
<1>4. Agree(keys, ListedTables)
  BY <1>1, EmptyKeysAgree
<1> QED BY <1>1, <1>3, <1>4 DEF KeysInv, Over

\* The reader of a table's columns is at work or has read n of them.
LEMMA ColumnsStepKeepsKeys ==
  ASSUME TableInv, KeysInv, NEW t \in AllTables, ColumnsStep(t)
  PROVE  KeysInv'
<1>1. /\ db \in TableDatabases /\ TableColumns(columns) /\ columns[t].read <= Len(db.columns[t])
      /\ columns[t].state = "reading" /\ UNCHANGED <<db, late>> /\ late' \in BOOLEAN
  BY DEF TableInv, KeysInv, ColumnRowsRead, ColumnsStep, ReadColumn, ColumnsEnd
<1> PICK n : n = columns[t].read
  OBVIOUS
<1>2. n \in Nat
  BY <1>1 DEF TableColumns, Reader
<1>3. CASE ReadColumn(t)
  <2>1. UNCHANGED keys /\ columns' = [columns EXCEPT ![t].read = @ + 1]
    BY <1>3 DEF ReadColumn
  <2>2. \A u \in AllTables : columns'[u].state \in Over =>
          columns[u].state \in Over /\ columns'[u].read = columns[u].read
    BY <1>1, <2>1 DEF TableColumns, Reader, Over
  <2> QED BY <1>1, <2>1, <2>2, KeysStay
<1>4. CASE ColumnsEnd(t)
  <2>1. /\ \A u \in AllTables : u # t => columns'[u] = columns[u]
        /\ columns'[t].read = n
    BY <1>1, <1>4 DEF ColumnsEnd, TableColumns, Reader
  <2>2. KeyColumns(t) = KeyAmong(t, n)
    BY DEF KeyColumns, KeyAmong
  <2>3. KeysTyped(keys) /\ Agree(keys, ListedTables)
    BY DEF KeysInv
  <2>4. keys[t] \in Keys(TableNames, TableRefs)
    BY <2>3 DEF KeysTyped
  <2>5. CASE KeyColumns(t) = {}
    <3>1. keys' = keys
      BY <1>4, <2>5 DEF ColumnsEnd
    <3>2. keys[t].pk \in Seq(TableNames)
      BY <2>4 DEF Keys
    <3>3. PkBegins(t, keys[t].pk, n)
      BY <2>2, <2>5, <3>2, NoKeyBegins
    <3>4. \A u \in AllTables : columns'[u].state \in Over => PkBegins(u, keys'[u].pk, columns'[u].read)
      BY <2>1, <3>1, <3>3 DEF KeysInv
    <3>5. KeysTyped(keys') /\ Agree(keys', ListedTables)
      BY <2>3, <3>1
    <3> QED BY <1>1, <3>4, <3>5, KeysKept
  <2>6. CASE KeyColumns(t) # {}
    <3>1. PICK order \in KeyOrders(t) :
            keys' = [keys EXCEPT ![t].pk = [i \in DOMAIN order |-> db.columns[t][order[i]].name]]
      BY <1>4, <2>6 DEF ColumnsEnd
    <3> PICK pk : pk = [i \in DOMAIN order |-> db.columns[t][order[i]].name]
      OBVIOUS
    <3> PICK new : new = keys'
      OBVIOUS
    <3>2. new = SetPk(keys, t, pk)
      BY <3>1 DEF SetPk
    <3>3. ByPosition(t, KeyAmong(t, n), order)
      BY <2>2 DEF KeyOrders, Orders, ByPosition, Bijection, Injection
    <3>4. pk \in Seq({db.columns[t][c].name : c \in 1..n}) /\ PkBegins(t, pk, n)
      BY <1>2, <3>3, KeyIsBuilt
    <3>5. {db.columns[t][c].name : c \in 1..n} \subseteq TableNames
      <4>1. DOMAIN db.columns[t] = 1..Len(db.columns[t]) /\ Len(db.columns[t]) \in Nat
        BY <1>1, TablesAreListed
      <4>2. \A c \in 1..n : db.columns[t][c] \in Elements(db.columns[t])
        BY <1>1, <1>2, <4>1 DEF Elements
      <4> QED BY <4>2 DEF TableNames
    <3>6. pk \in Seq(TableNames)
      BY <3>4, <3>5
    <3>7. keys \in [AllTables -> Keys(TableNames, TableRefs)] /\ t \in AllTables
      BY <2>3 DEF KeysTyped
    <3>8. \E q \in Seq(TableNames) : new = SetPk(keys, t, q)
      BY <3>2, <3>6
    <3>9. /\ new \in [AllTables -> Keys(TableNames, TableRefs)]
          /\ \A r \in AllTables : new[r].foreign = keys[r].foreign /\ new[r].referencedBy = keys[r].referencedBy
      BY ONLY <3>7, <3>8, OtherEdit
    <3>10. Agree(new, ListedTables)
      BY <2>3, <3>7, <3>9, OtherListsDoNotMatter
    <3>11. new[t].pk = pk /\ \A r \in AllTables : r # t => new[r] = keys[r]
      BY ONLY <3>2, <3>7, PkEdit
    <3>12. \A u \in AllTables : columns'[u].state \in Over => PkBegins(u, new[u].pk, columns'[u].read)
      BY <2>1, <3>4, <3>11 DEF KeysInv
    <3>13. KeysTyped(keys') /\ Agree(keys', ListedTables)
      BY <3>9, <3>10 DEF KeysTyped
    <3> QED BY <1>1, <3>12, <3>13, KeysKept
  <2> QED BY <2>5, <2>6
<1> QED BY <1>3, <1>4 DEF ColumnsStep

LEMMA ReadConstraintKeepsKeys ==
  ASSUME TableInv, KeysInv, ReadConstraint
  PROVE  KeysInv'
<1>1. /\ db \in TableDatabases /\ at \in [table : 0..Len(ListedTables) + 1, row : Nat]
      /\ UNCHANGED <<db, late, columns>> /\ late' \in BOOLEAN
      /\ at.table \in 1..Len(ListedTables) /\ at.row < Len(Rows)
  BY DEF TableInv, KeysInv, ReadConstraint, InConstraints
<1> PICK t : t = ListedTables[at.table]
  OBVIOUS
<1> PICK row : row = Rows[at.row + 1]
  OBVIOUS
<1> PICK done : done = ProcessConstraint(keys, ListedTables, t, row)
  OBVIOUS
<1>2. keys' = done.keys
  BY DEF ReadConstraint
<1>3. t \in AllTables /\ Len(ListedTables) \in Nat /\ \A j \in 1..Len(ListedTables) : ListedTables[j] \in AllTables
  BY <1>1, TableLists DEF AllTables
<1>4. row \in RowsIn(t) /\ row.table = t
  <2>1. /\ DOMAIN db.constraints[t] = 1..Len(db.constraints[t]) /\ Len(db.constraints[t]) \in Nat
        /\ \A i \in DOMAIN db.constraints[t] : db.constraints[t][i].table = t
    BY <1>1, <1>3, TablesAreListed
  <2>2. at.row \in Nat /\ Rows = db.constraints[t]
    BY <1>1 DEF Rows
  <2>3. at.row + 1 \in DOMAIN db.constraints[t]
    BY <1>1, <2>1, <2>2
  <2> QED BY <2>1, <2>2, <2>3 DEF RowsIn, Elements
<1>5. ConstraintOf(row, t, TableNames, TableRefs) /\ t \in TableRefs
  <2>1. row.name \in TableNames /\ row.column \in TableNames
    BY <1>3, <1>4 DEF TableNames
  <2>2. row.ref \in TableRefs /\ t \in TableRefs
    BY <1>3, <1>4 DEF TableRefs
  <2> QED BY <1>4, <2>1, <2>2 DEF ConstraintOf
<1>6. keys \in [AllTables -> Keys(TableNames, TableRefs)] /\ Agree(keys, ListedTables)
  BY DEF KeysInv, KeysTyped
<1>7. done = ProcessConstraint(keys, ListedTables, t, row) /\ row.column \in TableNames
  BY <1>5 DEF ConstraintOf
<1>8. done.keys \in [AllTables -> Keys(TableNames, TableRefs)]
  BY ONLY <1>3, <1>5, <1>6, <1>7, ConstraintKeeps
<1>9. Agree(done.keys, ListedTables)
  BY ONLY <1>3, <1>5, <1>6, <1>7, ConstraintKeeps
<1>10. PkKept(AllTables, keys, done.keys, t, TableNames)
  BY ONLY <1>3, <1>6, <1>7, ConstraintKeepsPk
<1>11. ASSUME NEW u \in AllTables, columns'[u].state \in Over PROVE PkBegins(u, keys'[u].pk, columns'[u].read)
  <2> PICK pk : pk = keys[u].pk
    OBVIOUS
  <2> PICK new : new = keys'[u].pk
    OBVIOUS
  <2> PICK n : n = columns[u].read
    OBVIOUS
  <2>1. PkBegins(u, pk, n)
    BY <1>1, <1>11 DEF KeysInv
  <2>2. n \in Nat
    BY DEF TableInv, TableColumns, Reader
  <2>3. pk \in Seq(TableNames)
    BY <1>6 DEF Keys
  <2>4. new = pk \/ \E x \in TableNames : new = Append(pk, x)
    BY <1>2, <1>10 DEF PkKept
  <2>5. PkBegins(u, new, n)
    BY <2>1, <2>2, <2>3, <2>4, LongerKeyBegins
  <2> QED BY <1>1, <2>5
<1>12. KeysTyped(keys') /\ Agree(keys', ListedTables)
  BY <1>2, <1>8, <1>9 DEF KeysTyped
<1> QED BY <1>1, <1>11, <1>12, KeysKept

LEMMA KeysStep ==
  ASSUME TableInv, KeysInv, [TableScanNext]_tableScanVars
  PROVE  KeysInv'
<1>1. CASE UNCHANGED <<db, keys, columns>> /\ late' \in {late, TRUE}
  <2>1. late' \in BOOLEAN
    BY <1>1 DEF KeysInv
  <2> QED BY <1>1, <2>1, KeysStay
<1>2. CASE \E t \in AllTables : ColumnsStep(t)
  BY <1>2, ColumnsStepKeepsKeys
<1>3. CASE ReadConstraint
  BY <1>3, ReadConstraintKeepsKeys
<1>4. ASSUME NEW t \in AllTables, IndexesStep(t) \/ \E i \in IndexesOf(t) : IndexColumnsStep(t, i)
      PROVE  UNCHANGED <<db, keys, columns, late>>
  BY <1>4 DEF IndexesStep, ReadIndex, IndexesRead, NestedRunReturns, IndexColumnsStep, ReadIndexColumn, IndexColumnsEnd
<1>5. CASE OuterRunReturns \/ NextTable \/ ConstraintsFail \/ Succeed
  <2>1. UNCHANGED <<db, keys, columns, late>>
    BY <1>5 DEF OuterRunReturns, NextTable, ConstraintsFail, Succeed
  <2> QED BY <1>1, <2>1
<1>6. CASE TimeRunsOut
  BY <1>1, <1>6 DEF TimeRunsOut
<1>7. CASE UNCHANGED tableScanVars
  BY <1>1, <1>7 DEF tableScanVars
<1> QED BY <1>1, <1>2, <1>3, <1>4, <1>5, <1>6, <1>7 DEF TableScanNext, ScannerStep, ScanReturned

\* The position of a column is that of its place.
LEMMA PositionOfPlace ==
  ASSUME db \in TableDatabases, NEW t \in AllTables, NEW c \in DOMAIN db.columns[t]
  PROVE  Position(t, db.columns[t][c].name) = db.columns[t][c].pk
<1> PICK all : all = {db.columns[t][i] : i \in DOMAIN db.columns[t]}
  OBVIOUS
<1>1. IsTable(db.columns[t])
  BY TablesAreListed
<1>2. \A i \in DOMAIN db.columns[t] : db.columns[t][i].name = db.columns[t][c].name => i = c
  BY <1>1 DEF IsTable
<1>3. \A x \in all : x.name = db.columns[t][c].name => x = db.columns[t][c]
  BY <1>2
<1>4. db.columns[t][c] \in all
  OBVIOUS
<1>5. (CHOOSE x \in all : x.name = db.columns[t][c].name) = db.columns[t][c]
  BY <1>3, <1>4
<1> QED BY <1>5 DEF Position

LEMMA BeginningIsOrdered ==
  ASSUME db \in TableDatabases, NEW t \in AllTables, NEW n \in Nat, n <= Len(db.columns[t]),
         NEW pk, PkBegins(t, pk, n), NEW k, k = Cardinality(KeyAmong(t, n))
  PROVE  /\ Len(pk) >= k
         /\ {pk[i] : i \in 1..k} = {db.columns[t][c].name : c \in KeyAmong(t, n)}
         /\ \A i, j \in 1..k : i < j => Position(t, pk[i]) < Position(t, pk[j])
<1> PICK K : K = KeyAmong(t, n)
  OBVIOUS
<1>1. PICK order : ByPosition(t, K, order) /\ BeginsWith(t, k, order, pk)
  BY DEF PkBegins
<1>2. k \in Nat
  BY KeyAmongFinite
<1>3. /\ order \in [1..k -> K] /\ \A c \in K : \E i \in 1..k : order[i] = c
      /\ \A i, j \in 1..k : order[i] = order[j] => i = j
  BY <1>1 DEF ByPosition, Bijection, Injection, Surjection, IsInjective
<1>4. Len(pk) >= k /\ \A i \in 1..k : pk[i] = db.columns[t][order[i]].name
  BY <1>1, <1>2 DEF BeginsWith
<1>5. {pk[i] : i \in 1..k} = {db.columns[t][c].name : c \in K}
  BY <1>3, <1>4
<1>6. IsTable(db.columns[t]) /\ DOMAIN db.columns[t] = 1..Len(db.columns[t]) /\ Len(db.columns[t]) \in Nat
  BY TablesAreListed
<1>7. \A c \in K : c \in DOMAIN db.columns[t] /\ db.columns[t][c].pk \in Nat /\ db.columns[t][c].pk > 0
  BY <1>6 DEF KeyAmong, IsTable
<1>8. ASSUME NEW i \in 1..k, NEW j \in 1..k, i < j PROVE Position(t, pk[i]) < Position(t, pk[j])
  <2> PICK a \in K, b \in K : a = order[i] /\ b = order[j]
    BY <1>3
  <2>1. a # b
    BY <1>3, <1>8
  <2>2. db.columns[t][a].pk <= db.columns[t][b].pk
    BY <1>1, <1>8 DEF ByPosition
  <2>3. db.columns[t][a].pk # db.columns[t][b].pk
    <3>1. a \in DOMAIN db.columns[t] /\ b \in DOMAIN db.columns[t] /\ db.columns[t][a].pk > 0
      BY <1>7
    <3>2. db.columns[t][a].pk = db.columns[t][b].pk => db.columns[t][a].pk = 0
      BY ONLY <1>6, <2>1, <3>1 DEF IsTable
    <3> QED BY ONLY <3>1, <3>2
  <2>4. Position(t, pk[i]) = db.columns[t][a].pk /\ Position(t, pk[j]) = db.columns[t][b].pk
    BY <1>4, <1>7, PositionOfPlace
  <2> QED BY <1>7, <2>2, <2>3, <2>4
<1> QED BY <1>4, <1>5, <1>8

\* The type invariant and the inductive invariant of a scan table by table: what has ended has read
\* all its rows and has everything below it ended, keys are made of names and tables of the catalog
\* and agree with what the tables they refer to know, and those of tables whose columns have been
\* read begin with the columns' positions.
THEOREM TableScanInvariance == TableScanSpec => [](TableScanTypeOK /\ TableInv /\ KeysInv)
<1>1. TableScanInit => TableInv /\ KeysInv
  BY TableInit, KeysInit
<1>2. TableInv /\ KeysInv /\ [TableScanNext]_tableScanVars => TableInv' /\ KeysInv'
  BY TableStep, KeysStep
<1>3. TableInv /\ KeysInv => TableScanTypeOK
  <2> SUFFICES ASSUME TableInv, KeysInv PROVE TableScanTypeOK
    OBVIOUS
  <2>1. TableColumns(columns) /\ TableIndexes(indexes)
    BY DEF TableInv
  <2>2. /\ columns \in [AllTables -> [state : {"reading"} \cup Over, read : Nat]]
        /\ indexes \in [AllTables -> [state : {"reading", "columns"} \cup Over, read : Nat]]
    BY <2>1 DEF TableColumns, TableIndexes, Reader, Over
  <2>3. ASSUME NEW t \in AllTables
        PROVE  /\ columns[t].read <= Len(db.columns[t]) /\ indexes[t].read <= Len(db.indexes[t])
               /\ indexColumns[t] \in [IndexesOf(t) -> [state : {"idle", "reading"} \cup Over, read : Nat]]
               /\ \A i \in IndexesOf(t) : indexColumns[t][i].read <= Len(db.indexColumns[t][i])
    <3>1. /\ indexColumns[t] \in ColumnReaders(t) /\ ColumnRowsRead(t, columns[t])
          /\ IndexRowsRead(t, indexes[t]) /\ IndexColumnRowsRead(t, indexColumns[t])
      BY DEF TableInv
    <3>2. {"idle", "reading", "end", "failed"} = {"idle", "reading"} \cup Over
      BY DEF Over
    <3> QED BY <3>1, <3>2 DEF ColumnReaders, Reader, ColumnRowsRead, IndexRowsRead, IndexColumnRowsRead
  <2>4. late \in BOOLEAN /\ DOMAIN keys = AllTables
    BY DEF KeysInv, KeysTyped
  <2>5. at \in [table : 0..Len(ListedTables) + 1, row : Nat] /\ result \in {"none", "nil", "failure"}
    BY DEF TableInv
  <2> QED BY <2>2, <2>3, <2>4, <2>5 DEF TableScanTypeOK
<1> QED BY <1>1, <1>2, <1>3, PTL DEF TableScanSpec

\* The primary key of a table begins with its key columns by position, from the columns that were
\* read, after an error too, and whatever the constraint rows add comes behind.
THEOREM KeysAreInOrder == TableScanSpec => []PrimaryKeyOrdered
<1>1. ASSUME TableInv, KeysInv PROVE PrimaryKeyOrdered
  <2> SUFFICES ASSUME NEW t \in AllTables, columns[t].state \in Over
               PROVE
    LET own == {c \in 1..columns[t].read : db.columns[t][c].pk > 0}
        pk == keys[t].pk
    IN  /\ Len(pk) >= Cardinality(own)
        /\ {pk[i] : i \in 1..Cardinality(own)} = {db.columns[t][c].name : c \in own}
        /\ \A i, j \in 1..Cardinality(own) : i < j => Position(t, pk[i]) < Position(t, pk[j])
    BY DEF PrimaryKeyOrdered
  <2> PICK n : n = columns[t].read
    OBVIOUS
  <2> PICK pk : pk = keys[t].pk
    OBVIOUS
  <2> PICK k : k = Cardinality(KeyAmong(t, n))
    OBVIOUS
  <2>1. db \in TableDatabases /\ n \in Nat /\ n <= Len(db.columns[t]) /\ t \in AllTables
    BY <1>1 DEF TableInv, TableColumns, Reader, ColumnRowsRead
  <2>2. PkBegins(t, pk, n)
    BY <1>1 DEF KeysInv
  <2>3. k = Cardinality(KeyAmong(t, n))
    OBVIOUS
  <2>4. Len(pk) >= k /\ {pk[i] : i \in 1..k} = {db.columns[t][c].name : c \in KeyAmong(t, n)}
    BY ONLY <2>1, <2>2, <2>3, BeginningIsOrdered
  <2>5. \A i, j \in 1..k : i < j => Position(t, pk[i]) < Position(t, pk[j])
    BY ONLY <2>1, <2>2, <2>3, BeginningIsOrdered
  <2>6. KeyAmong(t, n) = {c \in 1..columns[t].read : db.columns[t][c].pk > 0}
    BY DEF KeyAmong
  <2> QED BY <2>4, <2>5, <2>6
<1> QED BY <1>1, TableScanInvariance, PTL

\* In a scan table by table, too, the foreign keys and the ReferencedBy of the tables they refer to
\* agree at every moment, after an error too.
THEOREM TableMirrorsAgree == TableScanSpec => []Mirrored(keys, ListedTables)
<1>1. KeysInv => Mirrored(keys, ListedTables)
  BY AgreeIsMirrored DEF KeysInv
<1> QED BY <1>1, TableScanInvariance, PTL

-----------------------------------------------------------------------------
\* Why the scan table by table ends: what it has still to do

\* The rows that each reader is still to be asked for, the one that it answers with io.EOF
\* included; one step more of the indexes of a table for the run below them.
ColumnSteps ==
  {p \in AllTables \X Nat :
     columns[p[1]].state = "reading" /\ p[2] \in columns[p[1]].read..Len(db.columns[p[1]])}
IndexSteps ==
  {p \in AllTables \X Nat :
     \/ indexes[p[1]].state = "reading" /\ p[2] \in indexes[p[1]].read..Len(db.indexes[p[1]]) + 1
     \/ indexes[p[1]].state = "columns" /\ p[2] = Len(db.indexes[p[1]]) + 1}
IndexColumnSteps ==
  {p \in (AllTables \X Nat) \X Nat :
     LET t == p[1][1]
         i == p[1][2]
     IN  /\ i \in IndexesOf(t) /\ indexColumns[t][i].state \in {"idle", "reading"}
         /\ p[2] \in indexColumns[t][i].read..Len(db.indexColumns[t][i])}

\* The places that the loop over the constraints is still to come to, from the one before it.
RowsAt(k) == IF k \in 1..Len(ListedTables) THEN Len(db.constraints[ListedTables[k]]) ELSE 0
ConstraintSteps ==
  {p \in (0..Len(ListedTables)) \X Nat :
     p[2] <= RowsAt(p[1]) /\ (p[1] > at.table \/ (p[1] = at.table /\ p[2] >= at.row))}
TableStepsAhead ==
  Cardinality(ColumnSteps) + Cardinality(IndexSteps) + Cardinality(IndexColumnSteps)
    + Cardinality(ConstraintSteps) + (IF late THEN 0 ELSE 1) + (IF result = "none" THEN 1 ELSE 0)

\* Every step but the stutter after the return leaves less to do.
TableStepsRunOut == [][TableStepsAhead' < TableStepsAhead]_tableScanVars

\* The guards of the steps of a table's workers and of the scanner; that a reader answers is
\* up to the provider.
TableCanGo(t) ==
  \/ columns[t].state = "reading"
  \/ indexes[t].state = "reading"
  \/ indexes[t].state = "columns" /\ \A i \in IndexesOf(t) : indexColumns[t][i].state \in Over
  \/ \E i \in IndexesOf(t) : indexColumns[t][i].state = "reading"
ScannerCanGo ==
  \/ at.table = 0 /\ \A t \in AllTables : columns[t].state \in Over /\ indexes[t].state \in Over
  \/ InConstraints /\ at.row <= Len(Rows)
  \/ at.table = Len(ListedTables) + 1
TableScanNeverStuck == result = "none" => ScannerCanGo \/ \E t \in AllTables : TableCanGo(t)

\* The readers of the index columns start with the run that waits for them, and the loop over
\* the constraints stops at the last of a table.
Started ==
  /\ \A t \in AllTables : \A i \in IndexesOf(t) :
       /\ indexes[t].state = "reading" => indexColumns[t][i].state = "idle"
       /\ indexes[t].state = "columns" => indexColumns[t][i].state # "idle"
  /\ at.row <= RowsAt(at.table)

LEMMA ProperPart ==
  ASSUME NEW S, IsFiniteSet(S), NEW T, T \subseteq S
  PROVE  /\ IsFiniteSet(T)
         /\ Cardinality(T) \in Nat /\ Cardinality(S) \in Nat
         /\ Cardinality(T) <= Cardinality(S)
         /\ T # S => Cardinality(T) < Cardinality(S)
<1>1. /\ IsFiniteSet(T) /\ Cardinality(T) <= Cardinality(S)
      /\ Cardinality(S) = Cardinality(T) => S = T
  BY FS_Subset
<1>2. Cardinality(T) \in Nat /\ Cardinality(S) \in Nat
  BY <1>1, FS_CardinalityType
<1> QED BY <1>1, <1>2

\* The union of finite sets, as many as a finite set has elements.
LEMMA FiniteUnion ==
  ASSUME NEW S, IsFiniteSet(S), NEW f, \A x \in S : IsFiniteSet(f[x])
  PROVE  IsFiniteSet(UNION {f[x] : x \in S})
<1> DEFINE T == {f[x] : x \in S}
           g == [x \in S |-> f[x]]
<1>1. g \in Surjection(S, T)
  BY DEF Surjection
<1> HIDE DEF g
<1>2. IsFiniteSet(T)
  BY <1>1, FS_Surjection
<1> QED BY <1>2, FS_UNION

LEMMA ListIsFinite ==
  ASSUME NEW list, Len(list) \in Nat
  PROVE  IsFiniteSet({list[i] : i \in 1..Len(list)})
<1> DEFINE T == {list[i] : i \in 1..Len(list)}
           g == [i \in 1..Len(list) |-> list[i]]
<1>1. g \in Surjection(1..Len(list), T)
  BY DEF Surjection
<1> HIDE DEF g
<1>2. IsFiniteSet(1..Len(list))
  BY FS_Interval
<1> QED BY <1>1, <1>2, FS_Surjection

\* Pairs whose second halves have a bound of their own for each of the first.
LEMMA FinitePairs ==
  ASSUME NEW S, IsFiniteSet(S), NEW bound, \A x \in S : bound[x] \in Nat,
         NEW P, \A p \in P : p \in S \X Nat /\ p[2] <= bound[p[1]]
  PROVE  IsFiniteSet(P)
<1> DEFINE f == [x \in S |-> {x} \X (0..bound[x])]
<1>1. ASSUME NEW x \in S PROVE IsFiniteSet(f[x])
  <2>1. PICK n \in Nat : n = bound[x]
    OBVIOUS
  <2>2. IsFiniteSet(0..n)
    BY ONLY <2>1, FS_Interval, n \in Nat
  <2>4. IsFiniteSet({x})
    BY FS_Singleton
  <2>3. f[x] = {x} \X (0..n)
    BY <2>1
  <2> HIDE DEF f
  <2> QED BY <2>2, <2>3, <2>4, FS_Product
<1>2. \A p \in P : p \in f[p[1]] /\ p[1] \in S
  BY DEF f
<1> HIDE DEF f
<1>3. IsFiniteSet(UNION {f[x] : x \in S})
  BY <1>1, FiniteUnion
<1>4. P \in SUBSET UNION {f[x] : x \in S}
  BY <1>2
<1> QED BY <1>3, <1>4, FS_Subset

\* What the tables of the catalog hold, and the constraints of each.
LEMMA RowsHaveEnds ==
  ASSUME db \in TableDatabases
  PROVE  \A k : RowsAt(k) \in Nat
<1>1. IsTableCatalog(db)
  BY TableDatabasesAssumption
<1>2. DOMAIN db.tables = 1..Len(db.tables)
  BY <1>1 DEF IsTableCatalog, IsList
<1>3. \A k \in 1..Len(db.tables) : IsList(db.constraints[db.tables[k]])
  BY <1>1, <1>2 DEF IsTableCatalog
<1> QED BY <1>3 DEF RowsAt, ListedTables, IsList

LEMMA TableStepsFinite ==
  ASSUME TableInv
  PROVE  /\ IsFiniteSet(ColumnSteps) /\ IsFiniteSet(IndexSteps)
         /\ IsFiniteSet(IndexColumnSteps) /\ IsFiniteSet(ConstraintSteps)
         /\ TableStepsAhead \in Nat
<1>1. /\ Len(ListedTables) \in Nat
      /\ \A t \in AllTables :
           /\ Len(db.columns[t]) \in Nat /\ Len(db.indexes[t]) \in Nat
           /\ \A i \in IndexesOf(t) : Len(db.indexColumns[t][i]) \in Nat
  BY TableLists DEF TableInv
<1>2. IsFiniteSet(AllTables)
  BY <1>1, ListIsFinite DEF AllTables
<1>3. IsFiniteSet(ColumnSteps)
  <2> DEFINE bound == [t \in AllTables |-> Len(db.columns[t])]
  <2>1. \A t \in AllTables : bound[t] \in Nat
    BY <1>1
  <2>2. \A p \in ColumnSteps : p \in AllTables \X Nat /\ p[2] <= bound[p[1]]
    BY DEF ColumnSteps
  <2> HIDE DEF bound
  <2> QED BY <1>2, <2>1, <2>2, FinitePairs
<1>4. IsFiniteSet(IndexSteps)
  <2> DEFINE bound == [t \in AllTables |-> Len(db.indexes[t]) + 1]
  <2>1. \A t \in AllTables : bound[t] \in Nat
    BY <1>1
  <2>2. \A p \in IndexSteps : p \in AllTables \X Nat /\ p[2] <= bound[p[1]]
    BY <1>1 DEF IndexSteps
  <2> HIDE DEF bound
  <2> QED BY <1>2, <2>1, <2>2, FinitePairs
<1>5. IsFiniteSet(IndexColumnSteps)
  <2> DEFINE readers == {q \in AllTables \X Nat : q[2] \in IndexesOf(q[1])}
             many == [t \in AllTables |-> Len(db.indexes[t])]
             bound == [q \in readers |-> Len(db.indexColumns[q[1]][q[2]])]
  <2>1. IsFiniteSet(readers)
    <3>1. \A t \in AllTables : many[t] \in Nat
      BY <1>1
    <3>2. \A q \in readers : q \in AllTables \X Nat /\ q[2] <= many[q[1]]
      BY DEF IndexesOf
    <3> HIDE DEF readers, many
    <3> QED BY <1>2, <3>1, <3>2, FinitePairs
  <2>2. \A q \in readers : bound[q] \in Nat
    BY <1>1
  <2>3. \A p \in IndexColumnSteps : p \in readers \X Nat /\ p[2] <= bound[p[1]]
    <3> SUFFICES ASSUME NEW p \in IndexColumnSteps
                 PROVE  p \in readers \X Nat /\ p[2] <= bound[p[1]]
      OBVIOUS
    <3>1. /\ p \in (AllTables \X Nat) \X Nat /\ p[1][2] \in IndexesOf(p[1][1])
          /\ p[2] <= Len(db.indexColumns[p[1][1]][p[1][2]])
      BY DEF IndexColumnSteps
    <3>2. p[1] \in readers
      BY <3>1
    <3>3. p \in readers \X Nat
      BY <3>1, <3>2
    <3>4. bound[p[1]] = Len(db.indexColumns[p[1][1]][p[1][2]])
      BY <3>2
    <3> QED BY <3>1, <3>3, <3>4
  <2> HIDE DEF readers, bound
  <2> QED BY <2>1, <2>2, <2>3, FinitePairs
<1>6. IsFiniteSet(ConstraintSteps)
  <2> DEFINE places == 0..Len(ListedTables)
             bound == [k \in places |-> RowsAt(k)]
  <2>1. IsFiniteSet(places)
    BY <1>1, FS_Interval
  <2>2. \A k \in places : bound[k] \in Nat
    BY RowsHaveEnds DEF TableInv
  <2>3. \A p \in ConstraintSteps : p \in places \X Nat /\ p[2] <= bound[p[1]]
    BY DEF ConstraintSteps
  <2> HIDE DEF places, bound
  <2> QED BY <2>1, <2>2, <2>3, FinitePairs
<1>7. /\ Cardinality(ColumnSteps) \in Nat /\ Cardinality(IndexSteps) \in Nat
      /\ Cardinality(IndexColumnSteps) \in Nat /\ Cardinality(ConstraintSteps) \in Nat
  BY <1>3, <1>4, <1>5, <1>6, FS_CardinalityType
<1> QED BY <1>3, <1>4, <1>5, <1>6, <1>7 DEF TableStepsAhead

\* No part of what is ahead grows, and one of them shrinks: there is less to do.
LEMMA TableLessAhead ==
  ASSUME TableInv,
         ColumnSteps' \subseteq ColumnSteps, IndexSteps' \subseteq IndexSteps,
         IndexColumnSteps' \subseteq IndexColumnSteps, ConstraintSteps' \subseteq ConstraintSteps,
         late => late', result # "none" => result' # "none",
         \/ ColumnSteps' # ColumnSteps \/ IndexSteps' # IndexSteps
         \/ IndexColumnSteps' # IndexColumnSteps \/ ConstraintSteps' # ConstraintSteps
         \/ (~late /\ late') \/ (result = "none" /\ result' # "none")
  PROVE  TableStepsAhead' < TableStepsAhead
<1>1. /\ Cardinality(ColumnSteps') \in Nat /\ Cardinality(ColumnSteps) \in Nat
      /\ Cardinality(ColumnSteps') <= Cardinality(ColumnSteps)
      /\ ColumnSteps' # ColumnSteps => Cardinality(ColumnSteps') < Cardinality(ColumnSteps)
  BY TableStepsFinite, ProperPart
<1>2. /\ Cardinality(IndexSteps') \in Nat /\ Cardinality(IndexSteps) \in Nat
      /\ Cardinality(IndexSteps') <= Cardinality(IndexSteps)
      /\ IndexSteps' # IndexSteps => Cardinality(IndexSteps') < Cardinality(IndexSteps)
  BY TableStepsFinite, ProperPart
<1>3. /\ Cardinality(IndexColumnSteps') \in Nat /\ Cardinality(IndexColumnSteps) \in Nat
      /\ Cardinality(IndexColumnSteps') <= Cardinality(IndexColumnSteps)
      /\ IndexColumnSteps' # IndexColumnSteps =>
           Cardinality(IndexColumnSteps') < Cardinality(IndexColumnSteps)
  BY TableStepsFinite, ProperPart
<1>4. /\ Cardinality(ConstraintSteps') \in Nat /\ Cardinality(ConstraintSteps) \in Nat
      /\ Cardinality(ConstraintSteps') <= Cardinality(ConstraintSteps)
      /\ ConstraintSteps' # ConstraintSteps =>
           Cardinality(ConstraintSteps') < Cardinality(ConstraintSteps)
  BY TableStepsFinite, ProperPart
<1>5. PICK a, b, c, d \in Nat : /\ a = Cardinality(ColumnSteps) /\ b = Cardinality(IndexSteps)
                                /\ c = Cardinality(IndexColumnSteps) /\ d = Cardinality(ConstraintSteps)
  BY <1>1, <1>2, <1>3, <1>4
<1>6. PICK p, q, r, s \in Nat : /\ p = Cardinality(ColumnSteps') /\ q = Cardinality(IndexSteps')
                                /\ r = Cardinality(IndexColumnSteps') /\ s = Cardinality(ConstraintSteps')
  BY <1>1, <1>2, <1>3, <1>4
<1>7. /\ p <= a /\ q <= b /\ r <= c /\ s <= d
      /\ p < a \/ q < b \/ r < c \/ s < d \/ (~late /\ late') \/ (result = "none" /\ result' # "none")
  BY <1>1, <1>2, <1>3, <1>4, <1>5, <1>6
<1>8. PICK m, n \in 0..1 : m = (IF late THEN 0 ELSE 1) /\ n = (IF result = "none" THEN 1 ELSE 0)
  OBVIOUS
<1>9. PICK u, v \in 0..1 : u = (IF late' THEN 0 ELSE 1) /\ v = (IF result' = "none" THEN 1 ELSE 0)
  OBVIOUS
<1>10. u <= m /\ v <= n /\ (~late /\ late' => u < m) /\ (result = "none" /\ result' # "none" => v < n)
  BY <1>8, <1>9
<1>11. p + q + r + s + u + v < a + b + c + d + m + n
  BY <1>7, <1>10
<1> QED BY <1>5, <1>6, <1>8, <1>9, <1>11 DEF TableStepsAhead

\* What the workers leave of the catalog.
LEMMA TablesStay ==
  ASSUME UNCHANGED db
  PROVE  /\ AllTables' = AllTables /\ ListedTables' = ListedTables
         /\ \A t : IndexesOf(t)' = IndexesOf(t)
BY DEF AllTables, ListedTables, IndexesOf

LEMMA SameConstraintSteps ==
  ASSUME UNCHANGED <<db, at>>
  PROVE  ConstraintSteps' = ConstraintSteps
BY TablesStay DEF ConstraintSteps, RowsAt

LEMMA ColumnsStepIsAhead ==
  ASSUME TableInv, NEW t \in AllTables, ColumnsStep(t)
  PROVE  TableStepsAhead' < TableStepsAhead
<1> PICK old : old = columns[t]
  OBVIOUS
<1>1. /\ TableColumns(columns) /\ ColumnRowsRead(t, old) /\ Len(db.columns[t]) \in Nat
      /\ old.read \in Nat /\ old.state = "reading"
  <2>1. db \in TableDatabases /\ TableColumns(columns) /\ ColumnRowsRead(t, old)
    BY DEF TableInv
  <2>2. Len(db.columns[t]) \in Nat
    BY <2>1, TableLists
  <2>3. old.read \in Nat
    BY <2>1 DEF TableColumns, Reader
  <2>4. old.state = "reading"
    BY DEF ColumnsStep, ReadColumn, ColumnsEnd
  <2> QED BY <2>1, <2>2, <2>3, <2>4
<1>2. PICK new : /\ columns' = [columns EXCEPT ![t] = new]
                 /\ new.state = "reading" => new.read = old.read + 1
  <2>1. CASE ReadColumn(t)
    <3>1. columns' = [columns EXCEPT ![t] = [old EXCEPT !.read = @ + 1]]
      BY <2>1 DEF ReadColumn
    <3>2. [old EXCEPT !.read = @ + 1].read = old.read + 1
      BY <1>1 DEF TableColumns, Reader
    <3> QED BY <3>1, <3>2
  <2>2. CASE ColumnsEnd(t)
    <3>1. PICK state \in Over : columns' = [columns EXCEPT ![t].state = state]
      BY <2>2 DEF ColumnsEnd
    <3>2. columns' = [columns EXCEPT ![t] = [old EXCEPT !.state = state]]
      BY <3>1
    <3>3. [old EXCEPT !.state = state].state # "reading"
      BY <1>1, <3>1 DEF Over, TableColumns, Reader
    <3> QED BY <3>2, <3>3
  <2> QED BY <2>1, <2>2 DEF ColumnsStep
<1>3. UNCHANGED <<db, late, indexes, indexColumns, at, result>>
  BY DEF ColumnsStep, ReadColumn, ColumnsEnd
<1>4. AllTables' = AllTables /\ \A u : IndexesOf(u)' = IndexesOf(u)
  BY <1>3, TablesStay
<1>5. columns'[t] = new /\ \A u \in AllTables : u # t => columns'[u] = columns[u]
  BY <1>1, <1>2 DEF TableColumns
<1>6. ColumnSteps' \subseteq ColumnSteps
  <2> SUFFICES ASSUME NEW p \in ColumnSteps'
               PROVE  p \in ColumnSteps
    OBVIOUS
  <2>1. /\ p \in AllTables \X Nat /\ columns'[p[1]].state = "reading"
        /\ p[2] \in columns'[p[1]].read..Len(db.columns[p[1]])
    BY <1>3, <1>4 DEF ColumnSteps
  <2>2. CASE p[1] = t
    BY <1>1, <1>2, <1>5, <2>1, <2>2 DEF ColumnSteps
  <2>3. CASE p[1] # t
    BY <1>5, <2>1, <2>3 DEF ColumnSteps
  <2> QED BY <2>2, <2>3
<1>7. <<t, old.read>> \in ColumnSteps
  BY <1>1 DEF ColumnSteps, ColumnRowsRead
<1>8. <<t, old.read>> \notin ColumnSteps'
  <2>1. ~(new.state = "reading" /\ old.read \in new.read..Len(db.columns[t]))
    BY <1>1, <1>2
  <2> QED BY <1>3, <1>5, <2>1 DEF ColumnSteps
<1>9. IndexSteps' = IndexSteps
  BY <1>3, <1>4 DEF IndexSteps
<1>10. IndexColumnSteps' = IndexColumnSteps
  BY <1>3, <1>4 DEF IndexColumnSteps
<1>11. ConstraintSteps' = ConstraintSteps
  BY <1>3, SameConstraintSteps
<1> QED BY <1>3, <1>6, <1>7, <1>8, <1>9, <1>10, <1>11, TableLessAhead

LEMMA IndexColumnsStepIsAhead ==
  ASSUME TableInv, NEW t \in AllTables, NEW i \in IndexesOf(t), IndexColumnsStep(t, i)
  PROVE  TableStepsAhead' < TableStepsAhead
<1> PICK old : old = indexColumns[t][i]
  OBVIOUS
<1>1. /\ OnTables(indexColumns) /\ \A u \in AllTables : indexColumns[u] \in ColumnReaders(u)
      /\ Len(db.indexColumns[t][i]) \in Nat /\ old.read <= Len(db.indexColumns[t][i])
      /\ old.read \in Nat /\ old.state = "reading" /\ i \in Nat
  <2>1. /\ db \in TableDatabases /\ OnTables(indexColumns)
        /\ \A u \in AllTables : indexColumns[u] \in ColumnReaders(u)
        /\ IndexColumnRowsRead(t, indexColumns[t])
    BY DEF TableInv
  <2>2. Len(db.indexColumns[t][i]) \in Nat
    BY <2>1, TableLists
  <2>3. old.read \in Nat /\ old.read <= Len(db.indexColumns[t][i])
    BY <2>1 DEF ColumnReaders, Reader, IndexColumnRowsRead
  <2>4. old.state = "reading"
    BY DEF IndexColumnsStep, ReadIndexColumn, IndexColumnsEnd
  <2>5. i \in Nat
    BY DEF IndexesOf
  <2> QED BY <2>1, <2>2, <2>3, <2>4, <2>5
<1>2. PICK new : /\ indexColumns' = [indexColumns EXCEPT ![t][i] = new]
                 /\ new.state \in {"idle", "reading"} => new.read = old.read + 1
  <2>0. old \in Reader({"idle", "reading", "end", "failed"})
    BY <1>1 DEF ColumnReaders
  <2>1. CASE ReadIndexColumn(t, i)
    <3>1. indexColumns' = [indexColumns EXCEPT ![t][i] = [old EXCEPT !.read = @ + 1]]
      BY <2>1 DEF ReadIndexColumn
    <3>2. [old EXCEPT !.read = @ + 1].read = old.read + 1
      BY <2>0 DEF Reader
    <3> QED BY <3>1, <3>2
  <2>2. CASE IndexColumnsEnd(t, i)
    <3>1. PICK state \in Over : indexColumns' = [indexColumns EXCEPT ![t][i].state = state]
      BY <2>2 DEF IndexColumnsEnd
    <3>2. indexColumns' = [indexColumns EXCEPT ![t][i] = [old EXCEPT !.state = state]]
      BY <3>1
    <3>3. [old EXCEPT !.state = state].state \notin {"idle", "reading"}
      BY <2>0, <3>1 DEF Over, Reader
    <3> QED BY <3>2, <3>3
  <2> QED BY <2>1, <2>2 DEF IndexColumnsStep
<1>3. UNCHANGED <<db, late, columns, indexes, at, result>>
  BY DEF IndexColumnsStep, ReadIndexColumn, IndexColumnsEnd
<1>4. AllTables' = AllTables /\ \A u : IndexesOf(u)' = IndexesOf(u)
  BY <1>3, TablesStay
<1>5. /\ indexColumns'[t][i] = new
      /\ \A u \in AllTables : \A j \in IndexesOf(u) :
           ~(u = t /\ j = i) => indexColumns'[u][j] = indexColumns[u][j]
  <2>1. t \in DOMAIN indexColumns /\ i \in DOMAIN indexColumns[t]
    BY <1>1 DEF OnTables, ColumnReaders
  <2>2. indexColumns'[t] = [indexColumns[t] EXCEPT ![i] = new]
    BY <1>2, <2>1
  <2>3. \A u \in AllTables : u # t => indexColumns'[u] = indexColumns[u]
    BY <1>1, <1>2 DEF OnTables
  <2>4. \A j \in IndexesOf(t) : j # i => indexColumns'[t][j] = indexColumns[t][j]
    BY <1>1, <2>2 DEF ColumnReaders
  <2>5. indexColumns'[t][i] = new
    BY <2>1, <2>2
  <2> QED BY <2>3, <2>4, <2>5
<1>6. IndexColumnSteps' \subseteq IndexColumnSteps
  <2> SUFFICES ASSUME NEW p \in IndexColumnSteps'
               PROVE  p \in IndexColumnSteps
    OBVIOUS
  <2> PICK u, j : u = p[1][1] /\ j = p[1][2]
    OBVIOUS
  <2>1. /\ p \in (AllTables \X Nat) \X Nat /\ j \in IndexesOf(u)
        /\ indexColumns'[u][j].state \in {"idle", "reading"}
        /\ p[2] \in indexColumns'[u][j].read..Len(db.indexColumns[u][j])
    BY <1>3, <1>4 DEF IndexColumnSteps
  <2>2. u \in AllTables
    BY <2>1
  <2>3. indexColumns[u][j].state \in {"idle", "reading"} /\ p[2] \in indexColumns[u][j].read..Len(db.indexColumns[u][j])
    <3>1. CASE u = t /\ j = i
      BY <1>1, <1>2, <1>5, <2>1, <3>1
    <3>2. CASE ~(u = t /\ j = i)
      BY <1>5, <2>1, <2>2, <3>2
    <3> QED BY <3>1, <3>2
  <2> QED BY <2>1, <2>3 DEF IndexColumnSteps
<1>7. <<<<t, i>>, old.read>> \in IndexColumnSteps
  BY <1>1 DEF IndexColumnSteps
<1>8. <<<<t, i>>, old.read>> \notin IndexColumnSteps'
  <2>1. ~(new.state \in {"idle", "reading"} /\ old.read \in new.read..Len(db.indexColumns[t][i]))
    BY <1>1, <1>2
  <2> QED BY <1>3, <1>5, <2>1 DEF IndexColumnSteps
<1>9. IndexSteps' = IndexSteps
  BY <1>3, <1>4 DEF IndexSteps
<1>10. ColumnSteps' = ColumnSteps
  BY <1>3, <1>4 DEF ColumnSteps
<1>11. ConstraintSteps' = ConstraintSteps
  BY <1>3, SameConstraintSteps
<1> QED BY <1>3, <1>6, <1>7, <1>8, <1>9, <1>10, <1>11, TableLessAhead

LEMMA IndexesStepIsAhead ==
  ASSUME TableInv, Started, NEW t \in AllTables, IndexesStep(t)
  PROVE  TableStepsAhead' < TableStepsAhead
<1> PICK old : old = indexes[t]
  OBVIOUS
<1> PICK n : n = Len(db.indexes[t])
  OBVIOUS
<1>1. /\ TableIndexes(indexes) /\ OnTables(indexColumns) /\ indexColumns[t] \in ColumnReaders(t)
      /\ n \in Nat /\ old.read \in Nat /\ old.read <= n /\ old.state \in {"reading", "columns"}
      /\ old \in Reader({"reading", "columns", "end", "failed"})
  <2>1. /\ db \in TableDatabases /\ TableIndexes(indexes) /\ IndexRowsRead(t, old)
        /\ OnTables(indexColumns) /\ indexColumns[t] \in ColumnReaders(t)
    BY DEF TableInv
  <2>2. n \in Nat
    BY <2>1, TableLists
  <2>3. old \in Reader({"reading", "columns", "end", "failed"})
    BY <2>1 DEF TableIndexes
  <2>4. old.state \in {"reading", "columns"}
    BY DEF IndexesStep, ReadIndex, IndexesRead, NestedRunReturns
  <2> QED BY <2>1, <2>2, <2>3, <2>4 DEF IndexRowsRead, Reader
<1>2. UNCHANGED <<db, late, columns, at, result>>
  BY DEF IndexesStep, ReadIndex, IndexesRead, NestedRunReturns
<1>3. AllTables' = AllTables /\ \A u : IndexesOf(u)' = IndexesOf(u)
  BY <1>2, TablesStay
<1>4. PICK new : /\ indexes' = [indexes EXCEPT ![t] = new]
                 /\ \/ old.state = "reading" /\ new.state = "reading" /\ new.read = old.read + 1
                    \/ old.state = "reading" /\ new.state \in {"columns", "failed"}
                    \/ old.state = "columns" /\ new.state \in Over
  <2>1. CASE ReadIndex(t)
    <3>1. indexes' = [indexes EXCEPT ![t] = [old EXCEPT !.read = @ + 1]] /\ old.state = "reading"
      BY <2>1 DEF ReadIndex
    <3>2. [old EXCEPT !.read = @ + 1].read = old.read + 1 /\ [old EXCEPT !.read = @ + 1].state = "reading"
      BY <1>1, <3>1 DEF Reader
    <3> QED BY <3>1, <3>2
  <2>2. CASE IndexesRead(t)
    <3>1. PICK state \in Over :
            indexes' = [indexes EXCEPT ![t].state = IF state = "end" THEN "columns" ELSE state]
      BY <2>2 DEF IndexesRead
    <3>2. PICK next \in {"columns", "failed"} : next = IF state = "end" THEN "columns" ELSE state
      BY <3>1 DEF Over
    <3>3. indexes' = [indexes EXCEPT ![t] = [old EXCEPT !.state = next]]
      BY <3>1, <3>2
    <3>4. [old EXCEPT !.state = next].state \in {"columns", "failed"}
      BY <1>1, <3>2 DEF Reader
    <3>5. old.state = "reading"
      BY <2>2 DEF IndexesRead
    <3> QED BY <3>3, <3>4, <3>5
  <2>3. CASE NestedRunReturns(t)
    <3>1. indexes' = [indexes EXCEPT ![t] = [old EXCEPT !.state = NestedOutcome(t)]] /\ old.state = "columns"
      BY <2>3 DEF NestedRunReturns
    <3>2. NestedOutcome(t) \in Over
      BY DEF NestedOutcome, Over
    <3>3. [old EXCEPT !.state = NestedOutcome(t)].state \in Over
      BY <1>1, <3>2 DEF Reader
    <3> QED BY <3>1, <3>3
  <2> QED BY <2>1, <2>2, <2>3 DEF IndexesStep
<1>5. indexes'[t] = new /\ \A u \in AllTables : u # t => indexes'[u] = indexes[u]
  BY <1>1, <1>4 DEF TableIndexes
<1>6. IndexSteps' \subseteq IndexSteps
  <2> SUFFICES ASSUME NEW p \in IndexSteps'
               PROVE  p \in IndexSteps
    OBVIOUS
  <2>1. /\ p \in AllTables \X Nat
        /\ \/ indexes'[p[1]].state = "reading" /\ p[2] \in indexes'[p[1]].read..Len(db.indexes[p[1]]) + 1
           \/ indexes'[p[1]].state = "columns" /\ p[2] = Len(db.indexes[p[1]]) + 1
    BY <1>2, <1>3 DEF IndexSteps
  <2>2. CASE p[1] = t
    <3>1. \/ new.state = "reading" /\ p[2] \in new.read..n + 1
          \/ new.state = "columns" /\ p[2] = n + 1
      BY <1>5, <2>1, <2>2
    <3>2. old.state = "reading" /\ p[2] \in old.read..n + 1
      BY <1>1, <1>4, <3>1 DEF Over
    <3> QED BY <2>1, <2>2, <3>2 DEF IndexSteps
  <2>3. CASE p[1] # t
    BY <1>5, <2>1, <2>3 DEF IndexSteps
  <2> QED BY <2>2, <2>3
<1>7. IndexSteps' # IndexSteps
  <2>1. CASE old.state = "reading"
    <3>1. <<t, old.read>> \in IndexSteps
      BY <1>1, <2>1 DEF IndexSteps
    <3>2. ~ \/ new.state = "reading" /\ old.read \in new.read..n + 1
            \/ new.state = "columns" /\ old.read = n + 1
      BY <1>1, <1>4, <2>1 DEF Over
    <3>3. <<t, old.read>> \notin IndexSteps'
      BY <1>2, <1>5, <3>2 DEF IndexSteps
    <3> QED BY <3>1, <3>3
  <2>2. CASE old.state = "columns"
    <3>1. <<t, n + 1>> \in IndexSteps
      BY <1>1, <2>2 DEF IndexSteps
    <3>2. new.state \notin {"reading", "columns"}
      BY <1>4, <2>2 DEF Over
    <3>3. <<t, n + 1>> \notin IndexSteps'
      BY <1>5, <3>2 DEF IndexSteps
    <3> QED BY <3>1, <3>3
  <2> QED BY <1>1, <2>1, <2>2
<1>8. ASSUME NEW u \in AllTables, NEW j \in IndexesOf(u),
             indexColumns'[u][j].state \in {"idle", "reading"}
      PROVE  /\ indexColumns[u][j].state \in {"idle", "reading"}
             /\ indexColumns[u][j].read = indexColumns'[u][j].read
  <2>1. CASE indexColumns' = indexColumns
    BY <1>8, <2>1
  <2>2. CASE indexColumns' # indexColumns
    <3>1. IndexesRead(t)
      BY <2>2 DEF IndexesStep, ReadIndex, NestedRunReturns
    <3>2. indexColumns' = [indexColumns EXCEPT ![t] =
                             [i \in DOMAIN @ |-> [@[i] EXCEPT !.state = "reading"]]]
      BY <2>2, <3>1 DEF IndexesRead
    <3>3. CASE u = t
      <4>1. \A i \in IndexesOf(t) : indexColumns[t][i].state = "idle"
        BY <3>1 DEF Started, IndexesRead
      <4>2. indexColumns'[t] = [i \in IndexesOf(t) |-> [indexColumns[t][i] EXCEPT !.state = "reading"]]
        BY <1>1, <3>2 DEF OnTables, ColumnReaders
      <4>3. indexColumns'[t][j].read = indexColumns[t][j].read
        BY <1>1, <3>3, <4>2 DEF ColumnReaders, Reader
      <4> QED BY <3>3, <4>1, <4>3
    <3>4. CASE u # t
      <4>1. indexColumns'[u] = indexColumns[u]
        BY <1>1, <3>2, <3>4 DEF OnTables
      <4> QED BY <1>8, <4>1
    <3> QED BY <3>3, <3>4
  <2> QED BY <2>1, <2>2
<1>9. IndexColumnSteps' \subseteq IndexColumnSteps
  <2> SUFFICES ASSUME NEW p \in IndexColumnSteps'
               PROVE  p \in IndexColumnSteps
    OBVIOUS
  <2> PICK u, j : u = p[1][1] /\ j = p[1][2]
    OBVIOUS
  <2>1. /\ p \in (AllTables \X Nat) \X Nat /\ j \in IndexesOf(u)
        /\ indexColumns'[u][j].state \in {"idle", "reading"}
        /\ p[2] \in indexColumns'[u][j].read..Len(db.indexColumns[u][j])
    BY <1>2, <1>3 DEF IndexColumnSteps
  <2>2. u \in AllTables
    BY <2>1
  <2>3. indexColumns[u][j].state \in {"idle", "reading"} /\ p[2] \in indexColumns[u][j].read..Len(db.indexColumns[u][j])
    BY <1>8, <2>1, <2>2
  <2> QED BY <2>1, <2>3 DEF IndexColumnSteps
<1>10. ColumnSteps' = ColumnSteps
  BY <1>2, <1>3 DEF ColumnSteps
<1>11. ConstraintSteps' = ConstraintSteps
  BY <1>2, SameConstraintSteps
<1> QED BY <1>2, <1>6, <1>7, <1>9, <1>10, <1>11, TableLessAhead

\* The loop over the constraints comes to a later place, or returns.
LEMMA ScannerStepIsAhead ==
  ASSUME TableInv, Started, ScannerStep
  PROVE  TableStepsAhead' < TableStepsAhead
<1>1. /\ at \in [table : 0..Len(ListedTables) + 1, row : Nat] /\ Len(ListedTables) \in Nat
      /\ RowsAt(at.table) \in Nat /\ at.row <= RowsAt(at.table)
  <2>1. db \in TableDatabases /\ at \in [table : 0..Len(ListedTables) + 1, row : Nat]
    BY DEF TableInv
  <2>2. Len(ListedTables) \in Nat
    BY <2>1, TableLists
  <2>3. RowsAt(at.table) \in Nat
    BY <2>1, RowsHaveEnds
  <2> QED BY <2>1, <2>2, <2>3 DEF Started
<1>2. UNCHANGED <<db, late, columns, indexes, indexColumns>> /\ result = "none"
  BY DEF ScannerStep, OuterRunReturns, ReadConstraint, ConstraintsFail, NextTable, Succeed, InConstraints
<1>3. /\ AllTables' = AllTables /\ ListedTables' = ListedTables
      /\ \A u : IndexesOf(u)' = IndexesOf(u)
  BY <1>2, TablesStay
<1>4. ColumnSteps' = ColumnSteps /\ IndexSteps' = IndexSteps /\ IndexColumnSteps' = IndexColumnSteps
  BY <1>2, <1>3 DEF ColumnSteps, IndexSteps, IndexColumnSteps
<1>5. CASE UNCHANGED at /\ result' # "none"
  <2>1. ConstraintSteps' = ConstraintSteps
    BY <1>2, <1>5, SameConstraintSteps
  <2> QED BY <1>2, <1>4, <1>5, <2>1, TableLessAhead
<1>6. CASE /\ at.table \in 0..Len(ListedTables) /\ UNCHANGED result
           /\ \/ at' = [table |-> at.table + 1, row |-> 0]
              \/ at' = [table |-> at.table, row |-> at.row + 1]
  <2>1. \A k : RowsAt(k)' = RowsAt(k)
    BY <1>2, <1>3 DEF RowsAt
  <2>2. ConstraintSteps' \subseteq ConstraintSteps
    <3> SUFFICES ASSUME NEW p \in ConstraintSteps'
                 PROVE  p \in ConstraintSteps
      OBVIOUS
    <3>1. /\ p \in (0..Len(ListedTables)) \X Nat /\ p[2] <= RowsAt(p[1])
          /\ p[1] > at'.table \/ (p[1] = at'.table /\ p[2] >= at'.row)
      BY <1>3, <2>1 DEF ConstraintSteps
    <3>2. p[1] > at.table \/ (p[1] = at.table /\ p[2] >= at.row)
      BY <1>1, <1>6, <3>1
    <3> QED BY <3>1, <3>2 DEF ConstraintSteps
  <2>3. <<at.table, at.row>> \in ConstraintSteps
    BY <1>1, <1>6 DEF ConstraintSteps
  <2>4. ~(at.table > at'.table \/ (at.table = at'.table /\ at.row >= at'.row))
    BY <1>1, <1>6
  <2>5. <<at.table, at.row>> \notin ConstraintSteps'
    BY <2>4 DEF ConstraintSteps
  <2> QED BY <1>2, <1>4, <1>6, <2>2, <2>3, <2>5, TableLessAhead
<1>7. \/ UNCHANGED at /\ result' # "none"
      \/ /\ at.table \in 0..Len(ListedTables) /\ UNCHANGED result
         /\ \/ at' = [table |-> at.table + 1, row |-> 0]
            \/ at' = [table |-> at.table, row |-> at.row + 1]
  <2>1. CASE OuterRunReturns
    BY <1>1, <2>1 DEF OuterRunReturns
  <2>2. CASE ReadConstraint
    <3>1. \/ at' = [at EXCEPT !.row = @ + 1] /\ UNCHANGED result
          \/ result' = "failure" /\ UNCHANGED at
      BY <2>2 DEF ReadConstraint
    <3>2. at.table \in 0..Len(ListedTables)
      BY <1>1, <2>2 DEF ReadConstraint, InConstraints
    <3>3. [at EXCEPT !.row = @ + 1] = [table |-> at.table, row |-> at.row + 1]
      BY <1>1
    <3> QED BY <3>1, <3>2, <3>3
  <2>3. CASE NextTable
    BY <1>1, <2>3 DEF NextTable, InConstraints
  <2>4. CASE ConstraintsFail \/ Succeed
    BY <2>4 DEF ConstraintsFail, Succeed
  <2> QED BY <2>1, <2>2, <2>3, <2>4 DEF ScannerStep
<1> QED BY <1>5, <1>6, <1>7

\* Whether the readers of the index columns have been started stays with the run below them.
LEMMA StartedWorkers ==
  ASSUME TableInv, Started, NEW t \in AllTables,
         \/ ColumnsStep(t) \/ IndexesStep(t) \/ \E i \in IndexesOf(t) : IndexColumnsStep(t, i)
  PROVE  Started'
<1>1. UNCHANGED <<db, at>>
  BY DEF ColumnsStep, ReadColumn, ColumnsEnd, IndexesStep, ReadIndex, IndexesRead, NestedRunReturns,
         IndexColumnsStep, ReadIndexColumn, IndexColumnsEnd
<1>2. AllTables' = AllTables /\ (\A u : IndexesOf(u)' = IndexesOf(u)) /\ RowsAt(at.table)' = RowsAt(at.table)
  BY <1>1, TablesStay DEF RowsAt
<1>3. ASSUME NEW u \in AllTables, NEW j \in IndexesOf(u)
      PROVE  /\ indexes'[u].state = "reading" => indexColumns'[u][j].state = "idle"
             /\ indexes'[u].state = "columns" => indexColumns'[u][j].state # "idle"
  <2>1. /\ TableIndexes(indexes) /\ OnTables(indexColumns) /\ indexColumns[t] \in ColumnReaders(t)
        /\ indexColumns[u] \in ColumnReaders(u)
    BY DEF TableInv
  <2>2. /\ indexes[u].state = "reading" => indexColumns[u][j].state = "idle"
        /\ indexes[u].state = "columns" => indexColumns[u][j].state # "idle"
    BY DEF Started
  <2>3. CASE ColumnsStep(t)
    BY <2>2, <2>3 DEF ColumnsStep, ReadColumn, ColumnsEnd
  <2>4. CASE ReadIndex(t)
    <3>1. indexColumns' = indexColumns /\ indexes' = [indexes EXCEPT ![t].read = @ + 1]
      BY <2>4 DEF ReadIndex
    <3>2. indexes'[u].state = indexes[u].state
      BY <2>1, <3>1 DEF TableIndexes, Reader
    <3> QED BY <2>2, <3>1, <3>2
  <2>5. CASE IndexesRead(t)
    <3>1. PICK state \in Over :
            /\ indexes' = [indexes EXCEPT ![t].state = IF state = "end" THEN "columns" ELSE state]
            /\ indexColumns' = IF state = "failed" THEN indexColumns
                               ELSE [indexColumns EXCEPT ![t] =
                                       [i \in DOMAIN @ |-> [@[i] EXCEPT !.state = "reading"]]]
      BY <2>5 DEF IndexesRead
    <3>2. CASE u = t /\ state = "failed"
      <4>1. indexes'[u].state = "failed"
        BY <2>1, <3>1, <3>2 DEF TableIndexes, Reader
      <4> QED BY <4>1
    <3>3. CASE u = t /\ state = "end"
      <4>1. indexes'[u].state = "columns"
        BY <2>1, <3>1, <3>3 DEF TableIndexes, Reader
      <4>2. indexColumns' = [indexColumns EXCEPT ![t] =
                               [i \in DOMAIN @ |-> [@[i] EXCEPT !.state = "reading"]]]
        BY <3>1, <3>3
      <4>3. indexColumns'[t] = [i \in IndexesOf(t) |-> [indexColumns[t][i] EXCEPT !.state = "reading"]]
        BY <2>1, <4>2 DEF OnTables, ColumnReaders
      <4>4. indexColumns'[u][j].state = "reading"
        BY <2>1, <3>3, <4>3 DEF ColumnReaders, Reader
      <4> QED BY <4>1, <4>4
    <3>4. CASE u # t
      <4>1. indexes'[u] = indexes[u]
        BY <2>1, <3>1, <3>4 DEF TableIndexes
      <4>2. indexColumns'[u] = indexColumns[u]
        BY <2>1, <3>1, <3>4 DEF OnTables
      <4> QED BY <2>2, <4>1, <4>2
    <3> QED BY <3>2, <3>3, <3>4 DEF Over
  <2>6. CASE NestedRunReturns(t)
    <3>1. indexColumns' = indexColumns /\ indexes' = [indexes EXCEPT ![t].state = NestedOutcome(t)]
      BY <2>6 DEF NestedRunReturns
    <3>2. NestedOutcome(t) \in {"end", "failed"}
      BY DEF NestedOutcome
    <3>3. u = t => indexes'[u].state = NestedOutcome(t)
      BY <2>1, <3>1 DEF TableIndexes, Reader
    <3>4. u # t => indexes'[u] = indexes[u]
      BY <2>1, <3>1 DEF TableIndexes
    <3> QED BY <2>2, <3>1, <3>2, <3>3, <3>4
  <2>7. CASE \E i \in IndexesOf(t) : IndexColumnsStep(t, i)
    <3>1. PICK i \in IndexesOf(t) : IndexColumnsStep(t, i)
      BY <2>7
    <3>2. indexes' = indexes /\ indexColumns[t][i].state = "reading"
      BY <3>1 DEF IndexColumnsStep, ReadIndexColumn, IndexColumnsEnd
    <3>3. indexes[t].state # "reading"
      BY <3>2 DEF Started
    <3>4. PICK new : /\ indexColumns' = [indexColumns EXCEPT ![t][i] = new]
                     /\ new.state # "idle"
      <4>1. indexColumns[t][i] \in Reader({"idle", "reading", "end", "failed"})
        BY <2>1 DEF ColumnReaders
      <4>2. CASE ReadIndexColumn(t, i)
        <5>1. indexColumns' = [indexColumns EXCEPT ![t][i] = [indexColumns[t][i] EXCEPT !.read = @ + 1]]
          BY <4>2 DEF ReadIndexColumn
        <5>2. [indexColumns[t][i] EXCEPT !.read = @ + 1].state = "reading"
          BY <3>2, <4>1 DEF Reader
        <5> QED BY <5>1, <5>2
      <4>3. CASE IndexColumnsEnd(t, i)
        <5>1. PICK state \in Over : indexColumns' = [indexColumns EXCEPT ![t][i].state = state]
          BY <4>3 DEF IndexColumnsEnd
        <5>2. indexColumns' = [indexColumns EXCEPT ![t][i] = [indexColumns[t][i] EXCEPT !.state = state]]
          BY <5>1
        <5>3. [indexColumns[t][i] EXCEPT !.state = state].state # "idle"
          BY <4>1, <5>1 DEF Over, Reader
        <5> QED BY <5>2, <5>3
      <4> QED BY <3>1, <4>2, <4>3 DEF IndexColumnsStep
    <3>5. CASE u # t
      <4>1. indexColumns'[u] = indexColumns[u]
        BY <2>1, <3>4, <3>5 DEF OnTables
      <4> QED BY <2>2, <3>2, <4>1
    <3>6. CASE u = t
      <4>1. t \in DOMAIN indexColumns /\ DOMAIN indexColumns[t] = IndexesOf(t)
        BY <2>1 DEF OnTables, ColumnReaders
      <4>2. indexColumns'[t] = [indexColumns[t] EXCEPT ![i] = new]
        BY <3>4, <4>1
      <4>3. indexColumns'[t][j] = new \/ indexColumns'[t][j] = indexColumns[t][j]
        BY <3>1, <3>6, <4>1, <4>2
      <4> QED BY <2>2, <3>2, <3>3, <3>4, <3>6, <4>3
    <3> QED BY <3>5, <3>6
  <2> QED BY <2>3, <2>4, <2>5, <2>6, <2>7 DEF IndexesStep
<1>4. at'.row <= RowsAt(at.table)'
  BY <1>1, <1>2 DEF Started
<1>5. (\A u \in AllTables : \A j \in IndexesOf(u) :
         /\ indexes[u].state = "reading" => indexColumns[u][j].state = "idle"
         /\ indexes[u].state = "columns" => indexColumns[u][j].state # "idle")'
  BY <1>2, <1>3
<1> QED BY <1>1, <1>2, <1>4, <1>5 DEF Started

LEMMA StartedScanner ==
  ASSUME TableInv, Started, ScannerStep
  PROVE  Started'
<1>1. UNCHANGED <<db, indexes, indexColumns>>
  BY DEF ScannerStep, OuterRunReturns, ReadConstraint, ConstraintsFail, NextTable, Succeed
<1>2. /\ AllTables' = AllTables /\ ListedTables' = ListedTables
      /\ \A u : IndexesOf(u)' = IndexesOf(u)
  BY <1>1, TablesStay
<1>3. \A k : RowsAt(k)' = RowsAt(k) /\ RowsAt(k) \in Nat
  BY <1>1, <1>2, RowsHaveEnds DEF RowsAt, TableInv
<1>4. at \in [table : 0..Len(ListedTables) + 1, row : Nat]
  BY DEF TableInv
<1>5. at'.row <= RowsAt(at'.table)
  <2>1. CASE at' = at
    BY <2>1 DEF Started
  <2>2. CASE at'.row = 0
    BY <1>3, <2>2
  <2>3. CASE ReadConstraint /\ at' # at
    <3>1. at' = [at EXCEPT !.row = @ + 1] /\ at.row < Len(Rows) /\ at.table \in 1..Len(ListedTables)
      BY <2>3 DEF ReadConstraint, InConstraints
    <3>2. RowsAt(at.table) = Len(Rows) /\ RowsAt(at.table) \in Nat
      BY <1>3, <3>1 DEF RowsAt, Rows
    <3>3. at'.table = at.table /\ at'.row = at.row + 1
      BY <1>4, <3>1
    <3> QED BY <1>4, <3>1, <3>2, <3>3
  <2>4. at' # at => ReadConstraint \/ at'.row = 0
    BY DEF ScannerStep, OuterRunReturns, ConstraintsFail, NextTable, Succeed
  <2> QED BY <2>1, <2>2, <2>3, <2>4
<1>6. at'.row <= RowsAt(at.table)'
  BY <1>1, <1>2, <1>5 DEF RowsAt
<1> QED BY <1>1, <1>2, <1>6 DEF Started

LEMMA StartedInit == TableScanInit => Started
<1> SUFFICES ASSUME TableScanInit
             PROVE  Started
  OBVIOUS
<1>1. at.row = 0 /\ RowsAt(at.table) \in Nat
  BY RowsHaveEnds DEF TableScanInit
<1>2. \A t \in AllTables : indexes[t].state = "reading"
  BY DEF TableScanInit
<1>3. \A t \in AllTables : \A i \in IndexesOf(t) : indexColumns[t][i].state = "idle"
  BY DEF TableScanInit
<1> QED BY <1>1, <1>2, <1>3 DEF Started

LEMMA StartedStep ==
  ASSUME TableInv, Started, [TableScanNext]_tableScanVars
  PROVE  Started'
<1>1. CASE UNCHANGED <<db, indexes, indexColumns, at>>
  BY <1>1, TablesStay DEF Started, RowsAt
<1>2. CASE ScannerStep
  BY <1>2, StartedScanner
<1>3. ASSUME NEW t \in AllTables,
             \/ ColumnsStep(t) \/ IndexesStep(t) \/ \E i \in IndexesOf(t) : IndexColumnsStep(t, i)
      PROVE  Started'
  BY <1>3, StartedWorkers
<1> QED BY <1>1, <1>2, <1>3 DEF TableScanNext, TimeRunsOut, ScanReturned, tableScanVars

\* As long as the scan has not returned, a reader has still to be asked, a run can return,
\* or the scanner goes on.
LEMMA TableScanGoesOn ==
  ASSUME TableInv, Started
  PROVE  TableScanNeverStuck
<1> SUFFICES ASSUME result = "none", ~\E t \in AllTables : TableCanGo(t)
             PROVE  ScannerCanGo
  BY DEF TableScanNeverStuck
<1>1. at \in [table : 0..Len(ListedTables) + 1, row : Nat] /\ Len(ListedTables) \in Nat
  BY TableLists DEF TableInv
<1>2. CASE at.table \in 1..Len(ListedTables)
  <2>1. RowsAt(at.table) = Len(Rows)
    BY <1>2 DEF RowsAt, Rows
  <2> QED BY <1>2, <2>1 DEF Started, ScannerCanGo, InConstraints
<1>3. CASE at.table = 0
  <2>1. ASSUME NEW t \in AllTables
        PROVE  columns[t].state \in Over /\ indexes[t].state \in Over
    <3>1. /\ columns[t].state \in {"reading", "end", "failed"}
          /\ indexes[t].state \in {"reading", "columns", "end", "failed"}
          /\ \A i \in IndexesOf(t) : indexColumns[t][i].state \in {"idle", "reading", "end", "failed"}
      BY DEF TableInv, TableColumns, TableIndexes, ColumnReaders, Reader
    <3>2. ~TableCanGo(t)
      OBVIOUS
    <3>3. columns[t].state \in Over /\ indexes[t].state # "reading"
      BY <3>1, <3>2 DEF TableCanGo, Over
    <3>4. indexes[t].state = "columns" => \A i \in IndexesOf(t) : indexColumns[t][i].state \in Over
      BY <3>1, <3>2 DEF TableCanGo, Started, Over
    <3>5. indexes[t].state # "columns"
      BY <3>2, <3>4 DEF TableCanGo
    <3> QED BY <3>1, <3>3, <3>5 DEF Over
  <2> QED BY <1>3, <2>1 DEF ScannerCanGo
<1>4. CASE at.table = Len(ListedTables) + 1
  BY <1>4 DEF ScannerCanGo
<1> QED BY <1>1, <1>2, <1>3, <1>4

\* A scan table by table is over after a number of steps that the catalog sets from the
\* start, whatever fails and whenever, and on the way to its return no worker, no run and
\* no loop waits for another that waits for it.
THEOREM TableScanRunsOut ==
  TableScanSpec => [](TableStepsAhead \in Nat /\ TableScanNeverStuck) /\ TableStepsRunOut
<1> DEFINE Inv == TableInv /\ Started
           Runs == Inv /\ [TableScanNext]_tableScanVars
           Less == TableStepsAhead' < TableStepsAhead
<1>1. TableScanInit => Inv
  BY TableInit, StartedInit
<1>2. Runs => Inv'
  BY TableStep, StartedStep
<1>3. Inv => TableStepsAhead \in Nat /\ TableScanNeverStuck
  BY TableStepsFinite, TableScanGoesOn
<1>4. Runs => [Less]_tableScanVars
  <2> SUFFICES ASSUME Inv, TableScanNext, tableScanVars' # tableScanVars
               PROVE  Less
    OBVIOUS
  <2>1. CASE TimeRunsOut
    <3>1. UNCHANGED <<db, columns, indexes, indexColumns, at, result>> /\ ~late /\ late'
      BY <2>1 DEF TimeRunsOut
    <3>2. AllTables' = AllTables /\ \A u : IndexesOf(u)' = IndexesOf(u)
      BY <3>1, TablesStay
    <3>3. ColumnSteps' = ColumnSteps /\ IndexSteps' = IndexSteps /\ IndexColumnSteps' = IndexColumnSteps
      BY <3>1, <3>2 DEF ColumnSteps, IndexSteps, IndexColumnSteps
    <3>4. ConstraintSteps' = ConstraintSteps
      BY <3>1, SameConstraintSteps
    <3> QED BY <3>1, <3>3, <3>4, TableLessAhead
  <2>2. CASE ScannerStep
    BY <2>2, ScannerStepIsAhead
  <2>3. ASSUME NEW t \in AllTables,
               \/ ColumnsStep(t) \/ IndexesStep(t) \/ \E i \in IndexesOf(t) : IndexColumnsStep(t, i)
        PROVE  Less
    BY <2>3, ColumnsStepIsAhead, IndexesStepIsAhead, IndexColumnsStepIsAhead
  <2>4. ~ScanReturned
    BY DEF ScanReturned
  <2> QED BY <2>1, <2>2, <2>3, <2>4 DEF TableScanNext
<1> QED BY <1>1, <1>2, <1>3, <1>4, PTL DEF TableScanSpec, TableStepsRunOut

-----------------------------------------------------------------------------
\* Why the bulk scan ends, in the same way

CollectionSteps == {n \in Nat : phase = "collections" /\ n \in read..Len(db.collections)}
RowSteps ==
  {p \in Streams \X Nat :
     stream[p[1]].state \in {"idle", "reading"} /\ p[2] \in stream[p[1]].pos..Len(db.rows[p[1]])}
WorkerSteps ==
  {p \in Workers \X {"assign", "test"} :
     worker[p[1]] \in {"idle", "scanning"} \/ (worker[p[1]] = "assigned" /\ p[2] = "test")}
CountSteps == {t \in Collections : count[t] = "none"}
BulkStepsAhead ==
  Cardinality(CollectionSteps) + Cardinality(RowSteps) + Cardinality(WorkerSteps)
    + Cardinality(CountSteps) + (IF late THEN 0 ELSE 1) + (IF phase = "returned" THEN 0 ELSE 1)

\* Every step but the stutter after the return leaves less to do.
BulkStepsRunOut == [][BulkStepsAhead' < BulkStepsAhead]_vars

\* The guards of the steps; that the provider answers is up to it.
BulkCanGo ==
  \/ phase = "collections"
  \/ \E s \in Streams : stream[s].state = "reading"
  \/ \E w \in Workers : worker[w] = "assigned" \/ (worker[w] = "scanning" /\ ScanEnded(w))
  \/ phase = "workers" /\ \E t \in Counted : count[t] = "none"
  \/ /\ phase = "workers" /\ \A w \in Workers : worker[w] \in {"ok", "err"}
     /\ \A t \in Counted : count[t] # "none"
BulkScanNeverStuck == phase # "returned" => BulkCanGo

\* The workers and their streams start together, that of the index columns at the end of
\* the indexes.
WorkersStarted ==
  /\ phase = "collections" => \A w \in Workers : worker[w] = "idle"
  /\ phase = "workers" => \A w \in Workers : worker[w] # "idle" /\ stream[w].state # "idle"
  /\ stream["indexes"].state = "end" => stream["indexColumns"].state # "idle"

LEMMA BulkStepsFinite ==
  ASSUME TypeOK, IInv
  PROVE  /\ IsFiniteSet(CollectionSteps) /\ IsFiniteSet(RowSteps)
         /\ IsFiniteSet(WorkerSteps) /\ IsFiniteSet(CountSteps)
         /\ BulkStepsAhead \in Nat
<1>1. /\ Len(db.collections) \in Nat
      /\ \A s \in Streams : Len(db.rows[s]) \in Nat
  BY CatalogLists DEF IInv, Typed
<1>2. IsFiniteSet(CollectionSteps)
  <2>1. IsFiniteSet(0..Len(db.collections))
    BY <1>1, FS_Interval
  <2>3. read \in 0..Len(db.collections)
    BY DEF TypeOK
  <2>2. CollectionSteps \in SUBSET (0..Len(db.collections))
    BY <1>1, <2>3 DEF CollectionSteps
  <2> QED BY <2>1, <2>2, FS_Subset
<1>3. IsFiniteSet(Streams) /\ IsFiniteSet(Workers) /\ IsFiniteSet({"assign", "test"})
  <2>1. IsFiniteSet({}) /\ \A S, x : IsFiniteSet(S) => IsFiniteSet(S \cup {x})
    BY FS_EmptySet, FS_AddElement
  <2>2. /\ Streams = ((({} \cup {"columns"}) \cup {"constraints"}) \cup {"indexes"}) \cup {"indexColumns"}
        /\ Workers = (({} \cup {"columns"}) \cup {"constraints"}) \cup {"indexes"}
        /\ {"assign", "test"} = ({} \cup {"assign"}) \cup {"test"}
    BY DEF Streams, Workers
  <2>3. IsFiniteSet(({} \cup {"columns"}) \cup {"constraints"})
    BY <2>1
  <2>4. IsFiniteSet(({} \cup {"assign"}) \cup {"test"})
    BY <2>1
  <2> QED BY <2>1, <2>2, <2>3, <2>4
<1>4. IsFiniteSet(RowSteps)
  <2> DEFINE bound == [s \in Streams |-> Len(db.rows[s])]
  <2>1. \A s \in Streams : bound[s] \in Nat
    BY <1>1
  <2>2. \A p \in RowSteps : p \in Streams \X Nat /\ p[2] <= bound[p[1]]
    BY DEF RowSteps
  <2> HIDE DEF bound
  <2> QED BY <1>3, <2>1, <2>2, FinitePairs
<1>5. IsFiniteSet(WorkerSteps)
  <2>1. IsFiniteSet(Workers \X {"assign", "test"})
    BY <1>3, FS_Product
  <2>2. WorkerSteps \in SUBSET (Workers \X {"assign", "test"})
    BY DEF WorkerSteps
  <2> QED BY <2>1, <2>2, FS_Subset
<1>6. IsFiniteSet(CountSteps)
  <2> DEFINE list == [i \in 1..Len(db.collections) |-> db.collections[i].table]
  <2> PICK n \in Nat : n = Len(db.collections)
    BY <1>1
  <2>1. list \in Surjection(1..n, Collections)
    BY DEF Surjection, Collections
  <2>2. IsFiniteSet(1..n)
    BY FS_Interval
  <2> HIDE DEF list
  <2>3. IsFiniteSet(Collections)
    BY <2>1, <2>2, FS_Surjection
  <2>4. CountSteps \in SUBSET Collections
    BY DEF CountSteps
  <2> QED BY <2>3, <2>4, FS_Subset
<1>7. /\ Cardinality(CollectionSteps) \in Nat /\ Cardinality(RowSteps) \in Nat
      /\ Cardinality(WorkerSteps) \in Nat /\ Cardinality(CountSteps) \in Nat
  BY <1>2, <1>4, <1>5, <1>6, FS_CardinalityType
<1> QED BY <1>2, <1>4, <1>5, <1>6, <1>7 DEF BulkStepsAhead

LEMMA BulkLessAhead ==
  ASSUME TypeOK, IInv,
         CollectionSteps' \subseteq CollectionSteps, RowSteps' \subseteq RowSteps,
         WorkerSteps' \subseteq WorkerSteps, CountSteps' \subseteq CountSteps,
         late => late', phase = "returned" => phase' = "returned",
         \/ CollectionSteps' # CollectionSteps \/ RowSteps' # RowSteps
         \/ WorkerSteps' # WorkerSteps \/ CountSteps' # CountSteps
         \/ (~late /\ late') \/ (phase # "returned" /\ phase' = "returned")
  PROVE  BulkStepsAhead' < BulkStepsAhead
<1>1. /\ Cardinality(CollectionSteps') \in Nat /\ Cardinality(CollectionSteps) \in Nat
      /\ Cardinality(CollectionSteps') <= Cardinality(CollectionSteps)
      /\ CollectionSteps' # CollectionSteps => Cardinality(CollectionSteps') < Cardinality(CollectionSteps)
  BY BulkStepsFinite, ProperPart
<1>2. /\ Cardinality(RowSteps') \in Nat /\ Cardinality(RowSteps) \in Nat
      /\ Cardinality(RowSteps') <= Cardinality(RowSteps)
      /\ RowSteps' # RowSteps => Cardinality(RowSteps') < Cardinality(RowSteps)
  BY BulkStepsFinite, ProperPart
<1>3. /\ Cardinality(WorkerSteps') \in Nat /\ Cardinality(WorkerSteps) \in Nat
      /\ Cardinality(WorkerSteps') <= Cardinality(WorkerSteps)
      /\ WorkerSteps' # WorkerSteps => Cardinality(WorkerSteps') < Cardinality(WorkerSteps)
  BY BulkStepsFinite, ProperPart
<1>4. /\ Cardinality(CountSteps') \in Nat /\ Cardinality(CountSteps) \in Nat
      /\ Cardinality(CountSteps') <= Cardinality(CountSteps)
      /\ CountSteps' # CountSteps => Cardinality(CountSteps') < Cardinality(CountSteps)
  BY BulkStepsFinite, ProperPart
<1>5. PICK a, b, c, d \in Nat : /\ a = Cardinality(CollectionSteps) /\ b = Cardinality(RowSteps)
                                /\ c = Cardinality(WorkerSteps) /\ d = Cardinality(CountSteps)
  BY <1>1, <1>2, <1>3, <1>4
<1>6. PICK p, q, r, s \in Nat : /\ p = Cardinality(CollectionSteps') /\ q = Cardinality(RowSteps')
                                /\ r = Cardinality(WorkerSteps') /\ s = Cardinality(CountSteps')
  BY <1>1, <1>2, <1>3, <1>4
<1>7. /\ p <= a /\ q <= b /\ r <= c /\ s <= d
      /\ \/ p < a \/ q < b \/ r < c \/ s < d
         \/ (~late /\ late') \/ (phase # "returned" /\ phase' = "returned")
  BY <1>1, <1>2, <1>3, <1>4, <1>5, <1>6
<1>8. PICK m, n \in 0..1 : m = (IF late THEN 0 ELSE 1) /\ n = (IF phase = "returned" THEN 0 ELSE 1)
  OBVIOUS
<1>9. PICK u, v \in 0..1 : u = (IF late' THEN 0 ELSE 1) /\ v = (IF phase' = "returned" THEN 0 ELSE 1)
  OBVIOUS
<1>10. /\ u <= m /\ v <= n /\ (~late /\ late' => u < m)
       /\ (phase # "returned" /\ phase' = "returned" => v < n)
  BY <1>8, <1>9
<1>11. p + q + r + s + u + v < a + b + c + d + m + n
  BY <1>7, <1>10
<1> QED BY <1>5, <1>6, <1>8, <1>9, <1>11 DEF BulkStepsAhead

\* What steps of one actor leave to the others.
LEMMA SameSteps ==
  ASSUME UNCHANGED db
  PROVE  /\ UNCHANGED <<phase, read>> => CollectionSteps' = CollectionSteps
         /\ UNCHANGED stream => RowSteps' = RowSteps
         /\ UNCHANGED worker => WorkerSteps' = WorkerSteps
         /\ UNCHANGED count => CountSteps' = CountSteps
         /\ phase' # "collections" => CollectionSteps' = {}
<1>1. Collections' = Collections
  BY DEF Collections
<1> QED BY <1>1 DEF CollectionSteps, RowSteps, WorkerSteps, CountSteps

LEMMA CollectionStepIsAhead ==
  ASSUME TypeOK, IInv, WorkersStarted, CollectionStep
  PROVE  BulkStepsAhead' < BulkStepsAhead
<1>1. phase = "collections" /\ UNCHANGED <<db, late, count>>
  BY DEF CollectionStep, ReadCollection, StartWorkers, CollectionsFail, Fail
<1>2. CountSteps' = CountSteps
  BY <1>1, SameSteps
<1>3. read \in 0..Len(db.collections) /\ Len(db.collections) \in Nat
  BY CatalogLists DEF TypeOK, IInv, Typed
<1>4. read \in CollectionSteps
  BY <1>1, <1>3 DEF CollectionSteps
<1>5. CASE StartWorkers
  <2>1. phase' = "workers" /\ worker' = [w \in Workers |-> "scanning"]
    BY <1>5 DEF StartWorkers
  <2>2. CollectionSteps' = {}
    BY <1>1, <2>1, SameSteps
  <2>3. \A s \in Streams : /\ stream[s].state = "idle" /\ stream'[s].pos = stream[s].pos
                           /\ stream'[s].state \in {"idle", "reading"}
    <3>1. \A s \in Streams : stream[s].state = "idle"
      BY <1>1 DEF IInv, Phases
    <3>2. stream \in [Streams -> StreamRecord]
      BY DEF TypeOK, StreamRecord
    <3>3. stream' = [s \in Streams |-> IF s \in Workers THEN [stream[s] EXCEPT !.state = "reading"]
                                       ELSE stream[s]]
      BY <1>5 DEF StartWorkers
    <3> QED BY <3>1, <3>2, <3>3 DEF StreamRecord
  <2>4. RowSteps' = RowSteps
    BY <1>1, <2>3 DEF RowSteps
  <2>5. WorkerSteps' \subseteq WorkerSteps
    <3>1. \A w \in Workers : worker[w] = "idle"
      BY <1>1 DEF WorkersStarted
    <3>2. \A p \in WorkerSteps' : p \in Workers \X {"assign", "test"}
      BY DEF WorkerSteps
    <3> QED BY <3>1, <3>2 DEF WorkerSteps
  <2> QED BY <1>1, <1>2, <1>4, <2>1, <2>2, <2>4, <2>5, BulkLessAhead
<1>6. CASE UNCHANGED <<stream, worker>>
  <2>1. RowSteps' = RowSteps /\ WorkerSteps' = WorkerSteps
    BY <1>1, <1>6, SameSteps
  <2>2. CollectionSteps' \subseteq CollectionSteps /\ read \notin CollectionSteps'
    <3>1. CASE phase' = "returned"
      BY <1>1, <3>1, SameSteps
    <3>2. CASE phase' = phase /\ read' = read + 1
      BY <1>1, <1>3, <3>2 DEF CollectionSteps
    <3>3. phase' = "returned" \/ (phase' = phase /\ read' = read + 1)
      <4>1. ASSUME ReadCollection PROVE phase' = "returned" \/ (phase' = phase /\ read' = read + 1)
        BY <4>1 DEF ReadCollection, Fail
      <4>2. ASSUME CollectionsFail PROVE phase' = "returned"
        BY <4>2 DEF CollectionsFail, Fail
      <4>3. ASSUME StartWorkers PROVE FALSE
        <5>1. stream'["columns"].state = "reading"
          <6>1. stream \in [Streams -> StreamRecord] /\ "columns" \in Streams /\ "columns" \in Workers
            BY DEF TypeOK, StreamRecord, Streams, Workers
          <6> QED BY <4>3, <6>1 DEF StartWorkers, StreamRecord
        <5>2. stream["columns"].state = "idle"
          BY <1>1 DEF IInv, Phases, Streams
        <5> QED BY <1>6, <5>1, <5>2
      <4> QED BY <4>1, <4>2, <4>3 DEF CollectionStep
    <3> QED BY <3>1, <3>2, <3>3
  <2> QED BY <1>1, <1>2, <1>4, <2>1, <2>2, BulkLessAhead
<1>7. ReadCollection \/ CollectionsFail => UNCHANGED <<stream, worker>>
  BY DEF ReadCollection, CollectionsFail, Fail, scanVars
<1> QED BY <1>5, <1>6, <1>7 DEF CollectionStep

\* A stream moves on by a row or for good, and at the end of the indexes that of their
\* columns starts.
LEMMA StreamMoves ==
  ASSUME TypeOK, IInv, NEW s \in Streams, StreamStep(s)
  PROVE  /\ stream'[s].state \in {"idle", "reading"} => stream'[s].pos = stream[s].pos + 1
         /\ stream'[s].state # "idle"
         /\ \A x \in Streams : x # s =>
              \/ stream'[x] = stream[x]
              \/ stream[x].state = "idle" /\ stream'[x].state = "reading" /\ stream'[x].pos = stream[x].pos
         /\ s = "indexes" /\ stream'[s].state = "end" => stream'["indexColumns"].state # "idle"
<1>1. stream \in [Streams -> StreamRecord] /\ stream[s].state = "reading"
  <2>1. stream \in [Streams -> StreamRecord]
    BY DEF TypeOK, StreamRecord
  <2>2. stream[s].state = "reading"
    BY DEF StreamStep, ReadRow, EndOfRows, ReaderFails
  <2> QED BY <2>1, <2>2
<1>2. stream[s] \in StreamRecord
  BY <1>1
<1>3. ASSUME NEW new, stream' = [stream EXCEPT ![s] = new], new.state \notin {"idle", "end"},
             new.state = "reading" => new.pos = stream[s].pos + 1
      PROVE  /\ \A x \in Streams : x # s => stream'[x] = stream[x]
             /\ stream'[s].state \in {"idle", "reading"} => stream'[s].pos = stream[s].pos + 1
             /\ stream'[s].state \notin {"idle", "end"}
  BY <1>1, <1>3
<1>4. CASE ReadRow(s)
  <2> PICK i : i = SequentialFind(FindKeys(s), stream[s].cursor, RowKey(s))
    OBVIOUS
  <2>1. \/ stream' = StopsWith(s, "unknown", i) \/ stream' = StopsWith(s, "no reference", i)
        \/ stream' = [stream EXCEPT ![s].pos = @ + 1, ![s].cursor = CursorAfterHit(i)]
    BY <1>4 DEF ReadRow
  <2>2. ASSUME NEW state \in {"unknown", "no reference"}, stream' = StopsWith(s, state, i)
        PROVE  stream' = [stream EXCEPT ![s] = [stream[s] EXCEPT !.state = state, !.cursor = i]]
    BY <1>1, <2>2 DEF StopsWith
  <2>3. \A state \in {"unknown", "no reference"} :
           [stream[s] EXCEPT !.state = state, !.cursor = i].state = state
    BY <1>2 DEF StreamRecord
  <2>4. ASSUME stream' = [stream EXCEPT ![s].pos = @ + 1, ![s].cursor = CursorAfterHit(i)]
        PROVE  stream' = [stream EXCEPT ![s] = [stream[s] EXCEPT !.pos = @ + 1, !.cursor = CursorAfterHit(i)]]
    BY <1>1, <2>4
  <2>5. /\ [stream[s] EXCEPT !.pos = @ + 1, !.cursor = CursorAfterHit(i)].pos = stream[s].pos + 1
        /\ [stream[s] EXCEPT !.pos = @ + 1, !.cursor = CursorAfterHit(i)].state = "reading"
    BY <1>1, <1>2 DEF StreamRecord
  <2>6. CASE \E state \in {"unknown", "no reference"} : stream' = StopsWith(s, state, i)
    BY <1>3, <2>2, <2>3, <2>6
  <2>7. CASE stream' = [stream EXCEPT ![s].pos = @ + 1, ![s].cursor = CursorAfterHit(i)]
    BY <1>3, <2>4, <2>5, <2>7
  <2> QED BY <2>1, <2>6, <2>7
<1>5. CASE ReaderFails(s)
  <2>1. PICK state \in {"provider", "deadline"} : stream' = [stream EXCEPT ![s].state = state]
    BY <1>5 DEF ReaderFails
  <2>2. stream' = [stream EXCEPT ![s] = [stream[s] EXCEPT !.state = state]]
    BY <2>1
  <2>3. [stream[s] EXCEPT !.state = state].state = state
    BY <1>2 DEF StreamRecord
  <2> QED BY <1>3, <2>1, <2>2, <2>3
<1>6. CASE EndOfRows(s)
  <2>1. stream' = [x \in Streams |->
          CASE x = s -> [stream[s] EXCEPT !.state = "end"]
            [] s = "indexes" /\ x = "indexColumns" -> [stream[x] EXCEPT !.state = "reading"]
            [] OTHER -> stream[x]]
    BY <1>6 DEF EndOfRows
  <2>2. stream'[s].state = "end"
    BY <1>2, <2>1 DEF StreamRecord
  <2>3. ASSUME NEW x \in Streams, x # s, ~(s = "indexes" /\ x = "indexColumns")
        PROVE  stream'[x] = stream[x]
    BY <2>1, <2>3
  <2>4. ASSUME NEW x \in Streams, s = "indexes", x = "indexColumns"
        PROVE  stream[x].state = "idle" /\ stream'[x].state = "reading" /\ stream'[x].pos = stream[x].pos
    <3>1. stream[x].state = "idle"
      BY <1>1, <2>4 DEF IInv, Phases
    <3>2. stream'[x] = [stream[x] EXCEPT !.state = "reading"]
      BY <2>1, <2>4
    <3>3. stream[x] \in StreamRecord
      BY <1>1
    <3> QED BY <3>1, <3>2, <3>3 DEF StreamRecord
  <2>5. "indexColumns" \in Streams
    BY DEF Streams
  <2> QED BY <2>2, <2>3, <2>4, <2>5
<1> QED BY <1>4, <1>5, <1>6 DEF StreamStep

LEMMA StreamStepIsAhead ==
  ASSUME TypeOK, IInv, NEW s \in Streams, StreamStep(s)
  PROVE  BulkStepsAhead' < BulkStepsAhead
<1>1. UNCHANGED <<db, phase, read, late, count, worker>> /\ stream[s].state = "reading"
  BY DEF StreamStep, ReadRow, EndOfRows, ReaderFails, catalogVars
<1>2. CollectionSteps' = CollectionSteps /\ WorkerSteps' = WorkerSteps /\ CountSteps' = CountSteps
  BY <1>1, SameSteps
<1>3. /\ stream \in [Streams -> StreamRecord] /\ stream[s].pos \in Nat /\ stream[s].pos <= Len(db.rows[s])
      /\ Len(db.rows[s]) \in Nat
  <2>1. stream \in [Streams -> StreamRecord] /\ stream[s].pos <= Len(db.rows[s])
    BY DEF TypeOK, StreamRecord
  <2>2. Len(db.rows[s]) \in Nat
    BY CatalogLists DEF IInv, Typed
  <2> QED BY <2>1, <2>2 DEF StreamRecord
<1>4. /\ \A x \in Streams : x # s =>
           \/ stream'[x] = stream[x]
           \/ stream[x].state \in {"idle", "reading"} /\ stream'[x].pos = stream[x].pos
      /\ stream'[s].state \in {"idle", "reading"} => stream'[s].pos = stream[s].pos + 1
  BY StreamMoves
<1>5. RowSteps' \subseteq RowSteps
  <2> SUFFICES ASSUME NEW p \in RowSteps'
               PROVE  p \in RowSteps
    OBVIOUS
  <2> PICK x : x = p[1]
    OBVIOUS
  <2>1. /\ p \in Streams \X Nat /\ stream'[x].state \in {"idle", "reading"}
        /\ p[2] \in stream'[x].pos..Len(db.rows[x])
    BY <1>1 DEF RowSteps
  <2>2. x \in Streams
    BY <2>1
  <2>3. stream[x].state \in {"idle", "reading"} /\ p[2] \in stream[x].pos..Len(db.rows[x])
    <3>1. CASE x = s
      BY <1>1, <1>3, <1>4, <2>1, <3>1
    <3>2. CASE x # s
      BY <1>4, <2>1, <2>2, <3>2
    <3> QED BY <3>1, <3>2
  <2> QED BY <2>1, <2>3 DEF RowSteps
<1>6. <<s, stream[s].pos>> \in RowSteps
  BY <1>1, <1>3 DEF RowSteps
<1>7. <<s, stream[s].pos>> \notin RowSteps'
  <2>1. ~(stream'[s].state \in {"idle", "reading"} /\ stream[s].pos \in stream'[s].pos..Len(db.rows[s]))
    BY <1>3, <1>4
  <2> QED BY <1>1, <2>1 DEF RowSteps
<1> QED BY <1>1, <1>2, <1>5, <1>6, <1>7, BulkLessAhead

LEMMA WorkerStepIsAhead ==
  ASSUME TypeOK, IInv, NEW w \in Workers, WorkerStep(w)
  PROVE  BulkStepsAhead' < BulkStepsAhead
<1>1. UNCHANGED <<db, phase, read, late, count, stream>>
  BY DEF WorkerStep, AssignErr, TestErr, catalogVars, scanVars
<1>2. CollectionSteps' = CollectionSteps /\ RowSteps' = RowSteps /\ CountSteps' = CountSteps
  BY <1>1, SameSteps
<1>3. PICK new : /\ worker' = [worker EXCEPT ![w] = new]
                 /\ \/ worker[w] = "scanning" /\ new = "assigned"
                    \/ worker[w] = "assigned" /\ new \in {"ok", "err"}
  <2>1. CASE AssignErr(w)
    BY <2>1 DEF AssignErr
  <2>2. CASE TestErr(w)
    BY <2>2 DEF TestErr
  <2> QED BY <2>1, <2>2 DEF WorkerStep
<1>4. worker'[w] = new /\ \A x \in Workers : x # w => worker'[x] = worker[x]
  BY <1>3 DEF TypeOK
<1>5. WorkerSteps' \subseteq WorkerSteps
  BY <1>3, <1>4 DEF WorkerSteps
<1>6. WorkerSteps' # WorkerSteps
  <2>1. CASE worker[w] = "scanning"
    <3>1. <<w, "assign">> \in WorkerSteps
      BY <2>1 DEF WorkerSteps
    <3>2. <<w, "assign">> \notin WorkerSteps'
      BY <1>3, <1>4, <2>1 DEF WorkerSteps
    <3> QED BY <3>1, <3>2
  <2>2. CASE worker[w] = "assigned"
    <3>1. <<w, "test">> \in WorkerSteps
      BY <2>2 DEF WorkerSteps
    <3>2. <<w, "test">> \notin WorkerSteps'
      BY <1>3, <1>4, <2>2 DEF WorkerSteps
    <3> QED BY <3>1, <3>2
  <2> QED BY <1>3, <2>1, <2>2
<1> QED BY <1>1, <1>2, <1>5, <1>6, BulkLessAhead

LEMMA WorkersStartedInit == Init => WorkersStarted
BY DEF Init, WorkersStarted, Streams, Workers

LEMMA WorkersStartedStep ==
  ASSUME TypeOK, IInv, WorkersStarted, [Next]_vars
  PROVE  WorkersStarted'
<1>0. stream \in [Streams -> StreamRecord] /\ Workers \subseteq Streams
  BY DEF TypeOK, StreamRecord, Streams, Workers
<1>1. CASE UNCHANGED <<stream, worker>> /\ (phase' = phase \/ phase' = "returned")
  BY <1>1 DEF WorkersStarted
<1>2. CASE StartWorkers
  <2>1. /\ phase' = "workers" /\ worker' = [w \in Workers |-> "scanning"] /\ phase = "collections"
        /\ stream' = [s \in Streams |-> IF s \in Workers THEN [stream[s] EXCEPT !.state = "reading"]
                                        ELSE stream[s]]
    BY <1>2 DEF StartWorkers
  <2>2. \A w \in Workers : stream'[w].state = "reading"
    BY <1>0, <2>1 DEF StreamRecord
  <2>3. "indexes" \in Workers
    BY DEF Workers
  <2> QED BY <2>1, <2>2, <2>3 DEF WorkersStarted
<1>3. ASSUME NEW s \in Streams, StreamStep(s)
      PROVE  WorkersStarted'
  <2>1. UNCHANGED <<phase, worker>> /\ stream[s].state = "reading"
    BY <1>3 DEF StreamStep, ReadRow, EndOfRows, ReaderFails, catalogVars
  <2>2. \A x \in Streams : stream[x].state # "idle" => stream'[x].state # "idle"
    BY <1>3, StreamMoves
  <2>3. stream'["indexes"].state = "end" => stream'["indexColumns"].state # "idle"
    <3>1. "indexes" \in Streams /\ "indexColumns" \in Streams
      BY DEF Streams
    <3>2. CASE s = "indexes"
      BY <1>3, <3>2, StreamMoves
    <3>3. CASE s # "indexes"
      <4>1. \/ stream'["indexes"] = stream["indexes"]
            \/ stream'["indexes"].state = "reading"
        BY <1>3, <3>1, <3>3, StreamMoves
      <4>2. stream["indexes"].state = "end" => stream["indexColumns"].state # "idle"
        BY DEF WorkersStarted
      <4> QED BY <2>2, <3>1, <4>1, <4>2
    <3> QED BY <3>2, <3>3
  <2> QED BY <1>0, <2>1, <2>2, <2>3 DEF WorkersStarted
<1>4. ASSUME NEW w \in Workers, WorkerStep(w)
      PROVE  WorkersStarted'
  <2>1. UNCHANGED <<phase, stream>> /\ worker[w] # "idle" /\ \A x \in Workers : worker[x] # "idle" => worker'[x] # "idle"
    <3>0. worker \in [Workers -> {"idle", "scanning", "assigned", "ok", "err"}]
      BY DEF TypeOK
    <3>1. CASE AssignErr(w)
      BY <3>0, <3>1 DEF AssignErr, scanVars
    <3>2. CASE TestErr(w)
      <4>1. PICK new \in {"ok", "err"} : worker' = [worker EXCEPT ![w] = new]
        BY <3>2 DEF TestErr
      <4> QED BY <3>0, <3>2, <4>1 DEF TestErr, scanVars
    <3> QED BY <1>4, <3>1, <3>2 DEF WorkerStep
  <2> QED BY <2>1 DEF WorkersStarted
<1>5. ReadCollection \/ CollectionsFail => UNCHANGED <<stream, worker>> /\ (phase' = phase \/ phase' = "returned")
  BY DEF ReadCollection, CollectionsFail, Fail, scanVars
<1>6. DeadlinePasses \/ RunReturns => UNCHANGED <<stream, worker>> /\ (phase' = phase \/ phase' = "returned")
  BY DEF DeadlinePasses, RunReturns, scanVars
<1>7. ASSUME NEW t \in Collections, CountRecords(t)
      PROVE  UNCHANGED <<stream, worker>> /\ phase' = phase
  BY <1>7 DEF CountRecords, scanVars
<1>8. UNCHANGED vars => UNCHANGED <<stream, worker, phase>>
  BY DEF vars, scanVars
<1> QED BY <1>1, <1>2, <1>3, <1>4, <1>5, <1>6, <1>7, <1>8 DEF Next, CollectionStep, Returned

\* As long as the scan has not returned, a collection or a stream has still to be read, a worker
\* can deliver, a table has still to be counted, or the run returns.
LEMMA BulkScanGoesOn ==
  ASSUME TypeOK, IInv, WorkersStarted
  PROVE  BulkScanNeverStuck
<1> SUFFICES ASSUME phase = "workers", ~\E s \in Streams : stream[s].state = "reading",
                    ~\E w \in Workers : worker[w] = "assigned" \/ (worker[w] = "scanning" /\ ScanEnded(w))
             PROVE  \A w \in Workers : worker[w] \in {"ok", "err"}
  BY DEF BulkScanNeverStuck, BulkCanGo, TypeOK
<1> SUFFICES ASSUME NEW w \in Workers, worker[w] = "scanning"
             PROVE  FALSE
  BY DEF WorkersStarted, TypeOK
<1>1. \A s \in Streams : stream[s].state \in {"idle", "end"} \/ Broken(s)
  <2>1. \A s \in Streams : stream[s].state \in {"idle", "reading", "end", "provider", "deadline",
                                                "unknown", "no reference"}
    BY DEF TypeOK
  <2> QED BY <2>1 DEF Broken
<1>2. stream[w].state # "idle" /\ w \in Streams
  BY DEF WorkersStarted, Workers, Streams
<1>3. CASE w # "indexes"
  <2>1. StreamsOf(w) = {w}
    BY <1>3 DEF StreamsOf
  <2>2. ScanEnded(w)
    BY <1>1, <1>2, <2>1 DEF ScanEnded, ScanFailed
  <2> QED BY <2>2
<1>4. CASE w = "indexes"
  <2>1. StreamsOf(w) = {"indexes", "indexColumns"} /\ "indexColumns" \in Streams
    BY <1>4 DEF StreamsOf, Streams
  <2>2. stream["indexes"].state = "end" => stream["indexColumns"].state # "idle"
    BY DEF WorkersStarted
  <2>3. ScanEnded(w)
    BY <1>1, <1>2, <1>4, <2>1, <2>2 DEF ScanEnded, ScanFailed
  <2> QED BY <2>3
<1> QED BY <1>3, <1>4

\* A bulk scan is over after a number of steps that the catalog sets from the start, whatever
\* the provider answers and however the workers interleave, and on the way to its return nobody
\* waits for somebody who waits.
THEOREM BulkScanRunsOut ==
  Spec => [](BulkStepsAhead \in Nat /\ BulkScanNeverStuck) /\ BulkStepsRunOut
<1> DEFINE Inv == TypeOK /\ IInv /\ WorkersStarted
           Runs == Inv /\ [Next]_vars
           Less == BulkStepsAhead' < BulkStepsAhead
<1>1. Init => Inv
  BY TypeInit, InvInit, WorkersStartedInit
<1>2. Runs => Inv'
  BY ScanStep, WorkersStartedStep
<1>3. Inv => BulkStepsAhead \in Nat /\ BulkScanNeverStuck
  BY BulkStepsFinite, BulkScanGoesOn
<1>4. Runs => [Less]_vars
  <2> SUFFICES ASSUME Inv, Next, vars' # vars
               PROVE  Less
    OBVIOUS
  <2>1. CASE DeadlinePasses
    <3>1. UNCHANGED <<db, phase, read, stream, count, worker>> /\ ~late /\ late'
      BY <2>1 DEF DeadlinePasses, catalogVars, scanVars
    <3>2. /\ CollectionSteps' = CollectionSteps /\ RowSteps' = RowSteps
          /\ WorkerSteps' = WorkerSteps /\ CountSteps' = CountSteps
      BY <3>1, SameSteps
    <3> QED BY <3>1, <3>2, BulkLessAhead
  <2>2. CASE RunReturns
    <3>1. UNCHANGED <<db, read, stream, count, worker, late>> /\ phase = "workers" /\ phase' = "returned"
      BY <2>2 DEF RunReturns, catalogVars, scanVars
    <3>2. CollectionSteps' = {} /\ RowSteps' = RowSteps /\ WorkerSteps' = WorkerSteps /\ CountSteps' = CountSteps
      BY <3>1, SameSteps
    <3> QED BY <3>1, <3>2, BulkLessAhead
  <2>3. ASSUME NEW t \in Collections, CountRecords(t)
        PROVE  Less
    <3>1. UNCHANGED <<db, phase, read, stream, worker, late>> /\ count[t] = "none"
      BY <2>3 DEF CountRecords, catalogVars, scanVars
    <3>2. CollectionSteps' = CollectionSteps /\ RowSteps' = RowSteps /\ WorkerSteps' = WorkerSteps
      BY <3>1, SameSteps
    <3>3. PICK c \in {"counted", "failed"} : count' = [count EXCEPT ![t] = c]
      BY <2>3 DEF CountRecords
    <3>4. count \in [Collections -> {"none", "failed", "counted"}] /\ Collections' = Collections
      BY <3>1 DEF TypeOK, Collections
    <3>5. CountSteps' \subseteq CountSteps /\ t \in CountSteps /\ t \notin CountSteps'
      BY <2>3, <3>1, <3>3, <3>4 DEF CountSteps
    <3> QED BY <3>1, <3>2, <3>5, BulkLessAhead
  <2>4. ~Returned
    BY DEF Returned
  <2> QED BY <2>1, <2>2, <2>3, <2>4, CollectionStepIsAhead, StreamStepIsAhead, WorkerStepIsAhead DEF Next
<1> QED BY <1>1, <1>2, <1>3, <1>4, PTL DEF Spec, BulkStepsRunOut
-----------------------------------------------------------------------------
\* What a deadline does to the bulk scan

IsThrough(w) == worker[w] \in {"assigned", "ok", "err"}
AllRowsLeft == \A w \in Workers : RowsLeft(w)

\* As long as each worker has rows left, whoever is through has failed: nobody has left
\* anything but a failure in the shared err, and nobody has read anything else from it.
AllFail ==
  /\ \A w \in Workers : IsThrough(w) => ScanEnded(w)
  /\ AllRowsLeft => /\ (\E w \in Workers : IsThrough(w)) => err = "failure"
                    /\ \A w \in Workers : worker[w] # "ok"
                    /\ result # "nil"

\* A scan that returns nil has read the streams of one of its workers to their ends: that much
\* is left, as the error of a worker may be lost.
NilScanHasRead ==
  result = "nil" => \E w \in Workers : \A s \in StreamsOf(w) : stream[s].pos = Len(db.rows[s])
\* No row is read once the deadline has passed.
LateScanStops == [][late => \A s \in Streams : stream'[s].pos = stream[s].pos]_vars

LEMMA WorkersRead ==
  /\ \A w \in Workers : StreamsOf(w) \subseteq Streams /\ StreamsOf(w) # {}
  /\ Workers # {}
BY DEF Workers, Streams, StreamsOf

\* A stream step reads at most a row, and none when it is late.
LEMMA RowsGoOn ==
  ASSUME TypeOK, IInv, NEW s \in Streams, StreamStep(s)
  PROVE  /\ UNCHANGED <<db, worker, err, result>>
         /\ \A x \in Streams : stream'[x].pos \in {stream[x].pos, stream[x].pos + 1}
         /\ late => \A x \in Streams : stream'[x].pos = stream[x].pos
<1>1. stream \in [Streams -> StreamRecord] /\ stream[s] \in StreamRecord
  BY DEF TypeOK, StreamRecord
<1>2. UNCHANGED <<db, worker, err, result>>
  BY DEF StreamStep, ReadRow, EndOfRows, ReaderFails
<1>3. CASE ReadRow(s)
  <2> PICK i : i = SequentialFind(FindKeys(s), stream[s].cursor, RowKey(s))
    OBVIOUS
  <2>1. \/ stream' = StopsWith(s, "unknown", i) \/ stream' = StopsWith(s, "no reference", i)
        \/ stream' = [stream EXCEPT ![s].pos = @ + 1, ![s].cursor = CursorAfterHit(i)]
    BY <1>3 DEF ReadRow
  <2>2. ~late
    BY <1>3 DEF ReadRow
  <2>3. ASSUME NEW state, stream' = StopsWith(s, state, i)
        PROVE  \A x \in Streams : stream'[x].pos = stream[x].pos
    BY <1>1, <2>3 DEF StopsWith, StreamRecord
  <2>4. ASSUME stream' = [stream EXCEPT ![s].pos = @ + 1, ![s].cursor = CursorAfterHit(i)]
        PROVE  \A x \in Streams : stream'[x].pos \in {stream[x].pos, stream[x].pos + 1}
    BY <1>1, <2>4 DEF StreamRecord
  <2> QED BY <1>2, <2>1, <2>2, <2>3, <2>4
<1>4. CASE ReaderFails(s)
  <2>1. PICK state : stream' = [stream EXCEPT ![s].state = state]
    BY <1>4 DEF ReaderFails
  <2>2. \A x \in Streams : stream'[x].pos = stream[x].pos
    BY <1>1, <2>1 DEF StreamRecord
  <2> QED BY <1>2, <2>2
<1>5. CASE EndOfRows(s)
  <2>1. stream' = [x \in Streams |->
          CASE x = s -> [stream[s] EXCEPT !.state = "end"]
            [] s = "indexes" /\ x = "indexColumns" -> [stream[x] EXCEPT !.state = "reading"]
            [] OTHER -> stream[x]]
    BY <1>5 DEF EndOfRows
  <2>2. ASSUME NEW x \in Streams
        PROVE  stream'[x].pos = stream[x].pos
    <3>1. stream[x] \in StreamRecord
      BY <1>1
    <3>2. \/ \E state : stream'[x] = [stream[x] EXCEPT !.state = state]
          \/ stream'[x] = stream[x]
      BY <2>1
    <3> QED BY <3>1, <3>2 DEF StreamRecord
  <2> QED BY <1>2, <2>2
<1> QED BY <1>3, <1>4, <1>5 DEF StreamStep

\* A worker whose streams are over with rows left has failed.
LEMMA LeftIsFailed ==
  ASSUME IInv, NEW w \in Workers, ScanEnded(w), RowsLeft(w)
  PROVE  ScanFailed(w)
<1>1. PICK s \in StreamsOf(w) : stream[s].pos < Len(db.rows[s])
  BY DEF RowsLeft
<1>2. s \in Streams /\ Len(db.rows[s]) \in Nat
  BY <1>1, WorkersRead, CatalogLists DEF IInv, Typed
<1>3. stream[s].state # "end"
  BY <1>1, <1>2 DEF IInv, Phases
<1> QED BY <1>1, <1>3 DEF ScanEnded

LEMMA AllFailStep ==
  ASSUME TypeOK, IInv, AllFail, [Next]_vars
  PROVE  AllFail' /\ (late => \A s \in Streams : stream'[s].pos = stream[s].pos)
<1>0. worker \in [Workers -> {"idle", "scanning", "assigned", "ok", "err"}]
  BY DEF TypeOK
<1>1. ASSUME UNCHANGED <<db, stream>>
      PROVE  /\ \A w \in Workers : (ScanEnded(w)' <=> ScanEnded(w)) /\ (RowsLeft(w)' <=> RowsLeft(w))
             /\ \A s \in Streams : stream'[s].pos = stream[s].pos
             /\ AllRowsLeft' <=> AllRowsLeft
  BY <1>1 DEF ScanEnded, ScanFailed, Broken, RowsLeft, AllRowsLeft
<1>2. ASSUME UNCHANGED <<db, stream, worker, err>>, result' \in {result, "failure"}
      PROVE  AllFail' /\ \A s \in Streams : stream'[s].pos = stream[s].pos
  BY <1>1, <1>2 DEF AllFail, IsThrough
<1>3. CASE StartWorkers
  <2>1. /\ UNCHANGED <<db, err, result>> /\ worker' = [w \in Workers |-> "scanning"]
        /\ stream' = [s \in Streams |-> IF s \in Workers THEN [stream[s] EXCEPT !.state = "reading"]
                                        ELSE stream[s]]
    BY <1>3 DEF StartWorkers
  <2>2. ASSUME NEW s \in Streams
        PROVE  stream'[s].pos = stream[s].pos
    <3>1. stream[s] \in StreamRecord
      BY DEF TypeOK, StreamRecord
    <3>2. stream'[s] = [stream[s] EXCEPT !.state = "reading"] \/ stream'[s] = stream[s]
      BY <2>1
    <3> QED BY <3>1, <3>2 DEF StreamRecord
  <2>3. AllRowsLeft' => AllRowsLeft
    BY <2>1, <2>2, WorkersRead DEF AllRowsLeft, RowsLeft
  <2>4. \A w \in Workers : ~IsThrough(w)' /\ worker'[w] # "ok"
    BY <2>1 DEF IsThrough
  <2> QED BY <2>1, <2>2, <2>3, <2>4 DEF AllFail
<1>4. ASSUME NEW s \in Streams, StreamStep(s)
      PROVE  AllFail' /\ (late => \A x \in Streams : stream'[x].pos = stream[x].pos)
  <2>1. /\ UNCHANGED <<db, worker, err, result>>
        /\ \A x \in Streams : stream'[x].pos \in {stream[x].pos, stream[x].pos + 1}
        /\ late => \A x \in Streams : stream'[x].pos = stream[x].pos
    BY <1>4, RowsGoOn
  <2>2. ASSUME NEW w \in Workers, RowsLeft(w)'
        PROVE  RowsLeft(w)
    <3>1. PICK x \in StreamsOf(w) : stream'[x].pos < Len(db.rows[x])
      BY <2>1, <2>2 DEF RowsLeft
    <3>2. x \in Streams /\ Len(db.rows[x]) \in Nat /\ stream[x].pos \in Nat
      BY WorkersRead, CatalogLists DEF IInv, Typed, TypeOK
    <3>3. stream[x].pos < Len(db.rows[x])
      BY <2>1, <3>1, <3>2
    <3> QED BY <3>3 DEF RowsLeft
  <2>3. stream[s].state = "reading"
    BY <1>4 DEF StreamStep, ReadRow, EndOfRows, ReaderFails
  <2>4. \A x \in Streams : Broken(x) \/ stream[x].state = "end" => stream'[x] = stream[x]
    BY <1>4, <2>3, StreamMoves DEF Broken
  <2>5. ASSUME NEW w \in Workers, ScanEnded(w)
        PROVE  ScanEnded(w)'
    BY <2>4, <2>5, WorkersRead DEF ScanEnded, ScanFailed, Broken
  <2>6. AllRowsLeft' => AllRowsLeft
    BY <2>2 DEF AllRowsLeft
  <2>7. \A w \in Workers : IsThrough(w)' <=> IsThrough(w)
    BY <2>1 DEF IsThrough
  <2> QED BY <2>1, <2>5, <2>6, <2>7 DEF AllFail
<1>5. ASSUME NEW w \in Workers, AssignErr(w)
      PROVE  AllFail' /\ \A s \in Streams : stream'[s].pos = stream[s].pos
  <2>1. /\ UNCHANGED <<db, stream, result>> /\ ScanEnded(w) /\ err' = Outcome(w)
        /\ worker' = [worker EXCEPT ![w] = "assigned"]
    BY <1>5 DEF AssignErr, scanVars
  <2>2. AllRowsLeft => err' = "failure"
    BY <2>1, LeftIsFailed DEF AllRowsLeft, Outcome
  <2>3. \A x \in Workers : worker'[x] = IF x = w THEN "assigned" ELSE worker[x]
    BY <1>0, <2>1
  <2> QED BY <1>1, <2>1, <2>2, <2>3 DEF AllFail, IsThrough
<1>6. ASSUME NEW w \in Workers, TestErr(w)
      PROVE  AllFail' /\ \A s \in Streams : stream'[s].pos = stream[s].pos
  <2>1. UNCHANGED <<db, stream, err, result>> /\ worker[w] = "assigned"
    BY <1>6 DEF TestErr, scanVars
  <2>2. PICK e \in {Outcome(w), err} :
          worker' = [worker EXCEPT ![w] = IF e = "nil" THEN "ok" ELSE "err"]
    BY <1>6 DEF TestErr
  <2>3. AllRowsLeft => err = "failure" /\ Outcome(w) = "failure"
    BY <2>1, LeftIsFailed DEF AllFail, AllRowsLeft, Outcome, IsThrough
  <2>4. AllRowsLeft => worker'[w] = "err"
    BY <1>0, <2>2, <2>3
  <2>5. worker'[w] \in {"ok", "err"} /\ \A x \in Workers \ {w} : worker'[x] = worker[x]
    BY <1>0, <2>2
  <2> QED BY <1>1, <2>1, <2>3, <2>4, <2>5 DEF AllFail, IsThrough
<1>7. CASE RunReturns
  <2>1. /\ UNCHANGED <<db, stream, worker>> /\ \A w \in Workers : worker[w] \in {"ok", "err"}
        /\ result' = (IF \E w \in Workers : worker[w] = "err" THEN "failure" ELSE "nil")
        /\ err' = result'
    BY <1>7 DEF RunReturns, scanVars
  <2>2. AllRowsLeft => result' = "failure"
    BY <2>1, WorkersRead DEF AllFail
  <2> QED BY <1>1, <2>1, <2>2 DEF AllFail, IsThrough
<1>8. ReadCollection \/ CollectionsFail => UNCHANGED <<db, stream, worker, err>> /\ result' \in {result, "failure"}
  BY DEF ReadCollection, CollectionsFail, Fail, scanVars
<1>9. DeadlinePasses => UNCHANGED <<db, stream, worker, err, result>>
  BY DEF DeadlinePasses, scanVars
<1>10. ASSUME NEW t \in Collections, CountRecords(t)
       PROVE  UNCHANGED <<db, stream, worker, err, result>>
  BY <1>10 DEF CountRecords, scanVars
<1>11. UNCHANGED vars => UNCHANGED <<db, stream, worker, err, result>>
  BY DEF vars, scanVars
<1> QED BY <1>2, <1>3, <1>4, <1>5, <1>6, <1>7, <1>8, <1>9, <1>10, <1>11
        DEF Next, CollectionStep, WorkerStep, Returned

\* When the deadline passes before any worker has come to the end of its rows, the scan does
\* not return nil: no row is read any more, and nil is for a scan with a worker that has read
\* all of its own.
THEOREM LateScanHasNotRead == Spec => []NilScanHasRead /\ LateScanStops
<1> DEFINE Inv == TypeOK /\ IInv /\ AllFail
           Runs == Inv /\ [Next]_vars
           Stops == late => \A s \in Streams : stream'[s].pos = stream[s].pos
<1>1. Init => Inv
  <2>1. Init => AllFail
    BY DEF Init, AllFail, IsThrough
  <2> QED BY <2>1, TypeInit, InvInit
<1>2. Runs => Inv' /\ Stops
  BY ScanStep, AllFailStep
<1>3. Inv => NilScanHasRead
  <2> SUFFICES ASSUME Inv, result = "nil"
               PROVE  \E w \in Workers : \A s \in StreamsOf(w) : stream[s].pos = Len(db.rows[s])
    BY DEF NilScanHasRead
  <2>1. PICK w \in Workers : ~RowsLeft(w)
    BY DEF AllFail, AllRowsLeft
  <2>2. ASSUME NEW s \in StreamsOf(w)
        PROVE  stream[s].pos = Len(db.rows[s])
    <3>1. s \in Streams /\ Len(db.rows[s]) \in Nat /\ stream[s].pos \in Nat /\ stream[s].pos <= Len(db.rows[s])
      BY WorkersRead, CatalogLists DEF IInv, Typed, TypeOK
    <3>2. ~(stream[s].pos < Len(db.rows[s]))
      BY <2>1, <2>2 DEF RowsLeft
    <3> QED BY <3>1, <3>2
  <2> QED BY <2>2
<1>4. Runs => [Stops]_vars
  BY <1>2
<1> QED BY <1>1, <1>2, <1>3, <1>4, PTL DEF Spec, LateScanStops
===============================================================================
