------------------------------ MODULE BTreeProofs ------------------------------
(***************************************************************************)
(* Theorems about BTree, for every set of rowids, every payload that fits  *)
(* a page and every number of pages: what the descent finds, that no page  *)
(* is leaked or shared, that the leaves stay at one depth.                 *)
(*                                                                         *)
(* While a separator is on its way up, the file is not a tree: the right   *)
(* half of the last split has no parent.  The invariant speaks of the tree *)
(* that the promotion is about to make, in which the page at this level    *)
(* already holds the separator, however little room it has.                *)
(***************************************************************************)
EXTENDS BTree, TreeProofs

\* The constants and the types that follow from the assumptions on them.
LEMMA Constants ==
  /\ MaxPages \in Nat /\ LeafRoom \in Nat /\ NodeRoom \in Nat /\ NodeRoom >= 2
  /\ Root \in PageId /\ NoPage \notin PageId /\ PageId \in SUBSET Nat /\ 0 \notin PageId
  /\ Rowid \in SUBSET Nat /\ CellSet(Cells)
  /\ \A pl \in Payload : pl.size \in 1 .. LeafRoom /\ pl.size \in Nat /\ pl.spill \in Nat
<1>1. MaxPages \in Nat /\ LeafRoom \in Nat /\ NodeRoom \in Nat /\ NodeRoom >= 2 /\ Rowid \in SUBSET Nat /\ MaxPages >= 1
  BY TreeAssumption
<1>2. Root \in PageId /\ NoPage \notin PageId /\ PageId \in SUBSET Nat /\ 0 \notin PageId
  BY ONLY <1>1 DEF Root, NoPage, PageId
<1>3. CellSet(Cells)
  <2> SUFFICES ASSUME NEW c \in Cells PROVE c.size \in Nat /\ c.key \in Nat
    BY DEF CellSet
  <2>1. c.size \in 1 .. LeafRoom /\ c.key \in Rowid
    BY DEF Cells
  <2>2. \A n \in 1 .. LeafRoom : n \in Nat
    BY ONLY <1>1
  <2>3. \A n \in Rowid : n \in Nat
    BY ONLY <1>1
  <2> QED BY ONLY <2>1, <2>2, <2>3
<1>4. \A pl \in Payload : pl.size \in 1 .. LeafRoom /\ pl.size \in Nat /\ pl.spill \in Nat
  <2> TAKE pl \in Payload
  <2>1. pl \in [size : 1 .. LeafRoom, spill : Nat]
    BY TreeAssumption
  <2> QED BY ONLY <2>1, <1>1
<1> QED BY ONLY <1>1, <1>2, <1>3, <1>4

-----------------------------------------------------------------------------
(* The invariant *)

\* The page at this level, its slot there, and the tree once the separator of
\* the operation o is in.
At(o) == o.path[o.level][1]
SlotAt(o) == o.path[o.level][2]
GrownOf(F, o) == Promoted(F[At(o)], SlotAt(o), RouteCell(o.separator), o.left, o.right)
TreeOf(F, o) == IF o.kind = "promote" THEN [F EXCEPT ![At(o)] = GrownOf(F, o)] ELSE F
HoleOf(o) == IF o.kind = "unlink" THEN o.left ELSE NoPage

\* A page is free, or it has the room for what it holds.
RoomKept(F, p) ==
  \/ F[p] = FreePage
  \/ F[p].kind = "overflow"
  \/ F[p].kind = "leaf" /\ Used(F[p].cells) <= LeafRoom
  \/ /\ F[p].kind = "interior"
     /\ Len(F[p].cells) <= NodeRoom
     /\ \A i \in 1 .. Len(F[p].cells) : F[p].cells[i].size = 1 /\ F[p].cells[i].over = NoPage

FilePages(F, o) ==
  /\ F = [p \in PageId |-> F[p]]
  /\ \A p \in PageId : RoomKept(F, p)
  /\ \A p \in PageId : F[p].kind = "leaf" /\ F[p].cells = <<>> => p = Root \/ p = HoleOf(o)

FreeOf(F) == {p \in PageId : F[p].kind = "free"}

OpType == [kind : {"idle", "promote", "unlink"}, path : Seq(PageId \X Nat), level : Nat,
           separator : Nat, left : PageId \cup {NoPage}, right : PageId \cup {NoPage}]

\* The path still leads from the root to this level, and from there to the page
\* that was split or emptied below.
OpOnPath(F, o) ==
  /\ o.left \in PageId
  /\ o.level \in 1 .. Len(o.path) /\ o.path[1][1] = Root
  /\ \A i \in 1 .. o.level - 1 : Edge(F, o.path[i][1], o.path[i][2], o.path[i + 1][1])
  /\ Edge(F, At(o), SlotAt(o), o.left)
  /\ Node(Cells, PageId, F[At(o)])

OpUnderWay(F, o) ==
  /\ o \in OpType
  /\ o.kind = "idle" => o = Idle
  /\ o.kind # "idle" => OpOnPath(F, o)
  /\ o.kind = "promote" => /\ o.right \in PageId /\ RouteCell(o.separator) \in Cells
                           /\ Cardinality(FreeOf(F)) >= o.level + 1
  /\ o.kind = "unlink" => F[o.left] = Leaf(<<>>) \/ Childless(F[o.left])

\* The cells of all leaves are the rows, each with its chain.
LeafCell(F, p, i, c) == F[p].kind = "leaf" /\ i \in 1 .. Len(F[p].cells) /\ F[p].cells[i] = c
LeafCells(F) == {c \in Cells : \E p \in PageId, i \in Nat : LeafCell(F, p, i, c)}
Start(s) == IF Len(s) = 0 THEN NoPage ELSE s[1]
RowsFiled(L, R, ch) ==
  /\ \A c \in L : c.key \in DOMAIN R /\ c.size = R[c.key].size /\ c.over = Start(ch[c.key])
  /\ \A r \in DOMAIN R : \E c \in L : c.key = r

\* Every row has its own overflow pages, in order, and there are no others.
ChainPage(r, i, s) ==
  [kind |-> "overflow", cells |-> << [key |-> r, size |-> i, over |-> NoPage] >>,
   kids |-> <<IF i < Len(s) THEN s[i + 1] ELSE NoPage>>]
ChainsLaid(F, R, ch) ==
  /\ ch \in [DOMAIN R -> Seq(PageId)]
  /\ \A r \in DOMAIN R : Len(ch[r]) = R[r].spill
  /\ \A r \in DOMAIN R, i \in Nat : i \in 1 .. Len(ch[r]) => F[ch[r][i]] = ChainPage(r, i, ch[r])
  /\ \A p \in PageId : F[p].kind = "overflow" =>
        \E r \in DOMAIN R, i \in Nat : i \in 1 .. Len(ch[r]) /\ ch[r][i] = p

RowsTyped(R) ==
  /\ R = [r \in DOMAIN R |-> R[r]] /\ DOMAIN R \subseteq Rowid
  /\ \A r \in DOMAIN R : R[r] \in Payload /\ R[r].spill <= MaxPages

Shaped(F, o) == \E ht, span : Structure(Cells, TreeOf(F, o), Root, HoleOf(o), ht, span)
Stored(F, R) == \E ch : RowsFiled(LeafCells(F), R, ch) /\ ChainsLaid(F, R, ch)

Sound(F, o, R) ==
  FilePages(F, o) /\ OpUnderWay(F, o) /\ RowsTyped(R) /\ Shaped(F, o) /\ Stored(F, R)

Inv ==
  /\ Sound(file, op, rows)
  /\ removed = Nothing \/ removed.rowid \in Rowid

-----------------------------------------------------------------------------
(* Initially *)

\* The invariant holds of the empty tree.
LEMMA InitSound ==
  Init => Inv
<1> SUFFICES ASSUME Init PROVE Inv
  OBVIOUS
<1>0. Root \in PageId /\ NoPage \notin PageId
  BY Constants
<1>1. /\ file = [p \in PageId |-> IF p = Root THEN Leaf(<<>>) ELSE FreePage]
      /\ op = Idle /\ DOMAIN rows = {} /\ rows = [r \in {} |-> Nothing.payload] /\ removed = Nothing
  BY DEF Init
<1>2. file[Root] = Leaf(<<>>) /\ \A p \in PageId : p # Root => file[p] = FreePage
  BY <1>0, <1>1
<1>3. file = [p \in PageId |-> file[p]] /\ DOMAIN file = PageId
  BY <1>1
<1>4. op.kind = "idle" /\ op \in OpType
  BY <1>1 DEF Idle, OpType
<1>5. \A p \in PageId : p # Root => file[p].kind = "free" /\ ~TreePage(file, p)
  BY <1>2 DEF FreePage, TreePage
<1>6. file[Root].kind = "leaf" /\ file[Root].cells = <<>> /\ file[Root].kids = <<>> /\ TreePage(file, Root)
  BY <1>2 DEF Leaf, TreePage
<1>7. Used(<<>>) = 0
  <2>1. <<>> \in Seq(Cells) /\ Len(<<>>) = 0 /\ CellSet(Cells)
    BY Constants
  <2> QED BY ONLY <2>1, RunFacts
<1>8. FilePages(file, op)
  <2>1. \A p \in PageId : RoomKept(file, p)
    BY <1>2, <1>6, <1>7, Constants DEF RoomKept
  <2> QED BY <1>3, <1>5, <2>1 DEF FilePages
<1>9. OpUnderWay(file, op)
  BY <1>1, <1>4 DEF OpUnderWay
<1>10. RowsTyped(rows)
  BY <1>1 DEF RowsTyped
<1>11. Shaped(file, op)
  <2> DEFINE ht == [p \in PageId |-> 0]  span == [p \in PageId |-> {}]
  <2>0. TreeOf(file, op) = file
    BY <1>4 DEF TreeOf
  <2>1. \A u, y \in PageId, i \in Nat : ~Edge(file, u, i, y)
    BY <1>5, <1>6 DEF Edge, TreePage
  <2>2. WellFormed(Cells, file, HoleOf(op))
    <3>1. Node(Cells, PageId, file[Root])
      BY <1>6 DEF Node, Sorted
    <3> QED BY <1>3, <1>5, <3>1 DEF WellFormed
  <2>3. Heights(file, Root, ht)
    <3>1. \A p \in PageId : file[p].kind # "interior"
      BY <1>5, <1>6
    <3>2. ht \in [PageId -> Nat] /\ \A p \in PageId : ht[p] = 0 /\ ht[p] <= ht[Root]
      BY <1>0
    <3> HIDE DEF ht
    <3> QED BY ONLY <1>0, <1>3, <1>6, <2>1, <3>1, <3>2 DEF Heights
  <2>4. Parents(file, Root)
    BY <1>0, <1>3, <1>5, <2>1 DEF Parents
  <2>5. Spans(file, span)
    <3>1. span \in [PageId -> SUBSET Nat]
      OBVIOUS
    <3>2. \A p \in PageId : TreePage(file, p) => \A i \in 1 .. Len(file[p].cells) : file[p].cells[i].key \in span[p]
      <4>1. \A i \in 1 .. Len(file[Root].cells) : FALSE
        BY <1>6
      <4> QED BY <4>1, <1>5
    <3> HIDE DEF span
    <3> QED BY ONLY <1>3, <2>1, <3>1, <3>2 DEF Spans
  <2>6. Structure(Cells, TreeOf(file, op), Root, HoleOf(op), ht, span)
    BY <2>0, <2>2, <2>3, <2>4, <2>5 DEF Structure
  <2> QED BY <2>6, Zenon DEF Shaped
<1>12. Stored(file, rows)
  <2>1. LeafCells(file) = {}
    <3>1. \A p \in PageId, i \in Nat, c \in Cells : ~LeafCell(file, p, i, c)
      BY <1>5, <1>6 DEF LeafCell
    <3> QED BY <3>1 DEF LeafCells
  <2>3. ChainsLaid(file, rows, [r \in {} |-> <<>>])
    <3>1. \A p \in PageId : file[p].kind # "overflow"
      BY <1>5, <1>6
    <3> QED BY <1>1, <3>1 DEF ChainsLaid
  <2>4. RowsFiled(LeafCells(file), rows, [r \in {} |-> <<>>])
    BY <1>1, <2>1 DEF RowsFiled
  <2> QED BY <2>3, <2>4, Zenon DEF Stored
<1> QED BY <1>1, <1>8, <1>9, <1>10, <1>11, <1>12 DEF Inv, Sound

-----------------------------------------------------------------------------
(* What the descent finds *)

\* Between two operations the file itself is the tree.
LEMMA AtRest ==
  ASSUME Inv, op = Idle
  PROVE  /\ DOMAIN file = PageId /\ file = [p \in PageId |-> file[p]]
         /\ HoleOf(op) = NoPage
         /\ \E ht, span : Structure(Cells, file, Root, NoPage, ht, span)
         /\ \A p \in PageId : RoomKept(file, p)
         /\ \A p \in PageId : file[p].kind = "leaf" /\ file[p].cells = <<>> => p = Root
         /\ RowsTyped(rows) /\ Stored(file, rows)
<1>1. op.kind = "idle"
  BY DEF Idle
<1>2. TreeOf(file, op) = file /\ HoleOf(op) = NoPage
  BY <1>1 DEF TreeOf, HoleOf
<1>3. FilePages(file, op) /\ RowsTyped(rows) /\ Stored(file, rows) /\ Shaped(file, op)
  BY DEF Inv, Sound
<1>4. /\ DOMAIN file = PageId /\ file = [p \in PageId |-> file[p]]
      /\ \A p \in PageId : RoomKept(file, p)
      /\ \A p \in PageId : file[p].kind = "leaf" /\ file[p].cells = <<>> => p = Root
  <2>1. /\ file = [p \in PageId |-> file[p]]
        /\ \A p \in PageId : RoomKept(file, p)
        /\ \A p \in PageId : file[p].kind = "leaf" /\ file[p].cells = <<>> => p = Root \/ p = NoPage
    BY ONLY <1>2, <1>3 DEF FilePages
  <2>2. DOMAIN file = PageId
    BY ONLY <2>1
  <2> QED BY ONLY <2>1, <2>2, Constants
<1>5. \E ht, span : Structure(Cells, file, Root, NoPage, ht, span)
  BY ONLY <1>2, <1>3, Zenon DEF Shaped
<1> QED BY ONLY <1>2, <1>3, <1>4, <1>5, Zenon

\* _find_leaf() returns a path.
LEMMA FindLeafLeads ==
  ASSUME Inv, op = Idle, NEW r \in Nat
  PROVE  Leads(Cells, file, Root, r, FindLeaf(r))
<1>1. DOMAIN file = PageId
  BY AtRest
<1>2. PICK ht, span : Structure(Cells, file, Root, NoPage, ht, span)
  BY AtRest
<1>3. CellSet(Cells) /\ NoPage \notin DOMAIN file /\ 0 \notin DOMAIN file
  BY <1>1, Constants
<1>4. Leads(Cells, file, Root, r, Descent(file, Root, [p \in DOMAIN file |-> LowerBound(file[p].cells, r)]))
  BY ONLY <1>2, <1>3, r \in Nat, DescentLeads
<1> QED BY ONLY <1>1, <1>4 DEF FindLeaf

\* A row's path ends at its cell.
LEMMA FindLeafFinds ==
  ASSUME Inv, op = Idle, NEW r \in Nat, NEW c \in LeafCells(file), c.key = r
  PROVE  /\ Last(FindLeaf(r))[2] \in 1 .. Len(file[Last(FindLeaf(r))[1]].cells)
         /\ file[Last(FindLeaf(r))[1]].cells[Last(FindLeaf(r))[2]] = c
<1> DEFINE path == FindLeaf(r)  q == Last(path)[1]  s == Last(path)[2]
<1>1. DOMAIN file = PageId
  BY AtRest
<1>2. PICK ht, span : Structure(Cells, file, Root, NoPage, ht, span)
  BY AtRest
<1>3. CellSet(Cells) /\ NoPage \notin DOMAIN file
  BY <1>1, Constants
<1>4. Leads(Cells, file, Root, r, path)
  BY FindLeafLeads
<1>5. PICK p \in PageId, i \in Nat : LeafCell(file, p, i, c)
  BY DEF LeafCells
<1>6. p \in DOMAIN file /\ file[p].kind = "leaf" /\ i \in 1 .. Len(file[p].cells) /\ file[p].cells[i] = c
  BY <1>1, <1>5 DEF LeafCell
<1>7. TreePage(file, p)
  BY <1>6 DEF TreePage
<1>8. r \in span[p]
  BY <1>2, <1>6, <1>7 DEF Structure, Spans
<1>9. p = q
  BY <1>2, <1>3, <1>4, <1>6, <1>8, LeadsHome
<1>10. s \in 1 .. Len(file[q].cells) + 1 /\ Routes(file[q].cells, s, r)
  BY <1>4, LeadsFacts
<1>11. file[p].cells \in Seq(Cells) /\ Sorted(file[p].cells)
  BY <1>2, <1>3, <1>6, <1>7, NodeOf DEF Structure, Node
<1> HIDE DEF path, q, s
<1>12. s = i
  BY <1>3, <1>6, <1>9, <1>10, <1>11, HomeSlot
<1>13. s \in 1 .. Len(file[q].cells) /\ file[q].cells[s] = c
  BY ONLY <1>6, <1>9, <1>12
<1> QED BY ONLY <1>13 DEF path, q, s

\* search() says whether the row is there.
LEMMA SearchTells ==
  ASSUME Inv, op = Idle, NEW r \in Nat
  PROVE  Search(r) <=> r \in DOMAIN rows
<1> DEFINE q == Last(FindLeaf(r))[1]  s == Last(FindLeaf(r))[2]
<1>1. DOMAIN file = PageId
  BY AtRest
<1>2. PICK ch : RowsFiled(LeafCells(file), rows, ch) /\ ChainsLaid(file, rows, ch)
  BY AtRest DEF Stored
<1>3. Search(r) <=> s <= Len(file[q].cells) /\ file[q].cells[s].key = r
  BY DEF Search
<1>4. ASSUME r \in DOMAIN rows PROVE Search(r)
  <2>1. PICK c \in LeafCells(file) : c.key = r
    BY <1>2, <1>4 DEF RowsFiled
  <2>2. s \in 1 .. Len(file[q].cells) /\ file[q].cells[s] = c
    BY <2>1, FindLeafFinds
  <2>3. s <= Len(file[q].cells)
    BY ONLY <2>2
  <2> QED BY ONLY <1>3, <2>1, <2>2, <2>3
<1>5. ASSUME Search(r) PROVE r \in DOMAIN rows
  <2>1. Leads(Cells, file, Root, r, FindLeaf(r))
    BY FindLeafLeads
  <2>2. q \in PageId /\ file[q].kind = "leaf" /\ s \in 1 .. Len(file[q].cells) + 1
    BY <1>1, <2>1, LeadsFacts
  <2>3. file[q].cells \in Seq(Cells)
    <3>1. PICK ht, span : Structure(Cells, file, Root, NoPage, ht, span)
      BY AtRest
    <3>2. TreePage(file, q) /\ NoPage \notin DOMAIN file
      BY <1>1, <2>2, Constants DEF TreePage
    <3> QED BY <3>1, <3>2, <1>1, <2>2, NodeOf DEF Structure, Node
  <2> HIDE DEF q, s
  <2>4. s \in 1 .. Len(file[q].cells) /\ file[q].cells[s].key = r /\ s \in Nat
    BY ONLY <1>3, <1>5, <2>2, <2>3
  <2>5. file[q].cells[s] \in LeafCells(file)
    BY <2>2, <2>3, <2>4 DEF LeafCells, LeafCell
  <2> QED BY <1>2, <2>4, <2>5 DEF RowsFiled
<1> QED BY <1>4, <1>5

\* read_overflow_chain() reads the row's own pages, all of them, in order.
LEMMA ChainRead ==
  ASSUME NEW ch, ChainsLaid(file, rows, ch), RowsTyped(rows), NEW r \in DOMAIN rows
  PROVE  ChainFrom(Start(ch[r])) = ch[r]
<1> DEFINE s == ch[r]
           next == [q \in PageId |-> IF file[q].kind = "overflow" THEN file[q].kids[1] ELSE NoPage]
           mu == [q \in PageId |-> IF file[q].kind = "overflow"
                                   THEN rows[file[q].cells[1].key].spill - file[q].cells[1].size ELSE 0]
<1>1. /\ ch \in [DOMAIN rows -> Seq(PageId)]
      /\ \A x \in DOMAIN rows : Len(ch[x]) = rows[x].spill
      /\ \A x \in DOMAIN rows, i \in Nat : i \in 1 .. Len(ch[x]) => file[ch[x][i]] = ChainPage(x, i, ch[x])
      /\ \A p \in PageId : file[p].kind = "overflow" =>
            \E x \in DOMAIN rows, i \in Nat : i \in 1 .. Len(ch[x]) /\ ch[x][i] = p
  BY DEF ChainsLaid
<1>2. \A x \in DOMAIN rows : rows[x].spill \in Nat /\ rows[x].spill <= MaxPages
  BY Constants DEF RowsTyped
<1>3. MaxPages \in Nat /\ NoPage \notin PageId
  BY Constants
<1>4. s \in Seq(PageId) /\ Len(s) \in Nat
  BY <1>1
<1>5. CASE Len(s) = 0
  <2>1. Start(s) = NoPage /\ s = <<>>
    BY <1>4, <1>5 DEF Start
  <2> QED BY <2>1 DEF ChainFrom
<1>6. CASE Len(s) # 0
  <2>1. Start(s) = s[1] /\ 1 \in 1 .. Len(s) /\ s[1] \in PageId
    BY <1>4, <1>6 DEF Start
  <2>2. ChainFrom(Start(s)) = Follow(next, s[1])
    BY <2>1, <1>3 DEF ChainFrom
  <2>3. \A q \in PageId : next[q] = IF file[q].kind = "overflow" THEN file[q].kids[1] ELSE NoPage
    OBVIOUS
  <2>4. \A q \in PageId : mu[q] = IF file[q].kind = "overflow"
                                  THEN rows[file[q].cells[1].key].spill - file[q].cells[1].size ELSE 0
    OBVIOUS
  <2>d. DOMAIN next = PageId /\ DOMAIN mu = PageId /\ mu = [q \in PageId |-> mu[q]]
    OBVIOUS
  <2> HIDE DEF next, mu, s
  <2>5. ASSUME NEW x \in DOMAIN rows, NEW i \in Nat, i \in 1 .. Len(ch[x])
        PROVE  /\ ch[x][i] \in PageId
               /\ next[ch[x][i]] = IF i < Len(ch[x]) THEN ch[x][i + 1] ELSE NoPage
               /\ mu[ch[x][i]] = Len(ch[x]) - i
               /\ Len(ch[x]) \in Nat /\ Len(ch[x]) <= MaxPages
    <3>1. ch[x] \in Seq(PageId) /\ Len(ch[x]) = rows[x].spill
      BY <1>1
    <3>2. ch[x][i] \in PageId
      BY ONLY <3>1, <2>5
    <3>3. file[ch[x][i]] = ChainPage(x, i, ch[x])
      BY ONLY <1>1, <2>5, x \in DOMAIN rows, i \in Nat
    <3>4. /\ file[ch[x][i]].kind = "overflow"
          /\ file[ch[x][i]].kids[1] = IF i < Len(ch[x]) THEN ch[x][i + 1] ELSE NoPage
          /\ file[ch[x][i]].cells[1].key = x /\ file[ch[x][i]].cells[1].size = i
      BY ONLY <3>3 DEF ChainPage
    <3>5. Len(ch[x]) \in Nat /\ Len(ch[x]) <= MaxPages
      BY ONLY <3>1, <1>2, x \in DOMAIN rows
    <3> QED BY ONLY <2>3, <2>4, <3>1, <3>2, <3>4, <3>5
  <2>6. ASSUME NEW q \in PageId
        PROVE  mu[q] \in Nat /\ mu[q] < MaxPages + 1 /\ (next[q] \in PageId => mu[next[q]] < mu[q])
    <3>1. CASE file[q].kind # "overflow"
      BY ONLY <3>1, <2>3, <2>4, <1>3, q \in PageId
    <3>2. CASE file[q].kind = "overflow"
      <4>1. PICK x \in DOMAIN rows, i \in Nat : i \in 1 .. Len(ch[x]) /\ ch[x][i] = q
        BY ONLY <1>1, <3>2, q \in PageId
      <4>2. /\ next[q] = IF i < Len(ch[x]) THEN ch[x][i + 1] ELSE NoPage
            /\ mu[q] = Len(ch[x]) - i
            /\ Len(ch[x]) \in Nat /\ Len(ch[x]) <= MaxPages
        BY <4>1, <2>5
      <4>3. i < Len(ch[x]) => mu[ch[x][i + 1]] = Len(ch[x]) - (i + 1)
        <5> SUFFICES ASSUME i < Len(ch[x]) PROVE mu[ch[x][i + 1]] = Len(ch[x]) - (i + 1)
          OBVIOUS
        <5>1. i + 1 \in Nat /\ i + 1 \in 1 .. Len(ch[x])
          BY ONLY <4>1, <4>2, i < Len(ch[x])
        <5> QED BY <5>1, <2>5
      <4>4. mu[q] \in Nat /\ mu[q] < MaxPages + 1
        BY ONLY <4>1, <4>2, <1>3
      <4>5. CASE i < Len(ch[x])
        <5>1. next[q] = ch[x][i + 1] /\ mu[ch[x][i + 1]] < mu[q]
          BY ONLY <4>2, <4>3, <4>5, i \in Nat
        <5> QED BY ONLY <4>4, <5>1
      <4>6. CASE ~(i < Len(ch[x]))
        BY ONLY <4>2, <4>4, <4>6, <1>3
      <4> QED BY <4>5, <4>6
    <3> QED BY <3>1, <3>2
  <2>7. Descends(next, mu, MaxPages + 1)
    <3>0. \A q \in PageId : mu[q] \in Nat
      BY <2>6
    <3>1. mu \in [PageId -> Nat]
      BY ONLY <3>0, <2>d
    <3>2. MaxPages + 1 \in Nat
      BY ONLY <1>3
    <3> QED BY ONLY <3>1, <3>2, <2>6, <2>d DEF Descends
  <2>8. IsWalk(next, s[1], Follow(next, s[1]))
    BY <2>1, <2>7, <2>d, FollowWalks
  <2>9. \A i \in Nat : i \in 1 .. Len(s) => next[s[i]] = IF i < Len(s) THEN s[i + 1] ELSE NoPage
    BY <2>5 DEF s
  <2>10. IsWalk(next, s[1], s)
    <3>1. \A i \in 1 .. Len(s) - 1 : s[i + 1] = next[s[i]]
      <4> TAKE i \in 1 .. Len(s) - 1
      <4>1. i \in Nat /\ i \in 1 .. Len(s) /\ i < Len(s)
        BY <1>4
      <4> QED BY ONLY <4>1, <2>9
    <3>2. next[s[Len(s)]] \notin PageId
      <4>1. Len(s) \in Nat /\ Len(s) \in 1 .. Len(s) /\ ~(Len(s) < Len(s))
        BY <1>4, <1>6
      <4> QED BY ONLY <4>1, <2>9, <1>3
    <3>3. Len(s) >= 1
      BY <1>4, <1>6
    <3> QED BY ONLY <1>4, <2>d, <3>1, <3>2, <3>3 DEF IsWalk
  <2>11. Follow(next, s[1]) = s
    BY ONLY <2>8, <2>10, WalkOnce
  <2> QED BY ONLY <2>2, <2>11 DEF s
<1> QED BY <1>5, <1>6

\* The invariant answers for what a lookup returns.
LEMMA InvLookup ==
  Inv => LookupReadsRow
<1> SUFFICES ASSUME Inv, op = Idle, NEW r \in Rowid
             PROVE  /\ Search(r) <=> r \in DOMAIN rows
                    /\ r \in DOMAIN rows => RowAt(FindLeaf(r)) = [rowid |-> r, payload |-> rows[r]]
  BY DEF LookupReadsRow
<1>1. r \in Nat
  BY Constants
<1>2. Search(r) <=> r \in DOMAIN rows
  BY <1>1, SearchTells
<1>3. ASSUME r \in DOMAIN rows PROVE RowAt(FindLeaf(r)) = [rowid |-> r, payload |-> rows[r]]
  <2>1. PICK ch : RowsFiled(LeafCells(file), rows, ch) /\ ChainsLaid(file, rows, ch)
    BY AtRest DEF Stored
  <2>2. PICK c \in LeafCells(file) : c.key = r
    BY <1>3, <2>1 DEF RowsFiled
  <2>3. file[Last(FindLeaf(r))[1]].cells[Last(FindLeaf(r))[2]] = c
    BY <1>1, <2>2, FindLeafFinds
  <2>4. c.size = rows[r].size /\ c.over = Start(ch[r])
    BY <2>1, <2>2 DEF RowsFiled
  <2>5. RowsTyped(rows)
    BY AtRest
  <2>6. ChainFrom(c.over) = ch[r]
    BY <1>3, <2>1, <2>4, <2>5, ChainRead
  <2>7. ch[r] \in Seq(PageId) /\ Len(ch[r]) = rows[r].spill /\ Len(ch[r]) \in Nat
        /\ \A i \in Nat : i \in 1 .. Len(ch[r]) => file[ch[r][i]] = ChainPage(r, i, ch[r])
    BY <1>3, <2>1 DEF ChainsLaid
  <2>8. \A i \in Slots(ch[r]) : file[ch[r][i]].cells = << [key |-> r, size |-> i, over |-> NoPage] >>
    <3> SUFFICES ASSUME NEW i \in 1 .. Len(ch[r])
        PROVE file[ch[r][i]].cells = << [key |-> r, size |-> i, over |-> NoPage] >>
      BY DEF Slots
    <3>1. i \in Nat
      BY <2>7
    <3>2. file[ch[r][i]] = ChainPage(r, i, ch[r])
      BY <2>7, <3>1
    <3> QED BY ONLY <3>2 DEF ChainPage
  <2>9. RowAt(FindLeaf(r)) = [rowid |-> r, payload |-> [size |-> rows[r].size, spill |-> rows[r].spill]]
    BY ONLY <2>2, <2>3, <2>4, <2>6, <2>7, <2>8 DEF RowAt
  <2>10. rows[r] = [size |-> rows[r].size, spill |-> rows[r].spill]
    <3>1. rows[r] \in [size : 1 .. LeafRoom, spill : Nat]
      BY <1>3, <2>5, TreeAssumption DEF RowsTyped
    <3> QED BY ONLY <3>1
  <2> QED BY ONLY <2>9, <2>10
<1> QED BY <1>2, <1>3

-----------------------------------------------------------------------------
(* A tree whose pages are the file's *)

\* In every state, the pages that are trees' are known by their kind, and a
\* page that is not the promotion's is the same in the file and in the tree.
LEMMA TreeOfFacts ==
  ASSUME NEW F, NEW o, FilePages(F, o), OpUnderWay(F, o)
  PROVE  /\ DOMAIN F = PageId /\ DOMAIN TreeOf(F, o) = PageId
         /\ o.kind # "promote" => TreeOf(F, o) = F
         /\ o.kind = "promote" =>
               /\ At(o) \in PageId /\ F[At(o)].kind = "interior"
               /\ TreeOf(F, o) = [F EXCEPT ![At(o)] = GrownOf(F, o)]
               /\ TreeOf(F, o)[At(o)] = GrownOf(F, o) /\ GrownOf(F, o).kind = "interior"
               /\ \A p \in PageId : p # At(o) => TreeOf(F, o)[p] = F[p]
         /\ \A p \in PageId : TreeOf(F, o)[p].kind = F[p].kind
<1>1. F = [p \in PageId |-> F[p]]
  BY DEF FilePages
<1>2. DOMAIN F = PageId
  BY ONLY <1>1
<1>3. CASE o.kind # "promote"
  <2>1. TreeOf(F, o) = F
    BY <1>3 DEF TreeOf
  <2> QED BY ONLY <1>2, <1>3, <2>1
<1>4. CASE o.kind = "promote"
  <2>1. OpOnPath(F, o) /\ o \in OpType
    BY <1>4 DEF OpUnderWay
  <2>2. At(o) \in PageId /\ F[At(o)].kind = "interior"
    <3>1. o.path \in Seq(PageId \X Nat) /\ o.level \in 1 .. Len(o.path) /\ F[At(o)].kind = "interior"
      BY <2>1 DEF OpOnPath, OpType, Edge
    <3>2. o.path[o.level] \in PageId \X Nat
      BY ONLY <3>1
    <3> QED BY ONLY <3>1, <3>2 DEF At
  <2>3. TreeOf(F, o) = [F EXCEPT ![At(o)] = GrownOf(F, o)]
    BY <1>4 DEF TreeOf
  <2>4. GrownOf(F, o).kind = "interior"
    BY DEF GrownOf, Promoted, Interior
  <2>5. /\ DOMAIN TreeOf(F, o) = PageId /\ TreeOf(F, o)[At(o)] = GrownOf(F, o)
        /\ \A p \in PageId : p # At(o) => TreeOf(F, o)[p] = F[p]
    BY ONLY <1>1, <1>2, <2>2, <2>3
  <2> QED BY ONLY <1>2, <1>4, <2>2, <2>3, <2>4, <2>5
<1> QED BY <1>3, <1>4

\* What a promotion makes of the page at its level.
LEMMA GrownFacts ==
  ASSUME NEW F, NEW o, o.kind = "promote", OpUnderWay(F, o)
  PROVE  /\ F[At(o)].cells \in Seq(Cells) /\ F[At(o)].kids \in Seq(PageId)
         /\ Len(F[At(o)].kids) = Len(F[At(o)].cells) + 1 /\ Len(F[At(o)].cells) \in Nat
         /\ SlotAt(o) \in 1 .. Len(F[At(o)].kids) /\ F[At(o)].kids[SlotAt(o)] = o.left
         /\ o.left \in PageId /\ o.right \in PageId /\ RouteCell(o.separator) \in Cells
         /\ GrownOf(F, o) = Interior(GrownOf(F, o).cells, GrownOf(F, o).kids)
         /\ GrownOf(F, o).cells \in Seq(Cells)
         /\ Len(GrownOf(F, o).cells) = Len(F[At(o)].cells) + 1
         /\ IsInsert(F[At(o)].cells, SlotAt(o), RouteCell(o.separator), GrownOf(F, o).cells)
         /\ GrownOf(F, o).kids \in Seq(PageId)
         /\ Len(GrownOf(F, o).kids) = Len(F[At(o)].kids) + 1
         /\ IsPromoted(F[At(o)].kids, SlotAt(o), o.left, o.right, GrownOf(F, o).kids)
<1> DEFINE pg == F[At(o)]  s == SlotAt(o)  g == GrownOf(F, o)  x == RouteCell(o.separator)
<1>1. OpOnPath(F, o) /\ o.right \in PageId /\ x \in Cells
  BY DEF OpUnderWay
<1>2. Node(Cells, PageId, pg) /\ Edge(F, At(o), s, o.left) /\ o.left \in PageId
  BY <1>1 DEF OpOnPath
<1>3. g = Interior(WithCell(pg.cells, s, x), KidsPromoted(pg.kids, s, o.left, o.right))
  BY DEF GrownOf, Promoted, KidsPromoted
<1> HIDE DEF x, g
<1>4. /\ pg.cells \in Seq(Cells) /\ pg.kids \in Seq(PageId)
      /\ Len(pg.kids) = Len(pg.cells) + 1 /\ Len(pg.cells) \in Nat
      /\ s \in 1 .. Len(pg.kids) /\ pg.kids[s] = o.left
  BY <1>2 DEF Node, Edge
<1> HIDE DEF pg, s
<1>5. g.cells = WithCell(pg.cells, s, x) /\ g.kids = KidsPromoted(pg.kids, s, o.left, o.right)
      /\ g = Interior(g.cells, g.kids)
  BY ONLY <1>3 DEF Interior
<1>6. s \in 1 .. Len(pg.cells) + 1
  BY ONLY <1>4
<1>7. /\ g.cells \in Seq(Cells) /\ Len(g.cells) = Len(pg.cells) + 1 /\ IsInsert(pg.cells, s, x, g.cells)
  BY ONLY <1>1, <1>4, <1>5, <1>6, WithCellFacts
<1>8. /\ g.kids \in Seq(PageId) /\ Len(g.kids) = Len(pg.kids) + 1
      /\ IsPromoted(pg.kids, s, o.left, o.right, g.kids)
  <2>1. pg.kids \in Seq(PageId) /\ s \in 1 .. Len(pg.kids) /\ o.left \in PageId /\ o.right \in PageId
    BY ONLY <1>1, <1>2, <1>4
  <2>2. /\ KidsPromoted(pg.kids, s, o.left, o.right) \in Seq(PageId)
        /\ Len(KidsPromoted(pg.kids, s, o.left, o.right)) = Len(pg.kids) + 1
        /\ IsPromoted(pg.kids, s, o.left, o.right, KidsPromoted(pg.kids, s, o.left, o.right))
    BY ONLY <2>1, PromotedKids
  <2> QED BY ONLY <1>5, <2>2
<1> QED BY ONLY <1>1, <1>2, <1>4, <1>5, <1>7, <1>8 DEF pg, s, g, x

-----------------------------------------------------------------------------
(* Pages taken for a chain *)

\* allocate_page() hands out the free pages one after the other.
LEMMA FreeFacts ==
  /\ FreePages \in SUBSET (1 .. MaxPages) /\ FreePages \in SUBSET PageId /\ MaxPages \in Nat
  /\ FreePages = FreeOf(file)
  /\ Cardinality(FreePages) \in Nat /\ Cardinality(FreePages) <= MaxPages
  /\ \A p \in FreePages : Rank(p) = Cardinality(UpTo(FreePages, p)) /\ Rank(p) \in Nat
                          /\ 1 <= Rank(p) /\ Rank(p) <= Cardinality(FreePages)
  /\ \A p, q \in FreePages : Rank(p) = Rank(q) => p = q
<1>1. FreePages \in SUBSET (1 .. MaxPages) /\ FreePages \in SUBSET PageId /\ MaxPages \in Nat
  BY Constants DEF FreePages, PageId
<1>2. FreePages = FreeOf(file)
  BY DEF FreePages, FreeOf
<1>3. Cardinality(FreePages) \in Nat /\ Cardinality(FreePages) <= MaxPages
  <2>0. 1 \in Int /\ MaxPages \in Int /\ ~(1 > MaxPages) /\ MaxPages - 1 + 1 = MaxPages
    BY TreeAssumption
  <2>1. IsFiniteSet(1 .. MaxPages) /\ Cardinality(1 .. MaxPages) = MaxPages
    BY ONLY <2>0, FS_Interval
  <2>2. IsFiniteSet(FreePages) /\ Cardinality(FreePages) <= MaxPages
    BY ONLY <1>1, <2>1, FS_Subset
  <2> QED BY ONLY <2>2, FS_CardinalityType
<1>4. \A p : Rank(p) = Cardinality(UpTo(FreePages, p))
  BY DEF Rank, UpTo
<1>5. ASSUME NEW p \in FreePages
      PROVE  /\ Cardinality(UpTo(FreePages, p)) \in Nat /\ 1 <= Cardinality(UpTo(FreePages, p))
             /\ Cardinality(UpTo(FreePages, p)) <= Cardinality(FreePages)
  <2>1. /\ Cardinality(Below(FreePages, p)) \in Nat
        /\ Cardinality(UpTo(FreePages, p)) = Cardinality(Below(FreePages, p)) + 1
        /\ Cardinality(UpTo(FreePages, p)) <= Cardinality(FreePages)
    BY ONLY <1>1, p \in FreePages, PlaceFacts
  <2> QED BY ONLY <2>1
<1>6. ASSUME NEW p \in FreePages, NEW q \in FreePages, Rank(p) = Rank(q) PROVE p = q
  <2>1. Cardinality(UpTo(FreePages, p)) = Cardinality(UpTo(FreePages, q))
    BY ONLY <1>4, <1>6
  <2> QED BY ONLY <1>1, <2>1, p \in FreePages, q \in FreePages, PlaceOnce
<1> QED BY ONLY <1>1, <1>2, <1>3, <1>4, <1>5, <1>6

\* The n-th page handed out is free, and it is the n-th.
LEMMA AllocatedFacts ==
  ASSUME NEW n \in Nat, 1 <= n, n <= Cardinality(FreePages)
  PROVE  Allocated(n) \in FreePages /\ Rank(Allocated(n)) = n /\ Allocated(n) \in PageId
<1>1. NthSmallest(FreePages, n) \in FreePages /\ Cardinality(UpTo(FreePages, NthSmallest(FreePages, n))) = n
  BY FreeFacts, NthSmallestFacts
<1> QED BY <1>1, FreeFacts DEF Allocated

\* The pages of a new chain.
NewChain(n) == [i \in 1 .. n |-> Allocated(i)]

\* write_overflow_chain() lays the chain on free pages and touches no other.
LEMMA ChainWritten ==
  ASSUME NEW r, NEW n \in Nat, n <= Cardinality(FreePages), NEW o, FilePages(file, o)
  PROVE  /\ WithChain(r, n) = [p \in PageId |-> WithChain(r, n)[p]] /\ DOMAIN WithChain(r, n) = PageId
         /\ \A p \in PageId : p \notin FreePages => WithChain(r, n)[p] = file[p]
         /\ \A p \in FreePages : Rank(p) > n => WithChain(r, n)[p] = FreePage
         /\ \A p \in FreePages : Rank(p) <= n =>
               /\ WithChain(r, n)[p] = ChainPage(r, Rank(p), NewChain(n))
               /\ NewChain(n)[Rank(p)] = p /\ Rank(p) \in 1 .. n
         /\ NewChain(n) \in Seq(PageId) /\ Len(NewChain(n)) = n /\ Start(NewChain(n)) = ChainStart(n)
         /\ \A i \in 1 .. n : NewChain(n)[i] \in FreePages /\ Rank(NewChain(n)[i]) = i
<1> DEFINE G == WithChain(r, n)  s == NewChain(n)
<1>1. /\ G = [p \in PageId |-> G[p]] /\ DOMAIN G = PageId
      /\ \A p \in PageId : G[p] =
            IF p \in FreePages /\ Rank(p) <= n
            THEN [kind |-> "overflow", cells |-> << [key |-> r, size |-> Rank(p), over |-> NoPage] >>,
                  kids |-> <<IF Rank(p) < n THEN Allocated(Rank(p) + 1) ELSE NoPage>>]
            ELSE file[p]
  BY DEF WithChain
<1> HIDE DEF G
<1>2. \A i \in 1 .. n : Allocated(i) \in FreePages /\ Rank(Allocated(i)) = i /\ Allocated(i) \in PageId
  <2> TAKE i \in 1 .. n
  <2>1. i \in Nat /\ 1 <= i /\ i <= Cardinality(FreePages)
    BY FreeFacts
  <2> QED BY ONLY <2>1, AllocatedFacts
<1>3. s \in Seq(PageId) /\ Len(s) = n /\ \A i \in 1 .. n : s[i] = Allocated(i)
  BY <1>2 DEF NewChain
<1> HIDE DEF s
<1>4. Start(s) = ChainStart(n)
  <2>1. n # 0 => 1 \in 1 .. n
    OBVIOUS
  <2> QED BY ONLY <1>3, <2>1 DEF Start, ChainStart
<1>5. \A p \in FreePages : Rank(p) \in Nat /\ p \in PageId /\ 1 <= Rank(p)
  BY FreeFacts
<1>6. ASSUME NEW p \in FreePages, Rank(p) > n PROVE G[p] = FreePage
  <2>1. ~(Rank(p) <= n) /\ p \in PageId
    BY ONLY <1>5, <1>6, n \in Nat
  <2>2. G[p] = file[p]
    BY ONLY <1>1, <2>1
  <2>3. file[p].kind = "free"
    BY DEF FreePages
  <2>4. file[p] = FreePage
    <3>1. RoomKept(file, p)
      BY <2>1 DEF FilePages
    <3> QED BY ONLY <2>3, <3>1 DEF RoomKept
  <2> QED BY ONLY <2>2, <2>4
<1>7. ASSUME NEW p \in FreePages, Rank(p) <= n
      PROVE  G[p] = ChainPage(r, Rank(p), s) /\ s[Rank(p)] = p /\ Rank(p) \in 1 .. n
  <2>1. Rank(p) \in 1 .. n /\ p \in PageId
    BY ONLY <1>5, <1>7, n \in Nat
  <2>2. G[p] = [kind |-> "overflow", cells |-> << [key |-> r, size |-> Rank(p), over |-> NoPage] >>,
                kids |-> <<IF Rank(p) < n THEN Allocated(Rank(p) + 1) ELSE NoPage>>]
    BY ONLY <1>1, <1>7, <2>1
  <2>3. Rank(p) < n => Allocated(Rank(p) + 1) = s[Rank(p) + 1]
    <3> SUFFICES ASSUME Rank(p) < n PROVE Allocated(Rank(p) + 1) = s[Rank(p) + 1]
      OBVIOUS
    <3>1. Rank(p) + 1 \in 1 .. n
      BY ONLY <2>1, Rank(p) < n, n \in Nat
    <3> QED BY ONLY <1>3, <3>1
  <2>4. G[p] = ChainPage(r, Rank(p), s)
    BY ONLY <2>2, <2>3, <1>3 DEF ChainPage
  <2>5. s[Rank(p)] = Allocated(Rank(p)) /\ Allocated(Rank(p)) \in FreePages /\ Rank(Allocated(Rank(p))) = Rank(p)
    BY ONLY <1>2, <1>3, <2>1
  <2>6. s[Rank(p)] = p
    BY <2>5, FreeFacts
  <2> QED BY ONLY <2>1, <2>4, <2>6
<1>8. \A p \in PageId : p \notin FreePages => G[p] = file[p]
  BY ONLY <1>1
<1>9. \A i \in 1 .. n : s[i] \in FreePages /\ Rank(s[i]) = i
  BY ONLY <1>2, <1>3
<1> QED BY ONLY <1>1, <1>3, <1>4, <1>6, <1>7, <1>8, <1>9 DEF G, s

-----------------------------------------------------------------------------
(* What the leaves and the chains hold *)

\* Elsewhere the two files have the same leaves.
LeavesAgree(F, G, leaf) == \A p \in PageId \ {leaf} : F[p].kind = "leaf" \/ G[p].kind = "leaf" => F[p] = G[p]

\* The chains of F are in G, and the pages of s are chained for r.
ChainLaid(F, G, r, s) ==
  /\ \A p \in PageId : F[p].kind = "overflow" => G[p] = F[p]
  /\ \A p \in PageId : G[p].kind = "overflow" => F[p].kind = "overflow" \/ \E i \in Nat : i \in 1 .. Len(s) /\ s[i] = p
  /\ \A i \in Nat : i \in 1 .. Len(s) => G[s[i]] = ChainPage(r, i, s)

\* The two files have the same chains.
ChainsAgree(F, G) == \A p \in PageId : F[p].kind = "overflow" \/ G[p].kind = "overflow" => G[p] = F[p]

\* A leaf with one more cell.
LEMMA CellAdded ==
  ASSUME NEW F, NEW G, NEW leaf \in PageId, NEW s, NEW c \in Cells,
         F[leaf].kind = "leaf", F[leaf].cells \in Seq(Cells), s \in 1 .. Len(F[leaf].cells) + 1,
         G[leaf] = Leaf(WithCell(F[leaf].cells, s, c)),
         LeavesAgree(F, G, leaf)
  PROVE  LeafCells(G) = LeafCells(F) \cup {c}
<1> USE DEF LeavesAgree
<1> DEFINE a == F[leaf].cells  b == G[leaf].cells
<1>1. G[leaf].kind = "leaf" /\ b = WithCell(a, s, c)
  BY DEF Leaf
<1>2. a \in Seq(Cells) /\ s \in 1 .. Len(a) + 1 /\ Len(a) \in Nat /\ s \in Nat
  OBVIOUS
<1> HIDE DEF a, b
<1>3. Len(b) = Len(a) + 1 /\ IsInsert(a, s, c, b)
  BY <1>1, <1>2, WithCellFacts
<1>4. /\ b[s] = c /\ \A i \in 1 .. s - 1 : b[i] = a[i]
      /\ \A i \in s .. Len(a) : b[i + 1] = a[i]
  BY <1>3 DEF IsInsert
<1>5. ASSUME NEW d \in Cells, NEW p \in PageId, NEW i \in Nat, LeafCell(G, p, i, d)
      PROVE  d = c \/ d \in LeafCells(F)
  <2>1. CASE p # leaf
    <3>1. F[p] = G[p]
      BY <2>1, <1>5 DEF LeafCell
    <3> QED BY <3>1, <1>5 DEF LeafCell, LeafCells
  <2>2. CASE p = leaf
    <3>1. i \in 1 .. Len(b) /\ b[i] = d
      BY <2>2, <1>5 DEF LeafCell, b
    <3>2. CASE i = s
      BY ONLY <3>1, <3>2, <1>4
    <3>3. CASE i < s
      <4>1. i \in 1 .. s - 1 /\ i \in 1 .. Len(a)
        BY ONLY <3>1, <3>3, <1>2, <1>3
      <4>2. a[i] = d
        BY ONLY <4>1, <3>1, <1>4
      <4> QED BY <4>1, <4>2, <2>2 DEF LeafCell, LeafCells, a
    <3>4. CASE i > s
      <4>1. i - 1 \in s .. Len(a) /\ i - 1 \in 1 .. Len(a) /\ (i - 1) + 1 = i /\ i - 1 \in Nat
        BY ONLY <3>1, <3>4, <1>2, <1>3
      <4>2. a[i - 1] = d
        BY ONLY <4>1, <3>1, <1>4
      <4> QED BY <4>1, <4>2, <2>2 DEF LeafCell, LeafCells, a
    <3> QED BY ONLY <3>2, <3>3, <3>4, <1>2, i \in Nat
  <2> QED BY <2>1, <2>2
<1>6. c \in LeafCells(G)
  <2>1. s \in 1 .. Len(b)
    BY ONLY <1>2, <1>3
  <2>2. LeafCell(G, leaf, s, c)
    BY <1>1, <1>4, <2>1 DEF LeafCell, b
  <2> QED BY <2>2, <1>2 DEF LeafCells
<1>7. ASSUME NEW d \in Cells, NEW p \in PageId, NEW i \in Nat, LeafCell(F, p, i, d)
      PROVE  d \in LeafCells(G)
  <2>1. CASE p # leaf
    <3>1. F[p] = G[p]
      BY <2>1, <1>7 DEF LeafCell
    <3> QED BY <3>1, <1>7 DEF LeafCell, LeafCells
  <2>2. CASE p = leaf
    <3>1. i \in 1 .. Len(a) /\ a[i] = d
      BY <2>2, <1>7 DEF LeafCell, a
    <3>2. CASE i < s
      <4>1. i \in 1 .. s - 1 /\ i \in 1 .. Len(b)
        BY ONLY <3>1, <3>2, <1>2, <1>3
      <4>2. b[i] = d
        BY ONLY <4>1, <3>1, <1>4
      <4> QED BY <4>1, <4>2, <2>2, <1>1 DEF LeafCell, LeafCells, b
    <3>3. CASE ~(i < s)
      <4>1. i \in s .. Len(a) /\ i + 1 \in 1 .. Len(b) /\ i + 1 \in Nat
        BY ONLY <3>1, <3>3, <1>2, <1>3
      <4>2. b[i + 1] = d
        BY ONLY <4>1, <3>1, <1>4
      <4> QED BY <4>1, <4>2, <2>2, <1>1 DEF LeafCell, LeafCells, b
    <3> QED BY <3>2, <3>3
  <2> QED BY <2>1, <2>2
<1>8. LeafCells(G) \subseteq LeafCells(F) \cup {c}
  BY <1>5 DEF LeafCells
<1>9. LeafCells(F) \subseteq LeafCells(G)
  BY <1>7 DEF LeafCells
<1> QED BY ONLY <1>6, <1>8, <1>9

WithRow(R, r, pl) == [x \in DOMAIN R \cup {r} |-> IF x = r THEN pl ELSE R[x]]

\* A row more, its chain on pages that were free.
LEMMA RowAdded ==
  ASSUME NEW F, NEW G, NEW R, RowsTyped(R), Stored(F, R),
         NEW r \in Rowid, r \notin DOMAIN R, NEW pl \in Payload, pl.spill <= MaxPages,
         NEW s \in Seq(PageId), Len(s) = pl.spill,
         LeafCells(G) = LeafCells(F) \cup {RowCell(r, pl, Start(s))},
         ChainLaid(F, G, r, s)
  PROVE  RowsTyped(WithRow(R, r, pl)) /\ Stored(G, WithRow(R, r, pl))
<1> USE DEF ChainLaid
<1> DEFINE R2 == WithRow(R, r, pl)
<1>1. RowsTyped(R2)
  BY DEF RowsTyped, WithRow
<1>2. PICK ch : RowsFiled(LeafCells(F), R, ch) /\ ChainsLaid(F, R, ch)
  BY DEF Stored
<1> DEFINE ch2 == [x \in DOMAIN R \cup {r} |-> IF x = r THEN s ELSE ch[x]]
<1>3. DOMAIN R2 = DOMAIN R \cup {r} /\ R2[r] = pl /\ \A x \in DOMAIN R : R2[x] = R[x] /\ x # r
  BY DEF WithRow
<1>4. DOMAIN ch2 = DOMAIN R \cup {r} /\ ch2[r] = s /\ \A x \in DOMAIN R : ch2[x] = ch[x]
  OBVIOUS
<1>5. /\ ch \in [DOMAIN R -> Seq(PageId)]
      /\ \A x \in DOMAIN R : Len(ch[x]) = R[x].spill
      /\ \A x \in DOMAIN R, i \in Nat : i \in 1 .. Len(ch[x]) => F[ch[x][i]] = ChainPage(x, i, ch[x])
      /\ \A p \in PageId : F[p].kind = "overflow" =>
            \E x \in DOMAIN R, i \in Nat : i \in 1 .. Len(ch[x]) /\ ch[x][i] = p
  BY <1>2 DEF ChainsLaid
<1>6. ch2 \in [DOMAIN R2 -> Seq(PageId)]
  BY <1>3, <1>5
<1> HIDE DEF ch2, R2
<1>7. RowsFiled(LeafCells(G), R2, ch2)
  <2>1. \A c \in LeafCells(F) : c.key \in DOMAIN R /\ c.size = R[c.key].size /\ c.over = Start(ch[c.key])
    BY <1>2 DEF RowsFiled
  <2>2. \A x \in DOMAIN R : \E c \in LeafCells(F) : c.key = x
    BY <1>2 DEF RowsFiled
  <2>3. RowCell(r, pl, Start(s)).key = r /\ RowCell(r, pl, Start(s)).size = pl.size
        /\ RowCell(r, pl, Start(s)).over = Start(s)
    BY DEF RowCell
  <2> QED BY <1>3, <1>4, <2>1, <2>2, <2>3 DEF RowsFiled
<1>8. ChainsLaid(G, R2, ch2)
  <2>1. \A x \in DOMAIN R2 : Len(ch2[x]) = R2[x].spill
    BY ONLY <1>3, <1>4, <1>5, Len(s) = pl.spill
  <2>2. ASSUME NEW x \in DOMAIN R2, NEW i \in Nat, i \in 1 .. Len(ch2[x])
        PROVE  G[ch2[x][i]] = ChainPage(x, i, ch2[x])
    <3>1. CASE x = r
      BY <3>1, <2>2, <1>4
    <3>2. CASE x # r
      <4>1. x \in DOMAIN R /\ ch2[x] = ch[x]
        BY <3>2, <1>3, <1>4
      <4>2. F[ch[x][i]] = ChainPage(x, i, ch[x]) /\ ch[x][i] \in PageId
        BY <4>1, <2>2, <1>5
      <4>3. F[ch[x][i]].kind = "overflow"
        BY ONLY <4>2 DEF ChainPage
      <4> QED BY <4>1, <4>2, <4>3
    <3> QED BY <3>1, <3>2
  <2>3. ASSUME NEW p \in PageId, G[p].kind = "overflow"
        PROVE  \E x \in DOMAIN R2, i \in Nat : i \in 1 .. Len(ch2[x]) /\ ch2[x][i] = p
    <3>1. CASE F[p].kind = "overflow"
      <4>1. PICK x \in DOMAIN R, i \in Nat : i \in 1 .. Len(ch[x]) /\ ch[x][i] = p
        BY <3>1, <1>5
      <4> QED BY <4>1, <1>3, <1>4
    <3>2. CASE \E i \in Nat : i \in 1 .. Len(s) /\ s[i] = p
      BY <3>2, <1>3, <1>4
    <3> QED BY <2>3, <3>1, <3>2
  <2> QED BY ONLY <1>6, <2>1, <2>2, <2>3 DEF ChainsLaid
<1> QED BY <1>1, <1>7, <1>8 DEF Stored, R2

\* The leaves hold what they held, and the chains are where they were.
LEMMA StoredStays ==
  ASSUME NEW F, NEW G, NEW R, Stored(F, R), LeafCells(G) = LeafCells(F),
         ChainsAgree(F, G)
  PROVE  Stored(G, R)
<1> USE DEF ChainsAgree
<1>1. PICK ch : RowsFiled(LeafCells(F), R, ch) /\ ChainsLaid(F, R, ch)
  BY DEF Stored
<1>2. /\ ch \in [DOMAIN R -> Seq(PageId)]
      /\ \A x \in DOMAIN R : Len(ch[x]) = R[x].spill
      /\ \A x \in DOMAIN R, i \in Nat : i \in 1 .. Len(ch[x]) => F[ch[x][i]] = ChainPage(x, i, ch[x])
      /\ \A p \in PageId : F[p].kind = "overflow" =>
            \E x \in DOMAIN R, i \in Nat : i \in 1 .. Len(ch[x]) /\ ch[x][i] = p
  BY <1>1 DEF ChainsLaid
<1>3. ASSUME NEW x \in DOMAIN R, NEW i \in Nat, i \in 1 .. Len(ch[x]) PROVE G[ch[x][i]] = ChainPage(x, i, ch[x])
  <2>1. F[ch[x][i]] = ChainPage(x, i, ch[x]) /\ ch[x][i] \in PageId
    BY <1>2, <1>3
  <2>2. F[ch[x][i]].kind = "overflow"
    BY ONLY <2>1 DEF ChainPage
  <2> QED BY <2>1, <2>2
<1>4. \A p \in PageId : G[p].kind = "overflow" =>
         \E x \in DOMAIN R, i \in Nat : i \in 1 .. Len(ch[x]) /\ ch[x][i] = p
  BY <1>2
<1>5. ChainsLaid(G, R, ch)
  BY ONLY <1>2, <1>3, <1>4 DEF ChainsLaid
<1>6. RowsFiled(LeafCells(G), R, ch)
  BY <1>1
<1> QED BY <1>5, <1>6 DEF Stored

-----------------------------------------------------------------------------
(* A row put into its leaf, whatever the leaf's room *)

Home(rowid) == Last(FindLeaf(rowid))[1]
HomeAt(rowid) == Last(FindLeaf(rowid))[2]
PutCell(rowid, payload) == RowCell(rowid, payload, ChainStart(payload.spill))
PutCells(rowid, payload) == WithCell(file[Home(rowid)].cells, HomeAt(rowid), PutCell(rowid, payload))
Put(rowid, payload) == [WithChain(rowid, payload.spill) EXCEPT ![Home(rowid)] = Leaf(PutCells(rowid, payload))]

\* Where a row that is not there belongs.
LEMMA HomeFacts ==
  ASSUME Inv, op = Idle, NEW r \in Rowid
  PROVE  /\ Home(r) \in PageId /\ file[Home(r)].kind = "leaf" /\ Home(r) \notin FreePages
         /\ file[Home(r)].cells \in Seq(Cells) /\ Sorted(file[Home(r)].cells) /\ file[Home(r)].kids = <<>>
         /\ HomeAt(r) \in 1 .. Len(file[Home(r)].cells) + 1
         /\ Routes(file[Home(r)].cells, HomeAt(r), r)
         /\ Home(r) \in WayOf(FindLeaf(r))
<1>1. DOMAIN file = PageId /\ r \in Nat /\ NoPage \notin PageId
  BY AtRest, Constants
<1>2. PICK ht, span : Structure(Cells, file, Root, NoPage, ht, span)
  BY AtRest
<1>3. Leads(Cells, file, Root, r, FindLeaf(r))
  BY <1>1, FindLeafLeads
<1>4. /\ Home(r) \in PageId /\ file[Home(r)].kind = "leaf"
      /\ HomeAt(r) \in 1 .. Len(file[Home(r)].cells) + 1
      /\ Routes(file[Home(r)].cells, HomeAt(r), r)
      /\ Home(r) \in WayOf(FindLeaf(r))
  BY <1>1, <1>3, LeadsFacts DEF Home, HomeAt
<1>5. TreePage(file, Home(r))
  BY ONLY <1>4 DEF TreePage
<1>6. Node(Cells, PageId, file[Home(r)])
  BY <1>1, <1>2, <1>4, <1>5, NodeOf DEF Structure
<1>7. file[Home(r)].cells \in Seq(Cells) /\ Sorted(file[Home(r)].cells) /\ file[Home(r)].kids = <<>>
  BY ONLY <1>4, <1>6 DEF Node
<1>8. Home(r) \notin FreePages
  BY ONLY <1>4 DEF FreePages
<1> QED BY ONLY <1>4, <1>7, <1>8

\* The leaf with the new cell is still in order.
LEMMA PutCellsFacts ==
  ASSUME Inv, op = Idle, NEW r \in Rowid, NEW pl \in Payload, ~Search(r), pl.spill <= Cardinality(FreePages)
  PROVE  /\ PutCell(r, pl) \in Cells /\ r \in Nat
         /\ PutCells(r, pl) \in Seq(Cells) /\ Sorted(PutCells(r, pl))
         /\ Len(PutCells(r, pl)) = Len(file[Home(r)].cells) + 1
         /\ IsInsert(file[Home(r)].cells, HomeAt(r), PutCell(r, pl), PutCells(r, pl))
         /\ \A i \in 1 .. Len(file[Home(r)].cells) : file[Home(r)].cells[i].key # r
<1> DEFINE c == file[Home(r)].cells  s == HomeAt(r)  x == PutCell(r, pl)
<1>1. c \in Seq(Cells) /\ Sorted(c) /\ s \in 1 .. Len(c) + 1 /\ Routes(c, s, r) /\ Home(r) \in PageId /\ file[Home(r)].kind = "leaf"
  BY HomeFacts
<1>2. CellSet(Cells) /\ r \in Nat /\ pl.size \in 1 .. LeafRoom /\ pl.spill \in Nat
  BY Constants
<1>3. ChainStart(pl.spill) \in PageId \cup {NoPage}
  <2>1. CASE pl.spill = 0
    BY <2>1 DEF ChainStart
  <2>2. CASE pl.spill # 0
    <3>1. 1 \in Nat /\ 1 <= 1 /\ 1 <= Cardinality(FreePages)
      BY <2>2, <1>2, FreeFacts
    <3> QED BY <2>2, <3>1, AllocatedFacts DEF ChainStart
  <2> QED BY <2>1, <2>2
<1>4. x \in Cells /\ x.key = r
  BY <1>2, <1>3 DEF PutCell, RowCell, Cells
<1>5. PICK ch : RowsFiled(LeafCells(file), rows, ch)
  BY AtRest DEF Stored
<1>6. r \notin DOMAIN rows
  BY <1>2, SearchTells
<1>7. ASSUME NEW i \in 1 .. Len(c) PROVE c[i].key # r
  <2>1. i \in Nat /\ c[i] \in Cells
    BY <1>1
  <2>2. c[i] \in LeafCells(file)
    BY <1>1, <2>1 DEF LeafCells, LeafCell
  <2> QED BY <1>5, <1>6, <2>2 DEF RowsFiled
<1>8. Len(c) \in Nat /\ \A i \in 1 .. Len(c) : c[i].key \in Nat
  BY <1>1, <1>2 DEF CellSet
<1> HIDE DEF c, s, x
<1>9. s <= Len(c) => x.key < c[s].key
  <2> SUFFICES ASSUME s <= Len(c) PROVE r < c[s].key
    BY <1>4
  <2>1. s \in 1 .. Len(c) /\ ~(s < s)
    BY ONLY <1>1, <1>8, s <= Len(c)
  <2>2. r <= c[s].key
    BY ONLY <1>1, <2>1 DEF Routes
  <2> QED BY ONLY <1>2, <1>7, <1>8, <2>1, <2>2
<1>10. Routes(c, s, x.key)
  BY ONLY <1>1, <1>4
<1>11. Sorted(WithCell(c, s, x))
  BY ONLY <1>1, <1>2, <1>4, <1>9, <1>10, InsertRoutes
<1>12. /\ WithCell(c, s, x) \in Seq(Cells) /\ Len(WithCell(c, s, x)) = Len(c) + 1
       /\ IsInsert(c, s, x, WithCell(c, s, x))
  BY ONLY <1>1, <1>4, WithCellFacts
<1>13. PutCells(r, pl) = WithCell(c, s, x)
  BY DEF PutCells, c, s, x
<1> QED BY ONLY <1>2, <1>4, <1>7, <1>11, <1>12, <1>13 DEF c, s, x

\* Once the row is in its leaf, and before anything is split, the tree is in
\* order and every row is stored.
LEMMA PutKeeps ==
  ASSUME Inv, op = Idle, NEW r \in Rowid, NEW pl \in Payload, ~Search(r), pl.spill <= Cardinality(FreePages)
  PROVE  /\ Put(r, pl) = [p \in PageId |-> Put(r, pl)[p]] /\ DOMAIN Put(r, pl) = PageId
         /\ Put(r, pl)[Home(r)] = Leaf(PutCells(r, pl))
         /\ \A p \in PageId : p # Home(r) => Put(r, pl)[p] = WithChain(r, pl.spill)[p]
         /\ \A p \in PageId : p # Home(r) /\ p \notin FreePages => Put(r, pl)[p] = file[p]
         /\ \A p \in FreePages : Rank(p) > pl.spill => Put(r, pl)[p] = FreePage
         /\ \A p \in FreePages : Rank(p) <= pl.spill => Put(r, pl)[p].kind = "overflow"
         /\ \E ht, span : Structure(Cells, Put(r, pl), Root, NoPage, ht, span)
         /\ RowsTyped(WithRow(rows, r, pl)) /\ Stored(Put(r, pl), WithRow(rows, r, pl))
<1> DEFINE U == Put(r, pl)  G == WithChain(r, pl.spill)  leaf == Home(r)  n == pl.spill  s == NewChain(n)
           L == Leaf(PutCells(r, pl))
<1>1. /\ leaf \in PageId /\ file[leaf].kind = "leaf" /\ leaf \notin FreePages
      /\ file[leaf].cells \in Seq(Cells) /\ HomeAt(r) \in 1 .. Len(file[leaf].cells) + 1
      /\ leaf \in WayOf(FindLeaf(r))
  BY HomeFacts
<1>2. n \in Nat /\ n <= Cardinality(FreePages) /\ n <= MaxPages
  <2>1. n \in Nat
    BY Constants
  <2> QED BY <2>1, FreeFacts
<1>3. FilePages(file, op) /\ RowsTyped(rows) /\ Stored(file, rows)
  BY AtRest DEF Inv, Sound
<1>4. /\ G = [p \in PageId |-> G[p]] /\ DOMAIN G = PageId
      /\ \A p \in PageId : p \notin FreePages => G[p] = file[p]
      /\ \A p \in FreePages : Rank(p) > n => G[p] = FreePage
      /\ \A p \in FreePages : Rank(p) <= n =>
            G[p] = ChainPage(r, Rank(p), s) /\ s[Rank(p)] = p /\ Rank(p) \in 1 .. n
      /\ s \in Seq(PageId) /\ Len(s) = n /\ Start(s) = ChainStart(n)
      /\ \A i \in 1 .. n : s[i] \in FreePages /\ Rank(s[i]) = i
  BY <1>2, <1>3, ChainWritten
<1>5. U = [G EXCEPT ![leaf] = L]
  BY DEF Put
<1> HIDE DEF U, G, leaf, n, s, L
<1>6. /\ U = [p \in PageId |-> U[p]] /\ DOMAIN U = PageId /\ U[leaf] = L
      /\ \A p \in PageId : p # leaf => U[p] = G[p]
  BY ONLY <1>1, <1>4, <1>5
<1>7. L.kind = "leaf" /\ L.cells = PutCells(r, pl) /\ L.kids = <<>>
  BY DEF L, Leaf
<1>8. \A p \in FreePages : p \in PageId /\ p # leaf /\ file[p].kind = "free" /\ Rank(p) \in Nat
  BY <1>1, FreeFacts DEF FreePages
<1>9. \A p \in PageId : p # leaf /\ p \notin FreePages => U[p] = file[p]
  BY ONLY <1>4, <1>6
<1>10. \A p \in FreePages : Rank(p) > n => U[p] = FreePage
  BY ONLY <1>4, <1>6, <1>8
<1>11. \A p \in FreePages : Rank(p) <= n => U[p] = ChainPage(r, Rank(p), s)
  BY ONLY <1>4, <1>6, <1>8
<1>12. \A p \in FreePages : U[p].kind \in {"free", "overflow"} /\ (Rank(p) <= n => U[p].kind = "overflow")
  <2> TAKE p \in FreePages
  <2>1. CASE Rank(p) <= n
    <3>1. U[p] = ChainPage(r, Rank(p), s)
      BY ONLY <1>11, <2>1, p \in FreePages
    <3> QED BY ONLY <3>1 DEF ChainPage
  <2>2. CASE ~(Rank(p) <= n)
    <3>1. Rank(p) > n
      BY ONLY <2>2, <1>2, <1>8, p \in FreePages
    <3>2. U[p] = FreePage
      BY ONLY <1>10, <3>1, p \in FreePages
    <3> QED BY ONLY <2>2, <3>2 DEF FreePage
  <2> QED BY <2>1, <2>2
<1>13. /\ PutCell(r, pl) \in Cells /\ r \in Nat
       /\ PutCells(r, pl) \in Seq(Cells) /\ Sorted(PutCells(r, pl))
       /\ Len(PutCells(r, pl)) = Len(file[leaf].cells) + 1
       /\ IsInsert(file[leaf].cells, HomeAt(r), PutCell(r, pl), PutCells(r, pl))
  BY PutCellsFacts DEF leaf
<1>14. \E ht, span : Structure(Cells, U, Root, NoPage, ht, span)
  <2> DEFINE way == WayOf(FindLeaf(r))
  <2>1. PICK ht, span : Structure(Cells, file, Root, NoPage, ht, span)
    BY AtRest
  <2>2. DOMAIN file = PageId /\ NoPage \notin PageId
    BY AtRest, Constants
  <2>3. Leads(Cells, file, Root, r, FindLeaf(r))
    BY <1>13, FindLeafLeads
  <2>4. \A u, y \in PageId, i \in Nat : Edge(file, u, i, y) /\ y \in way => u \in way /\ Routes(file[u].cells, i, r)
    BY <2>1, <2>2, <2>3, LeadsWay
  <2>5. Node(Cells, PageId, U[leaf])
    <3>1. U[leaf].kind = "leaf" /\ U[leaf].cells = PutCells(r, pl) /\ U[leaf].kids = <<>> /\ <<>> \in Seq(PageId)
      BY ONLY <1>6, <1>7
    <3> QED BY ONLY <1>13, <3>1 DEF Node
  <2>6. ASSUME NEW y \in PageId \ {leaf} PROVE IF TreePage(file, y) THEN U[y] = file[y] ELSE ~TreePage(U, y)
    <3>1. CASE y \in FreePages
      BY ONLY <3>1, <1>8, <1>12 DEF TreePage
    <3>2. CASE y \notin FreePages
      <4>1. U[y] = file[y]
        BY ONLY <3>2, <1>9, y \in PageId \ {leaf}
      <4> QED BY ONLY <4>1 DEF TreePage
    <3> QED BY ONLY <3>1, <3>2
  <2>7. ASSUME NEW i \in 1 .. Len(U[leaf].cells)
        PROVE  \/ \E j \in 1 .. Len(file[leaf].cells) : file[leaf].cells[j].key = U[leaf].cells[i].key
               \/ leaf \in way /\ U[leaf].cells[i].key = r
    <3> DEFINE a == file[leaf].cells  b == PutCells(r, pl)  m == HomeAt(r)
    <3>1. Len(a) \in Nat /\ m \in Nat /\ m >= 1 /\ m <= Len(a) + 1 /\ i \in 1 .. Len(a) + 1 /\ U[leaf].cells = b
      BY <1>1, <1>6, <1>7, <1>13
    <3>2. /\ b[m] = PutCell(r, pl) /\ \A j \in 1 .. m - 1 : b[j] = a[j]
          /\ \A j \in m .. Len(a) : b[j + 1] = a[j]
      BY <1>13 DEF IsInsert
    <3> HIDE DEF a, b, m
    <3>3. CASE i = m
      <4>1. PutCell(r, pl).key = r
        BY DEF PutCell, RowCell
      <4> QED BY ONLY <3>1, <3>2, <3>3, <4>1, <1>1
    <3>4. CASE i < m
      <4>1. i \in 1 .. m - 1 /\ i \in 1 .. Len(a)
        BY ONLY <3>1, <3>4
      <4>2. a[i].key = b[i].key
        BY ONLY <4>1, <3>2
      <4> QED BY ONLY <3>1, <4>1, <4>2 DEF a
    <3>5. CASE i > m
      <4>1. i - 1 \in m .. Len(a) /\ i - 1 \in 1 .. Len(a) /\ (i - 1) + 1 = i
        BY ONLY <3>1, <3>5
      <4>2. a[i - 1].key = b[i].key
        BY ONLY <4>1, <3>2
      <4> QED BY ONLY <3>1, <4>1, <4>2 DEF a
    <3> QED BY ONLY <3>1, <3>3, <3>4, <3>5
  <2> HIDE DEF way
  <2>8. LeafWrites(Cells, file, U, leaf, way, r)
    BY ONLY <1>1, <1>6, <1>7, <1>13, <2>2, <2>4, <2>5, <2>6, <2>7 DEF LeafWrites
  <2>9. Structure(Cells, U, Root, NoPage, ht, WaySpan(span, way, r))
    BY ONLY <2>1, <2>2, <2>8, LeafKeeps
  <2> QED BY ONLY <2>9
<1>15. RowsTyped(WithRow(rows, r, pl)) /\ Stored(U, WithRow(rows, r, pl))
  <2>1. LeafCells(U) = LeafCells(file) \cup {RowCell(r, pl, Start(s))}
    <3>1. PutCell(r, pl) = RowCell(r, pl, Start(s)) /\ L = Leaf(WithCell(file[leaf].cells, HomeAt(r), PutCell(r, pl)))
      BY <1>4 DEF PutCell, L, PutCells, leaf, n
    <3>2. \A p \in PageId \ {leaf} : file[p].kind = "leaf" \/ U[p].kind = "leaf" => file[p] = U[p]
      BY ONLY <1>8, <1>9, <1>12
    <3>3. LeavesAgree(file, U, leaf)
      BY <3>2 DEF LeavesAgree
    <3>4. U[leaf] = Leaf(WithCell(file[leaf].cells, HomeAt(r), PutCell(r, pl)))
      BY <1>6, <3>1
    <3>5. LeafCells(U) = LeafCells(file) \cup {PutCell(r, pl)}
      BY ONLY <1>1, <1>13, <3>3, <3>4, CellAdded
    <3> QED BY <3>1, <3>5
  <2>2. \A p \in PageId : file[p].kind = "overflow" => U[p] = file[p]
    BY ONLY <1>1, <1>8, <1>9
  <2>3. \A p \in PageId : U[p].kind = "overflow" =>
           file[p].kind = "overflow" \/ \E i \in Nat : i \in 1 .. Len(s) /\ s[i] = p
    <3> SUFFICES ASSUME NEW p \in PageId, U[p].kind = "overflow", file[p].kind # "overflow"
        PROVE \E i \in Nat : i \in 1 .. Len(s) /\ s[i] = p
      OBVIOUS
    <3>1. p # leaf
      BY <1>6, <1>7
    <3>2. p \in FreePages
      BY <1>9, <3>1
    <3>3. Rank(p) <= n
      <4>1. ~(Rank(p) > n)
        BY <1>10, <3>2 DEF FreePage
      <4> QED BY ONLY <4>1, <3>2, <1>2, <1>8
    <3> QED BY <3>2, <3>3, <1>4, <1>8
  <2>4. \A i \in Nat : i \in 1 .. Len(s) => U[s[i]] = ChainPage(r, i, s)
    <3> SUFFICES ASSUME NEW i \in Nat, i \in 1 .. n PROVE U[s[i]] = ChainPage(r, i, s)
      BY <1>4
    <3>1. s[i] \in FreePages /\ Rank(s[i]) = i
      BY <1>4
    <3>2. Rank(s[i]) <= n
      BY <3>1, <1>2
    <3> QED BY <3>1, <3>2, <1>11
  <2>5. r \notin DOMAIN rows
    BY <1>13, SearchTells
  <2>6. Len(s) = pl.spill /\ pl.spill <= MaxPages /\ s \in Seq(PageId)
    BY <1>2, <1>4 DEF n
  <2>7. ChainLaid(file, U, r, s)
    BY ONLY <2>2, <2>3, <2>4 DEF ChainLaid
  <2> QED BY ONLY <1>3, <2>1, <2>5, <2>6, <2>7, r \in Rowid, pl \in Payload, RowAdded
<1> QED BY ONLY <1>6, <1>9, <1>10, <1>12, <1>14, <1>15 DEF U, G, leaf, n, L

-----------------------------------------------------------------------------
(* insert() into a leaf with room *)

\* When no operation is under way the file is the tree.
LEMMA RestSound ==
  ASSUME NEW F, NEW R, F = [p \in PageId |-> F[p]], \A p \in PageId : RoomKept(F, p),
         \A p \in PageId : F[p].kind = "leaf" /\ F[p].cells = <<>> => p = Root,
         NEW ht, NEW span, Structure(Cells, F, Root, NoPage, ht, span), RowsTyped(R), Stored(F, R)
  PROVE  Sound(F, Idle, R)
<1>1. Idle.kind = "idle" /\ Idle \in OpType
  BY DEF Idle, OpType
<1>2. TreeOf(F, Idle) = F /\ HoleOf(Idle) = NoPage
  BY <1>1 DEF TreeOf, HoleOf
<1>3. FilePages(F, Idle)
  BY DEF FilePages
<1>4. OpUnderWay(F, Idle)
  BY <1>1 DEF OpUnderWay
<1>5. Shaped(F, Idle)
  BY ONLY <1>2, Structure(Cells, F, Root, NoPage, ht, span), Zenon DEF Shaped
<1> QED BY <1>3, <1>4, <1>5 DEF Sound

\* The pages that the row does not go to have the room they had.
LEMMA PutRooms ==
  ASSUME Inv, op = Idle, NEW r \in Rowid, NEW pl \in Payload, ~Search(r), pl.spill <= Cardinality(FreePages)
  PROVE  /\ \A p \in PageId : p # Home(r) => RoomKept(Put(r, pl), p)
         /\ \A p \in PageId : p # Home(r) /\ Put(r, pl)[p].kind = "leaf" /\ Put(r, pl)[p].cells = <<>> => p = Root
         /\ Used(PutCells(r, pl)) = Used(file[Home(r)].cells) + pl.size
         /\ Used(file[Home(r)].cells) \in Nat /\ PutCells(r, pl) # <<>>
<1> DEFINE U == Put(r, pl)
<1>1. /\ \A p \in PageId : p # Home(r) /\ p \notin FreePages => U[p] = file[p]
      /\ \A p \in FreePages : Rank(p) > pl.spill => U[p] = FreePage
      /\ \A p \in FreePages : Rank(p) <= pl.spill => U[p].kind = "overflow"
  BY PutKeeps
<1>2. /\ \A p \in PageId : RoomKept(file, p)
      /\ \A p \in PageId : file[p].kind = "leaf" /\ file[p].cells = <<>> => p = Root
  BY AtRest
<1>3. \A p \in FreePages : Rank(p) \in Nat /\ pl.spill \in Nat
  BY FreeFacts, Constants
<1> HIDE DEF U
<1>4. \A p \in FreePages : U[p] = FreePage \/ U[p].kind = "overflow"
  BY ONLY <1>1, <1>3
<1>5. ASSUME NEW p \in PageId, p # Home(r)
      PROVE  RoomKept(U, p) /\ (U[p].kind = "leaf" /\ U[p].cells = <<>> => p = Root)
  <2>1. CASE p \in FreePages
    <3>1. RoomKept(U, p)
      BY ONLY <1>4, <2>1 DEF RoomKept
    <3>2. U[p].kind # "leaf"
      BY ONLY <1>4, <2>1 DEF FreePage
    <3> QED BY <3>1, <3>2
  <2>2. CASE p \notin FreePages
    <3>1. U[p] = file[p]
      BY ONLY <1>1, <1>5, <2>2, p \in PageId
    <3>2. RoomKept(U, p)
      <4>1. RoomKept(file, p)
        BY <1>2
      <4> QED BY ONLY <3>1, <4>1 DEF RoomKept
    <3> QED BY ONLY <3>1, <3>2, <1>2, p \in PageId
  <2> QED BY <2>1, <2>2
<1>6. Used(PutCells(r, pl)) = Used(file[Home(r)].cells) + pl.size /\ Used(file[Home(r)].cells) \in Nat
  <2>1. PutCell(r, pl) \in Cells /\ CellSet(Cells) /\ file[Home(r)].cells \in Seq(Cells)
        /\ HomeAt(r) \in 1 .. Len(file[Home(r)].cells) + 1
    BY PutCellsFacts, HomeFacts, Constants
  <2>2. PutCell(r, pl).size = pl.size
    BY DEF PutCell, RowCell
  <2>3. Used(PutCells(r, pl)) = Used(file[Home(r)].cells) + PutCell(r, pl).size
    BY ONLY <2>1, UsedInsert DEF PutCells
  <2>4. Used(file[Home(r)].cells) \in Nat
    BY ONLY <2>1, RunFacts
  <2> QED BY ONLY <2>2, <2>3, <2>4
<1>7. PutCells(r, pl) # <<>>
  <2>1. Len(PutCells(r, pl)) = Len(file[Home(r)].cells) + 1 /\ Len(file[Home(r)].cells) \in Nat
    BY PutCellsFacts, HomeFacts
  <2> QED BY ONLY <2>1
<1> QED BY ONLY <1>5, <1>6, <1>7 DEF U

\* insert() where the leaf has room.
LEMMA InsertKeeps ==
  ASSUME Inv, NEW r \in Rowid, NEW pl \in Payload, Insert(r, pl)
  PROVE  Inv'
<1>1. /\ op = Idle /\ ~Search(r) /\ ~NeedsSplit(r, pl) /\ pl.spill <= Cardinality(FreePages)
      /\ file' = Put(r, pl) /\ op' = op /\ rows' = WithRow(rows, r, pl) /\ removed' = Nothing
  <2>1. Cardinality(FreePages) >= pl.spill
    BY DEF Insert
  <2>2. pl.spill <= Cardinality(FreePages)
    BY <2>1, FreeFacts, Constants
  <2> QED BY <2>2 DEF Insert, Accepted, Put, PutCells, PutCell, Home, HomeAt, WithRow
<1> DEFINE U == Put(r, pl)
<1>2. /\ U = [p \in PageId |-> U[p]] /\ U[Home(r)] = Leaf(PutCells(r, pl))
      /\ \E ht, span : Structure(Cells, U, Root, NoPage, ht, span)
      /\ RowsTyped(WithRow(rows, r, pl)) /\ Stored(U, WithRow(rows, r, pl))
  BY <1>1, PutKeeps
<1>3. /\ \A p \in PageId : p # Home(r) => RoomKept(U, p)
      /\ \A p \in PageId : p # Home(r) /\ U[p].kind = "leaf" /\ U[p].cells = <<>> => p = Root
      /\ Used(PutCells(r, pl)) = Used(file[Home(r)].cells) + pl.size
      /\ Used(file[Home(r)].cells) \in Nat /\ PutCells(r, pl) # <<>>
  BY <1>1, PutRooms
<1> HIDE DEF U
<1>4. U[Home(r)].kind = "leaf" /\ U[Home(r)].cells = PutCells(r, pl)
  BY ONLY <1>2 DEF Leaf
<1>5. Used(PutCells(r, pl)) <= LeafRoom
  <2>1. Fits(file[Home(r)], RowCell(r, pl, NoPage), LeafRoom)
    BY <1>1 DEF NeedsSplit, Home
  <2> QED BY <1>3, <2>1 DEF Fits, RowCell
<1>6. \A p \in PageId : RoomKept(U, p)
  <2>1. RoomKept(U, Home(r))
    BY ONLY <1>4, <1>5 DEF RoomKept
  <2> QED BY <2>1, <1>3
<1>7. \A p \in PageId : U[p].kind = "leaf" /\ U[p].cells = <<>> => p = Root
  BY ONLY <1>3, <1>4
<1>8. PICK ht, span : Structure(Cells, U, Root, NoPage, ht, span)
  BY <1>2
<1>9. Sound(U, Idle, WithRow(rows, r, pl))
  BY ONLY <1>2, <1>6, <1>7, <1>8, RestSound
<1>10. file' = U
  BY <1>1 DEF U
<1> QED BY ONLY <1>1, <1>9, <1>10 DEF Inv

-----------------------------------------------------------------------------
(* _split_leaf() *)

\* d is c with the cells of r pointing at the chain.
Rechained(c, d, r, over) ==
  \A i \in 1 .. Len(c) : d[i] = IF c[i].key = r THEN [c[i] EXCEPT !.over = over] ELSE c[i]

\* A half with its chain is a stretch of the cells with theirs.
LEMMA ChainedPart ==
  ASSUME NEW C, NEW c \in Seq(C), NEW d \in Seq(C), Len(c) = Len(d), NEW r, NEW over, Rechained(c, d, r, over),
         NEW m \in 1 .. Len(c) + 1, NEW n \in m - 1 .. Len(c)
  PROVE  Chained(SubSeq(c, m, n), r, over) = SubSeq(d, m, n)
<1> DEFINE a == SubSeq(c, m, n)  b == SubSeq(d, m, n)
<1>0. Len(c) \in Nat /\ m \in Nat /\ m >= 1 /\ n \in Nat /\ n <= Len(c) /\ n + 1 - m \in Nat
  OBVIOUS
<1>1. a \in Seq(C) /\ Len(a) = n + 1 - m /\ IsPart(c, m, n, a)
  BY SubSeqFacts
<1>2. b \in Seq(C) /\ Len(b) = n + 1 - m /\ IsPart(d, m, n, b)
  BY SubSeqFacts
<1> HIDE DEF a, b
<1>3. ASSUME NEW i \in 1 .. Len(a)
      PROVE  (IF a[i].key = r THEN [a[i] EXCEPT !.over = over] ELSE a[i]) = b[i]
  <2>1. i \in 1 .. n + 1 - m /\ m - 1 + i \in 1 .. Len(c)
    BY ONLY <1>0, <1>1, i \in 1 .. Len(a)
  <2>2. a[i] = c[m - 1 + i] /\ b[i] = d[m - 1 + i]
    BY ONLY <1>1, <1>2, <2>1 DEF IsPart
  <2>3. d[m - 1 + i] = IF c[m - 1 + i].key = r THEN [c[m - 1 + i] EXCEPT !.over = over] ELSE c[m - 1 + i]
    BY <2>1 DEF Rechained
  <2> QED BY ONLY <2>2, <2>3
<1>4. Chained(a, r, over) = [i \in 1 .. Len(a) |-> b[i]]
  BY <1>3, Zenon DEF Chained, Slots
<1>5. b = [i \in 1 .. Len(a) |-> b[i]]
  BY ONLY <1>1, <1>2
<1> QED BY ONLY <1>4, <1>5 DEF a, b

\* The two halves, with the chain, are the leaf's cells with the row put in,
\* cut in two; the separator is the last key on the left.
LEMMA SplitFacts ==
  ASSUME Inv, op = Idle, NEW r \in Rowid, NEW pl \in Payload, ~Search(r), pl.spill <= Cardinality(FreePages),
         NeedsSplit(r, pl), ~CannotSplit(r, pl)
  PROVE  \E n \in 1 .. Len(PutCells(r, pl)) - 1 :
            /\ Chained(SplitOf(r, pl).left, r, ChainStart(pl.spill)) = SubSeq(PutCells(r, pl), 1, n)
            /\ Chained(SplitOf(r, pl).right, r, ChainStart(pl.spill))
                  = SubSeq(PutCells(r, pl), n + 1, Len(PutCells(r, pl)))
            /\ SplitOf(r, pl).separator = PutCells(r, pl)[n].key
            /\ Used(SubSeq(PutCells(r, pl), 1, n)) <= LeafRoom
            /\ Used(SubSeq(PutCells(r, pl), n + 1, Len(PutCells(r, pl)))) <= LeafRoom
<1> DEFINE a == file[Home(r)].cells  s == HomeAt(r)  x == RowCell(r, pl, NoPage)
           c == WithCell(a, s, x)  d == PutCells(r, pl)  over == ChainStart(pl.spill)
           path == FindLeaf(r)  parent == path[Len(path) - 1]
           append == (Len(path) = 1 \/ parent[2] = Len(file[parent[1]].kids)) /\ s = Len(a) + 1
           n == LeftSize(c, append)
<1>1. a \in Seq(Cells) /\ s \in 1 .. Len(a) + 1 /\ Len(a) \in Nat /\ s \in Nat
  BY HomeFacts
<1>2. /\ PutCell(r, pl) \in Cells /\ r \in Nat /\ d \in Seq(Cells) /\ Len(d) = Len(a) + 1
      /\ IsInsert(a, s, PutCell(r, pl), d) /\ \A i \in 1 .. Len(a) : a[i].key # r
  BY PutCellsFacts
<1>3. CellSet(Cells) /\ r \in Nat /\ pl.size \in 1 .. LeafRoom /\ pl.size \in Nat /\ LeafRoom \in Nat
  BY Constants
<1>4. x \in Cells /\ x.key = r /\ x.size = pl.size
  BY <1>3 DEF RowCell, Cells
<1>5. c \in Seq(Cells) /\ Len(c) = Len(a) + 1 /\ IsInsert(a, s, x, c)
  BY ONLY <1>1, <1>4, WithCellFacts
<1>6. PutCell(r, pl) = [x EXCEPT !.over = over] /\ PutCell(r, pl).size = pl.size
  BY DEF PutCell, RowCell
<1>7. SplitOf(r, pl) = [left |-> SubSeq(c, 1, n), right |-> SubSeq(c, n + 1, Len(c)), separator |-> c[n].key]
  BY DEF SplitOf, Home, HomeAt
<1>8. Len(c) >= 2
  <2>1. Used(a) + pl.size > LeafRoom
    <3>1. ~Fits(file[Home(r)], x, LeafRoom)
      BY DEF NeedsSplit, Home
    <3>2. Used(a) \in Nat
      BY ONLY <1>1, <1>3, RunFacts
    <3> HIDE DEF x
    <3>3. ~(Used(a) + x.size <= LeafRoom)
      BY ONLY <3>1 DEF Fits, a
    <3> QED BY ONLY <3>2, <3>3, <1>3, <1>4
  <2>2. Len(a) # 0
    <3> SUFFICES ASSUME Len(a) = 0 PROVE FALSE
      OBVIOUS
    <3>1. Used(a) = Run(a)[Len(a)] /\ Run(a)[0] = 0
      BY ONLY <1>1, <1>3, RunFacts
    <3>2. Used(a) = 0
      BY <3>1
    <3> QED BY ONLY <3>2, <2>1, <1>3
  <2> QED BY ONLY <2>2, <1>1, <1>5
<1> HIDE DEF append
<1>9. n \in 1 .. Len(c) - 1
  BY ONLY <1>3, <1>5, <1>8, LeftSizeFacts
<1> HIDE DEF a, s, x, c, d, n, over
<1>10. ASSUME NEW i \in 1 .. Len(c)
       PROVE  /\ d[i] = IF c[i].key = r THEN [c[i] EXCEPT !.over = over] ELSE c[i]
              /\ c[i].size = d[i].size /\ c[i].key = d[i].key
  <2>0. /\ c[s] = x /\ d[s] = PutCell(r, pl)
        /\ \A j \in 1 .. s - 1 : c[j] = a[j] /\ d[j] = a[j]
        /\ \A j \in s .. Len(a) : c[j + 1] = a[j] /\ d[j + 1] = a[j]
    BY ONLY <1>2, <1>5 DEF IsInsert
  <2>1. CASE i = s
    <3>1. PutCell(r, pl).key = r
      BY DEF PutCell, RowCell
    <3> QED BY ONLY <2>0, <2>1, <3>1, <1>4, <1>6
  <2>2. CASE i < s
    <3>1. i \in 1 .. s - 1 /\ i \in 1 .. Len(a)
      BY ONLY <2>2, <1>1, <1>5, i \in 1 .. Len(c)
    <3>2. c[i] = a[i] /\ d[i] = a[i] /\ a[i].key # r
      BY ONLY <3>1, <2>0, <1>2
    <3> QED BY ONLY <3>2
  <2>3. CASE i > s
    <3>1. i - 1 \in s .. Len(a) /\ i - 1 \in 1 .. Len(a) /\ (i - 1) + 1 = i
      BY ONLY <2>3, <1>1, <1>5, i \in 1 .. Len(c)
    <3>2. c[i] = a[i - 1] /\ d[i] = a[i - 1] /\ a[i - 1].key # r
      <4>1. c[(i - 1) + 1] = a[i - 1] /\ d[(i - 1) + 1] = a[i - 1]
        BY ONLY <3>1, <2>0
      <4> QED BY ONLY <4>1, <3>1, <1>2
    <3> QED BY ONLY <3>2
  <2> QED BY ONLY <2>1, <2>2, <2>3, <1>1, i \in 1 .. Len(c), <1>5
<1>11. Rechained(c, d, r, over) /\ Len(c) = Len(d)
  BY <1>2, <1>5, <1>10 DEF Rechained
<1>12. /\ 1 \in 1 .. Len(c) + 1 /\ n \in 1 - 1 .. Len(c) /\ n + 1 \in 1 .. Len(c) + 1 /\ n \in 1 .. Len(c)
       /\ Len(c) \in (n + 1) - 1 .. Len(c) /\ n \in 0 .. Len(c) /\ Len(c) \in Nat
  BY ONLY <1>5, <1>9
<1>13. Chained(SubSeq(c, 1, n), r, over) = SubSeq(d, 1, n)
  <2>1. c \in Seq(Cells) /\ d \in Seq(Cells) /\ Len(c) = Len(d) /\ Rechained(c, d, r, over)
    BY ONLY <1>2, <1>5, <1>11
  <2> QED BY ONLY <1>12, <2>1, ChainedPart
<1>14. Chained(SubSeq(c, n + 1, Len(c)), r, over) = SubSeq(d, n + 1, Len(c))
  <2>1. c \in Seq(Cells) /\ d \in Seq(Cells) /\ Len(c) = Len(d) /\ Rechained(c, d, r, over)
    BY ONLY <1>2, <1>5, <1>11
  <2>2. PICK m \in 1 .. Len(c) + 1 : m = n + 1
    BY ONLY <1>12
  <2>3. PICK k \in m - 1 .. Len(c) : k = Len(c)
    BY ONLY <1>12, <2>2
  <2>4. Chained(SubSeq(c, m, k), r, over) = SubSeq(d, m, k)
    BY ONLY <2>1, ChainedPart
  <2> QED BY ONLY <2>2, <2>3, <2>4
<1>15. Used(SubSeq(d, 1, n)) = Used(SubSeq(c, 1, n)) /\ Used(SubSeq(d, n + 1, Len(d))) = Used(SubSeq(c, n + 1, Len(c)))
  <2>1. Used(c) = Used(d)
    BY ONLY <1>2, <1>3, <1>5, <1>10, <1>11, UsedSame
  <2>2. \A i \in 1 .. n : c[0 + i].size = d[0 + i].size
    <3> TAKE i \in 1 .. n
    <3>1. i \in 1 .. Len(c) /\ 0 + i = i
      BY ONLY <1>12, i \in 1 .. n
    <3> QED BY ONLY <3>1, <1>10
  <2>3. Run(c)[0 + n] - Run(c)[0] = Run(d)[0 + n] - Run(d)[0]
    <3>1. SameSizes(c, 0, d, 0, n)
      BY ONLY <2>2 DEF SameSizes
    <3>2. 0 \in Nat /\ n \in Nat /\ 0 + n <= Len(c) /\ 0 + n <= Len(d)
      BY ONLY <1>11, <1>12
    <3> QED BY ONLY <1>2, <1>3, <1>5, <3>1, <3>2, RunShift
  <2>4. Run(c)[0] = 0 /\ Run(d)[0] = 0
    BY ONLY <1>2, <1>3, <1>5, RunFacts
  <2>5. /\ Used(SubSeq(c, 1, n)) = Run(c)[n] /\ Used(SubSeq(c, n + 1, Len(c))) = Used(c) - Run(c)[n]
        /\ Run(c)[n] \in Nat
    BY ONLY <1>3, <1>5, <1>12, UsedParts
  <2>6. /\ Used(SubSeq(d, 1, n)) = Run(d)[n] /\ Used(SubSeq(d, n + 1, Len(d))) = Used(d) - Run(d)[n]
        /\ Run(d)[n] \in Nat
    <3>1. n \in 0 .. Len(d)
      BY ONLY <1>11, <1>12
    <3> QED BY ONLY <1>3, <1>2, <3>1, UsedParts
  <2>7. 0 + n = n
    BY ONLY <1>12
  <2>8. Run(c)[n] = Run(d)[n]
    BY ONLY <2>3, <2>4, <2>5, <2>6, <2>7
  <2> QED BY ONLY <2>1, <2>5, <2>6, <2>8
<1>16. Used(SubSeq(c, 1, n)) <= LeafRoom /\ Used(SubSeq(c, n + 1, Len(c))) <= LeafRoom
  <2>1. Used(SubSeq(c, 1, n)) \in Nat /\ Used(SubSeq(c, n + 1, Len(c))) \in Nat
    <3>1. SubSeq(c, 1, n) \in Seq(Cells) /\ SubSeq(c, n + 1, Len(c)) \in Seq(Cells)
      BY ONLY <1>5, <1>12, SubSeqFacts
    <3> QED BY ONLY <1>3, <3>1, RunFacts
  <2>2. ~(Used(SplitOf(r, pl).left) > LeafRoom) /\ ~(Used(SplitOf(r, pl).right) > LeafRoom)
    BY DEF CannotSplit
  <2>3. SplitOf(r, pl).left = SubSeq(c, 1, n) /\ SplitOf(r, pl).right = SubSeq(c, n + 1, Len(c))
    <3> DEFINE lft == SubSeq(c, 1, n)  rgt == SubSeq(c, n + 1, Len(c))
    <3>1. SplitOf(r, pl) = [left |-> lft, right |-> rgt, separator |-> c[n].key]
      BY <1>7
    <3> HIDE DEF lft, rgt
    <3>2. SplitOf(r, pl).left = lft /\ SplitOf(r, pl).right = rgt
      BY ONLY <3>1
    <3> QED BY ONLY <3>2 DEF lft, rgt
  <2> QED BY ONLY <1>3, <2>1, <2>2, <2>3
<1>17. c[n].key = d[n].key /\ n \in 1 .. Len(d) - 1
  BY ONLY <1>9, <1>10, <1>11, <1>12
<1>18. /\ Chained(SplitOf(r, pl).left, r, over) = SubSeq(d, 1, n)
       /\ Chained(SplitOf(r, pl).right, r, over) = SubSeq(d, n + 1, Len(d))
       /\ SplitOf(r, pl).separator = d[n].key
       /\ Used(SubSeq(d, 1, n)) <= LeafRoom /\ Used(SubSeq(d, n + 1, Len(d))) <= LeafRoom
  BY ONLY <1>7, <1>11, <1>13, <1>14, <1>15, <1>16, <1>17
<1> QED BY ONLY <1>17, <1>18, Zenon DEF d, over

\* The cells after the first n.
LEMMA TailFacts ==
  ASSUME NEW C, NEW c \in Seq(C), NEW n \in 0 .. Len(c)
  PROVE  /\ SubSeq(c, n + 1, Len(c)) \in Seq(C) /\ Len(SubSeq(c, n + 1, Len(c))) = Len(c) - n
         /\ \A i \in 1 .. Len(c) - n : SubSeq(c, n + 1, Len(c))[i] = c[n + i]
<1>0. Len(c) \in Nat /\ n \in Nat /\ n <= Len(c)
  OBVIOUS
<1>1. PICK k \in 1 .. Len(c) + 1 : k = n + 1
  BY ONLY <1>0
<1>2. PICK z \in k - 1 .. Len(c) : z = Len(c)
  BY ONLY <1>0, <1>1
<1> DEFINE b == SubSeq(c, k, z)
<1>3. b \in Seq(C) /\ Len(b) = z + 1 - k /\ IsPart(c, k, z, b)
  BY ONLY c \in Seq(C), SubSeqFacts
<1> HIDE DEF b
<1>4. z + 1 - k = Len(c) - n /\ z \in Nat /\ k \in Nat
  BY ONLY <1>0, <1>1, <1>2
<1>5. ASSUME NEW i \in 1 .. Len(c) - n PROVE b[i] = c[n + i]
  <2>1. i \in 1 .. z + 1 - k
    BY ONLY <1>4, i \in 1 .. Len(c) - n
  <2>2. k - 1 + i = n + i
    BY ONLY <1>0, <1>1, i \in 1 .. Len(c) - n
  <2>3. b[i] = c[k - 1 + i]
    BY ONLY <1>3, <2>1 DEF IsPart
  <2> QED BY ONLY <2>2, <2>3
<1>6. b \in Seq(C) /\ Len(b) = Len(c) - n /\ \A i \in 1 .. Len(c) - n : b[i] = c[n + i]
  BY ONLY <1>3, <1>4, <1>5
<1>7. b = SubSeq(c, n + 1, Len(c))
  BY ONLY <1>1, <1>2 DEF b
<1> QED BY ONLY <1>6, <1>7

\* The cells of the leaf p of U are in W on lp, the first n, and rp.
CutLeaf(U, W, p, lp, rp, n) ==
  /\ p \in PageId /\ lp \in PageId /\ rp \in PageId /\ rp # p /\ rp # lp
  /\ U[p].kind = "leaf" /\ U[p].cells \in Seq(Cells) /\ n \in 1 .. Len(U[p].cells) - 1
  /\ U[rp].kind # "leaf" /\ (lp = p \/ U[lp].kind # "leaf")
  /\ W[lp] = Leaf(SubSeq(U[p].cells, 1, n))
  /\ W[rp] = Leaf(SubSeq(U[p].cells, n + 1, Len(U[p].cells)))
  /\ lp = p \/ W[p].kind # "leaf"
  /\ \A x \in PageId \ {p, lp, rp} : U[x].kind = "leaf" \/ W[x].kind = "leaf" => W[x] = U[x]

\* A split moves cells and loses none.
LEMMA CutLeafCells ==
  ASSUME NEW U, NEW W, NEW p, NEW lp, NEW rp, NEW n, CutLeaf(U, W, p, lp, rp, n)
  PROVE  LeafCells(W) = LeafCells(U)
<1> USE DEF CutLeaf
<1> DEFINE c == U[p].cells  a == SubSeq(c, 1, n)  b == SubSeq(c, n + 1, Len(c))
<1>1. c \in Seq(Cells) /\ Len(c) \in Nat /\ n \in Nat /\ n >= 1 /\ n <= Len(c) - 1
  OBVIOUS
<1>2. a \in Seq(Cells) /\ Len(a) = n /\ \A i \in 1 .. n : a[i] = c[i]
  <2>1. 1 \in 1 .. Len(c) + 1 /\ n \in 1 - 1 .. Len(c) /\ n + 1 - 1 = n
    BY ONLY <1>1
  <2>2. a \in Seq(Cells) /\ Len(a) = n + 1 - 1 /\ IsPart(c, 1, n, a)
    BY ONLY <1>1, <2>1, SubSeqFacts
  <2>3. \A i \in 1 .. n : 1 - 1 + i = i
    BY ONLY <1>1
  <2> QED BY ONLY <2>1, <2>2, <2>3 DEF IsPart
<1>3. b \in Seq(Cells) /\ Len(b) = Len(c) - n /\ \A i \in 1 .. Len(c) - n : b[i] = c[n + i]
  <2>1. n \in 0 .. Len(c)
    BY ONLY <1>1
  <2> QED BY ONLY <1>1, <2>1, TailFacts
<1>4. W[lp] = Leaf(a) /\ W[rp] = Leaf(b)
  OBVIOUS
<1> HIDE DEF c, a, b
<1>5. W[lp].kind = "leaf" /\ W[lp].cells = a /\ W[rp].kind = "leaf" /\ W[rp].cells = b
  BY ONLY <1>4 DEF Leaf
<1>6. /\ p \in PageId /\ lp \in PageId /\ rp \in PageId /\ rp # p /\ rp # lp
      /\ U[p].kind = "leaf" /\ U[rp].kind # "leaf" /\ (lp = p \/ U[lp].kind # "leaf")
      /\ lp = p \/ W[p].kind # "leaf"
      /\ \A x \in PageId \ {p, lp, rp} : U[x].kind = "leaf" \/ W[x].kind = "leaf" => W[x] = U[x]
  OBVIOUS
<1>7. ASSUME NEW d \in Cells, NEW x \in PageId, NEW i \in Nat, LeafCell(W, x, i, d)
      PROVE  \E y \in PageId, j \in Nat : LeafCell(U, y, j, d)
  <2>1. W[x].kind = "leaf" /\ i \in 1 .. Len(W[x].cells) /\ W[x].cells[i] = d
    BY <1>7 DEF LeafCell
  <2>2. CASE x = lp
    <3>1. i \in 1 .. Len(c) /\ c[i] = d
      BY ONLY <1>1, <1>2, <1>5, <2>1, <2>2
    <3> QED BY ONLY <1>6, <3>1, i \in Nat DEF LeafCell, c
  <2>3. CASE x = rp
    <3>1. i \in 1 .. Len(c) - n /\ n + i \in 1 .. Len(c) /\ n + i \in Nat
      BY ONLY <1>1, <1>3, <1>5, <2>1, <2>3
    <3>2. c[n + i] = d
      BY ONLY <1>3, <1>5, <2>1, <2>3, <3>1
    <3> QED BY ONLY <1>6, <3>1, <3>2 DEF LeafCell, c
  <2>4. CASE x \notin {lp, rp}
    <3>1. W[x] = U[x]
      BY ONLY <1>6, <2>1, <2>4, x \in PageId
    <3> QED BY ONLY <2>1, <3>1, x \in PageId, i \in Nat DEF LeafCell
  <2> QED BY <2>2, <2>3, <2>4
<1>8. ASSUME NEW d \in Cells, NEW x \in PageId, NEW i \in Nat, LeafCell(U, x, i, d)
      PROVE  \E y \in PageId, j \in Nat : LeafCell(W, y, j, d)
  <2>1. U[x].kind = "leaf" /\ i \in 1 .. Len(U[x].cells) /\ U[x].cells[i] = d
    BY <1>8 DEF LeafCell
  <2>2. CASE x = p
    <3>1. i \in 1 .. Len(c) /\ c[i] = d
      BY ONLY <2>1, <2>2 DEF c
    <3>2. CASE i <= n
      <4>1. i \in 1 .. n
        BY ONLY <1>1, <3>1, <3>2
      <4> QED BY ONLY <1>2, <1>5, <1>6, <3>1, <4>1, i \in Nat DEF LeafCell
    <3>3. CASE ~(i <= n)
      <4>1. i - n \in 1 .. Len(c) - n /\ n + (i - n) = i /\ i - n \in Nat
        BY ONLY <1>1, <3>1, <3>3
      <4>2. b[i - n] = d
        BY ONLY <1>3, <3>1, <4>1
      <4> QED BY ONLY <1>3, <1>5, <1>6, <4>1, <4>2 DEF LeafCell
    <3> QED BY <3>2, <3>3
  <2>3. CASE x # p
    <3>1. W[x] = U[x]
      BY ONLY <1>6, <2>1, <2>3, x \in PageId
    <3> QED BY ONLY <2>1, <3>1, x \in PageId, i \in Nat DEF LeafCell
  <2> QED BY <2>2, <2>3
<1> QED BY <1>7, <1>8 DEF LeafCells

\* A page that the operation takes beyond the chain.
LEMMA TakenFacts ==
  ASSUME Inv, op = Idle, NEW r \in Rowid, NEW pl \in Payload, ~Search(r),
         NEW k \in Nat, pl.spill < k, k <= Cardinality(FreePages)
  PROVE  /\ Allocated(k) \in PageId /\ Allocated(k) \in FreePages /\ Rank(Allocated(k)) = k
         /\ Allocated(k) # Home(r) /\ Allocated(k) # Root
         /\ Put(r, pl)[Allocated(k)] = FreePage /\ ~TreePage(Put(r, pl), Allocated(k))
<1>1. pl.spill \in Nat /\ Cardinality(FreePages) \in Nat
  BY Constants, FreeFacts
<1>2. 1 <= k /\ pl.spill <= Cardinality(FreePages)
  BY ONLY <1>1, k \in Nat, pl.spill < k, k <= Cardinality(FreePages)
<1>3. Allocated(k) \in FreePages /\ Rank(Allocated(k)) = k /\ Allocated(k) \in PageId
  BY <1>2, AllocatedFacts
<1>4. Rank(Allocated(k)) > pl.spill
  BY ONLY <1>1, <1>3, k \in Nat, pl.spill < k
<1>5. Put(r, pl)[Allocated(k)] = FreePage
  BY <1>2, <1>3, <1>4, PutKeeps
<1>6. Home(r) \notin FreePages
  BY HomeFacts
<1>7. Root \notin FreePages
  <2>1. PICK ht, span : Structure(Cells, file, Root, NoPage, ht, span)
    BY AtRest
  <2>2. TreePage(file, Root)
    BY ONLY <2>1 DEF Structure, Heights
  <2> QED BY ONLY <2>2 DEF TreePage, FreePages
<1> QED BY ONLY <1>3, <1>5, <1>6, <1>7 DEF FreePage, TreePage

\* A half of a full leaf.
LEMMA HalfFacts ==
  ASSUME NEW c \in Seq(Cells), NEW n \in 1 .. Len(c) - 1
  PROVE  /\ SubSeq(c, 1, n) # <<>> /\ SubSeq(c, n + 1, Len(c)) # <<>>
         /\ RouteCell(c[n].key) \in Cells /\ RouteCell(c[n].key).key = c[n].key
<1>1. Len(c) \in Nat /\ n \in Nat /\ 1 <= n /\ n <= Len(c) - 1 /\ 1 + n - 1 = n
  OBVIOUS
<1>2. 1 \in 1 .. Len(c) + 1 /\ n \in 1 - 1 .. Len(c)
  BY ONLY <1>1
<1>3. PICK m \in 1 .. Len(c) + 1 : m = n + 1
  BY ONLY <1>1
<1>4. PICK k \in m - 1 .. Len(c) : k = Len(c)
  BY ONLY <1>1, <1>3
<1>5. Len(SubSeq(c, 1, n)) = n + 1 - 1
  BY ONLY <1>2, c \in Seq(Cells), SubSeqFacts
<1>6. Len(SubSeq(c, m, k)) = k + 1 - m
  BY ONLY c \in Seq(Cells), SubSeqFacts
<1>7. SubSeq(c, 1, n) # <<>> /\ SubSeq(c, m, k) # <<>>
  <2>1. Len(<<>>) = 0 /\ n + 1 - 1 # 0 /\ k + 1 - m # 0
    BY ONLY <1>1, <1>3, <1>4
  <2> QED BY ONLY <1>5, <1>6, <2>1
<1>8. c[n] \in Cells
  BY ONLY <1>1, c \in Seq(Cells)
<1>9. c[n].key \in Rowid
  BY ONLY <1>8 DEF Cells
<1>10. 1 \in 1 .. LeafRoom
  <2>1. c[n].size \in 1 .. LeafRoom /\ LeafRoom \in Nat
    BY <1>8, Constants DEF Cells
  <2> QED BY ONLY <2>1
<1>11. RouteCell(c[n].key) \in Cells /\ RouteCell(c[n].key).key = c[n].key
  BY ONLY <1>9, <1>10 DEF RouteCell, Cells
<1> QED BY ONLY <1>3, <1>4, <1>7, <1>11

\* insert() that splits the only leaf.
LEMMA SplitRootLeafKeeps ==
  ASSUME Inv, NEW r \in Rowid, NEW pl \in Payload, SplitRootLeaf(r, pl)
  PROVE  Inv'
<1> DEFINE n0 == pl.spill  U == Put(r, pl)  c == PutCells(r, pl)
           right == Allocated(n0 + 1)  left == Allocated(n0 + 2)
<1>1. /\ op = Idle /\ ~Search(r) /\ NeedsSplit(r, pl) /\ ~CannotSplit(r, pl) /\ Len(FindLeaf(r)) = 1
      /\ Cardinality(FreePages) >= n0 + 2
      /\ op' = op /\ rows' = WithRow(rows, r, pl) /\ removed' = Nothing
      /\ file' = [WithChain(r, n0) EXCEPT
                     ![Root]  = Interior(<<RouteCell(SplitOf(r, pl).separator)>>, <<left, right>>),
                     ![left]  = Leaf(Chained(SplitOf(r, pl).left, r, ChainStart(n0))),
                     ![right] = Leaf(Chained(SplitOf(r, pl).right, r, ChainStart(n0)))]
  BY DEF SplitRootLeaf, Accepted, WithRow
<1>2. n0 \in Nat /\ Cardinality(FreePages) \in Nat /\ NodeRoom \in Nat /\ NodeRoom >= 2
  BY Constants, FreeFacts
<1>3. n0 <= Cardinality(FreePages) /\ n0 + 1 \in Nat /\ n0 < n0 + 1 /\ n0 + 1 <= Cardinality(FreePages)
      /\ n0 + 2 \in Nat /\ n0 < n0 + 2 /\ n0 + 2 <= Cardinality(FreePages) /\ n0 + 1 # n0 + 2
  BY ONLY <1>1, <1>2
<1>4. Home(r) = Root
  <2>1. Leads(Cells, file, Root, r, FindLeaf(r))
    BY <1>1, FindLeafLeads, Constants
  <2>2. Last(FindLeaf(r)) = FindLeaf(r)[Len(FindLeaf(r))] /\ FindLeaf(r)[1][1] = Root
    BY <2>1, LeadsFacts
  <2> QED BY ONLY <1>1, <2>2 DEF Home
<1>5. /\ U = [p \in PageId |-> U[p]] /\ DOMAIN U = PageId /\ U[Root] = Leaf(c)
      /\ \A p \in PageId : p # Root => U[p] = WithChain(r, n0)[p]
      /\ \E ht, span : Structure(Cells, U, Root, NoPage, ht, span)
      /\ RowsTyped(WithRow(rows, r, pl)) /\ Stored(U, WithRow(rows, r, pl))
  BY <1>1, <1>3, <1>4, PutKeeps
<1>6. /\ c \in Seq(Cells) /\ Sorted(c) /\ Len(c) \in Nat
  BY <1>1, <1>3, PutCellsFacts
<1>7. PICK n \in 1 .. Len(c) - 1 :
         /\ Chained(SplitOf(r, pl).left, r, ChainStart(n0)) = SubSeq(c, 1, n)
         /\ Chained(SplitOf(r, pl).right, r, ChainStart(n0)) = SubSeq(c, n + 1, Len(c))
         /\ SplitOf(r, pl).separator = c[n].key
         /\ Used(SubSeq(c, 1, n)) <= LeafRoom
         /\ Used(SubSeq(c, n + 1, Len(c))) <= LeafRoom
  BY <1>1, <1>3, SplitFacts
<1>8. /\ right \in PageId /\ right \in FreePages /\ Rank(right) = n0 + 1 /\ right # Root
      /\ U[right] = FreePage /\ ~TreePage(U, right)
  BY <1>1, <1>3, TakenFacts
<1>9. /\ left \in PageId /\ left \in FreePages /\ Rank(left) = n0 + 2 /\ left # Root
      /\ U[left] = FreePage /\ ~TreePage(U, left)
  BY <1>1, <1>3, TakenFacts
<1>10. right # left /\ Root \in PageId
  BY ONLY <1>3, <1>8, <1>9, Constants
<1>11. DOMAIN WithChain(r, n0) = PageId /\ WithChain(r, n0) = [p \in PageId |-> WithChain(r, n0)[p]]
  BY DEF WithChain
<1> DEFINE W == file'  lc == SubSeq(c, 1, n)  rc == SubSeq(c, n + 1, Len(c))  x == RouteCell(c[n].key)
<1>12. W = [WithChain(r, n0) EXCEPT ![Root] = Interior(<<x>>, <<left, right>>), ![left] = Leaf(lc), ![right] = Leaf(rc)]
  BY <1>1, <1>7
<1>13. lc # <<>> /\ rc # <<>> /\ x \in Cells /\ x.key = c[n].key
  BY <1>6, HalfFacts
<1>14. x.size = 1 /\ x.over = NoPage
  BY DEF RouteCell
<1>15. n \in 0 .. n /\ n \in Nat
  OBVIOUS
<1> HIDE DEF U, c, left, right, n0, x
<1>16. /\ W = [p \in PageId |-> W[p]] /\ DOMAIN W = PageId
       /\ W[Root] = Interior(<<x>>, <<left, right>>) /\ W[left] = Leaf(lc) /\ W[right] = Leaf(rc)
       /\ \A p \in PageId \ {Root, left, right} : W[p] = U[p]
  BY ONLY <1>5, <1>8, <1>9, <1>10, <1>11, <1>12
<1> HIDE DEF W
<1>17. /\ W[Root].kind = "interior" /\ W[Root].cells = <<x>> /\ W[left].kind = "leaf" /\ W[left].cells = lc
       /\ W[right].kind = "leaf" /\ W[right].cells = rc /\ U[Root].kind = "leaf" /\ U[Root].cells = c
       /\ U[left].kind = "free" /\ U[right].kind = "free"
  BY ONLY <1>5, <1>8, <1>9, <1>16 DEF Leaf, Interior, FreePage
<1>18. \E ht, span : Structure(Cells, W, Root, NoPage, ht, span)
  <2>1. PICK ht, span : Structure(Cells, U, Root, NoPage, ht, span)
    BY <1>5
  <2>2. IsCut(Cells, DOMAIN U, U[Root], Leaf(lc), Leaf(rc), x.key)
    <3>1. CellSet(Cells)
      BY Constants
    <3>2. IsCut(Cells, PageId, Leaf(c), Leaf(lc), Leaf(rc), c[n].key)
      BY ONLY <1>6, <1>15, <3>1, n \in 1 .. Len(c) - 1, LeafCut
    <3> QED BY ONLY <1>5, <1>13, <3>2
  <2>3. RootSplits(Cells, U, W, Root, left, right, Leaf(lc), Leaf(rc), x)
    BY ONLY <1>5, <1>8, <1>9, <1>10, <1>13, <1>16, <2>2 DEF RootSplits
  <2>4. CellSet(Cells) /\ NoPage \notin DOMAIN U
    BY <1>5, Constants
  <2>5. Structure(Cells, W, Root, NoPage, RootHt(ht, Root, left, right), RootSpan(span, Root, left, right, x.key))
    BY ONLY <2>1, <2>3, <2>4, RootSplitKeeps
  <2> QED BY ONLY <2>5
<1>19. Stored(W, WithRow(rows, r, pl))
  <2>1. CutLeaf(U, W, Root, left, right, n)
    BY ONLY <1>6, <1>8, <1>9, <1>10, <1>16, <1>17, n \in 1 .. Len(c) - 1 DEF CutLeaf
  <2>2. LeafCells(W) = LeafCells(U)
    BY ONLY <2>1, CutLeafCells
  <2>3. ChainsAgree(U, W)
    BY ONLY <1>16, <1>17 DEF ChainsAgree
  <2> QED BY ONLY <1>5, <2>2, <2>3, StoredStays
<1>20. ASSUME NEW p \in PageId PROVE RoomKept(W, p) /\ (W[p].kind = "leaf" /\ W[p].cells = <<>> => p = Root)
  <2>1. CASE p = Root
    <3>0. W[p].cells = <<x>> /\ Len(<<x>>) = 1 /\ <<x>>[1] = x
      BY <1>17, <2>1
    <3>1. Len(W[p].cells) = 1 /\ W[p].cells[1] = x
      BY ONLY <3>0
    <3>2. Len(W[p].cells) <= NodeRoom /\ \A i \in 1 .. Len(W[p].cells) : i = 1
      BY ONLY <1>2, <3>1
    <3>3. \A i \in 1 .. Len(W[p].cells) : W[p].cells[i].size = 1 /\ W[p].cells[i].over = NoPage
      BY ONLY <1>14, <3>1, <3>2
    <3>4. RoomKept(W, p)
      BY ONLY <1>17, <2>1, <3>2, <3>3 DEF RoomKept
    <3> QED BY ONLY <2>1, <3>4
  <2>2. CASE p \in {left, right}
    <3>1. Used(W[p].cells) <= LeafRoom /\ W[p].kind = "leaf" /\ W[p].cells # <<>>
      BY <1>7, <1>13, <1>17, <2>2
    <3> QED BY ONLY <3>1 DEF RoomKept
  <2>3. CASE p \notin {Root, left, right}
    <3>1. W[p] = U[p]
      BY ONLY <1>16, <2>3, p \in PageId
    <3>2. RoomKept(U, p) /\ (U[p].kind = "leaf" /\ U[p].cells = <<>> => p = Root)
      BY <1>1, <1>3, <1>4, <2>3, PutRooms DEF U, n0
    <3> QED BY ONLY <3>1, <3>2 DEF RoomKept
  <2> QED BY <2>1, <2>2, <2>3
<1>21. PICK ht, span : Structure(Cells, W, Root, NoPage, ht, span)
  BY <1>18
<1>22. Sound(W, Idle, WithRow(rows, r, pl))
  BY ONLY <1>5, <1>16, <1>19, <1>20, <1>21, RestSound
<1> QED BY ONLY <1>1, <1>22 DEF Inv, W

-----------------------------------------------------------------------------
(* The cells of interior pages *)

Units(c) == \A i \in 1 .. Len(c) : c[i].size = 1 /\ c[i].over = NoPage

\* The route cells of an interior page take one unit each, whatever is put
\* among them or left of them.
LEMMA UnitsInsert ==
  ASSUME NEW c \in Seq(Cells), Units(c), NEW x \in Cells, x.size = 1, x.over = NoPage,
         NEW s \in 1 .. Len(c) + 1, NEW w, Len(w) = Len(c) + 1, IsInsert(c, s, x, w)
  PROVE  Units(w)
<1>1. Len(c) \in Nat /\ s \in Nat /\ 1 <= s
  OBVIOUS
<1>2. /\ w[s] = x
      /\ \A i \in 1 .. s - 1 : w[i] = c[i]
      /\ \A i \in s .. Len(c) : w[i + 1] = c[i]
  BY DEF IsInsert
<1>3. \A i \in 1 .. Len(c) : c[i].size = 1 /\ c[i].over = NoPage
  BY DEF Units
<1>4. ASSUME NEW i \in 1 .. Len(w) PROVE w[i].size = 1 /\ w[i].over = NoPage
  <2>0. i \in 1 .. Len(c) + 1
    BY ONLY i \in 1 .. Len(w), Len(w) = Len(c) + 1
  <2>1. CASE i = s
    BY ONLY <1>2, <2>1, x.size = 1, x.over = NoPage
  <2>2. CASE i < s
    <3>1. i \in 1 .. s - 1 /\ i \in 1 .. Len(c)
      BY ONLY <1>1, <2>0, <2>2, s \in 1 .. Len(c) + 1
    <3> QED BY ONLY <1>2, <1>3, <3>1
  <2>3. CASE i > s
    <3>1. i - 1 \in s .. Len(c) /\ i - 1 \in 1 .. Len(c) /\ (i - 1) + 1 = i
      BY ONLY <1>1, <2>0, <2>3, s \in 1 .. Len(c) + 1
    <3>2. w[(i - 1) + 1] = c[i - 1]
      BY ONLY <1>2, <3>1
    <3> QED BY ONLY <1>3, <3>1, <3>2
  <2> QED BY ONLY <1>1, <2>0, <2>1, <2>2, <2>3
<1> QED BY <1>4 DEF Units

\* A part of an interior page's cells are interior cells.
LEMMA UnitsPart ==
  ASSUME NEW c \in Seq(Cells), Units(c), NEW m \in 1 .. Len(c) + 1, NEW n \in m - 1 .. Len(c)
  PROVE  Units(SubSeq(c, m, n))
<1> DEFINE d == SubSeq(c, m, n)
<1>1. Len(d) = n + 1 - m /\ IsPart(c, m, n, d)
  BY SubSeqFacts
<1> HIDE DEF d
<1>2. ASSUME NEW i \in 1 .. Len(d) PROVE d[i].size = 1 /\ d[i].over = NoPage
  <2>1. i \in 1 .. n + 1 - m
    BY ONLY <1>1, i \in 1 .. Len(d)
  <2>2. m - 1 + i \in 1 .. Len(c)
    <3>1. Len(c) \in Nat
      OBVIOUS
    <3> QED BY ONLY <2>1, <3>1, m \in 1 .. Len(c) + 1, n \in m - 1 .. Len(c)
  <2>3. d[i] = c[m - 1 + i]
    BY ONLY <1>1, <2>1 DEF IsPart
  <2>4. c[m - 1 + i].size = 1 /\ c[m - 1 + i].over = NoPage
    BY <2>2 DEF Units
  <2> QED BY ONLY <2>3, <2>4
<1> QED BY <1>2 DEF Units, d

\* What fits() says of such a page.
LEMMA UnitsFit ==
  ASSUME NEW c \in Seq(Cells), Units(c), NEW pg, pg.cells = c, NEW k
  PROVE  /\ Used(c) = Len(c) /\ Len(c) \in Nat
         /\ Fits(pg, RouteCell(k), NodeRoom) <=> Len(c) + 1 <= NodeRoom
<1>1. CellSet(Cells) /\ \A i \in 1 .. Len(c) : c[i].size = 1
  BY Constants DEF Units
<1>2. Used(c) = Len(c)
  BY ONLY <1>1, c \in Seq(Cells), UsedUnits
<1>3. RouteCell(k).size = 1
  BY DEF RouteCell
<1>4. Fits(pg, RouteCell(k), NodeRoom) <=> Used(c) + 1 <= NodeRoom
  BY ONLY <1>3, pg.cells = c DEF Fits
<1> QED BY ONLY <1>2, <1>4, c \in Seq(Cells)

\* An interior page has room, in the terms of the invariant.
LEMMA InteriorRoom ==
  ASSUME NEW F, NEW p, F[p].kind = "interior"
  PROVE  /\ RoomKept(F, p) => Units(F[p].cells) /\ Len(F[p].cells) <= NodeRoom
         /\ Units(F[p].cells) /\ Len(F[p].cells) <= NodeRoom => RoomKept(F, p)
BY DEF RoomKept, Units, FreePage

-----------------------------------------------------------------------------
(* insert() into a full leaf under a parent *)

\* While a separator is on its way up the tree is that of the promotion.
LEMMA PromoteSound ==
  ASSUME NEW F, NEW o, NEW R, o.kind = "promote", F = [p \in PageId |-> F[p]], \A p \in PageId : RoomKept(F, p),
         \A p \in PageId : F[p].kind = "leaf" /\ F[p].cells = <<>> => p = Root,
         OpUnderWay(F, o), NEW ht, NEW span, Structure(Cells, TreeOf(F, o), Root, NoPage, ht, span),
         RowsTyped(R), Stored(F, R)
  PROVE  Sound(F, o, R)
<1>1. HoleOf(o) = NoPage
  BY DEF HoleOf
<1>2. FilePages(F, o)
  BY DEF FilePages
<1>3. Shaped(F, o)
  BY ONLY <1>1, Structure(Cells, TreeOf(F, o), Root, NoPage, ht, span), Zenon DEF Shaped
<1> QED BY <1>2, <1>3 DEF Sound

ParentOf(rowid) == FindLeaf(rowid)[Len(FindLeaf(rowid)) - 1]
RightOf(payload) == Allocated(payload.spill + 1)
Halves(rowid, payload) ==
  [WithChain(rowid, payload.spill) EXCEPT
      ![Home(rowid)]      = Leaf(Chained(SplitOf(rowid, payload).left, rowid, ChainStart(payload.spill))),
      ![RightOf(payload)] = Leaf(Chained(SplitOf(rowid, payload).right, rowid, ChainStart(payload.spill)))]
GrownParent(rowid, payload) ==
  Promoted(file[ParentOf(rowid)[1]], ParentOf(rowid)[2], RouteCell(SplitOf(rowid, payload).separator),
           Home(rowid), RightOf(payload))

\* The leaf's parent on its path.
LEMMA ParentFacts ==
  ASSUME Inv, op = Idle, NEW r \in Rowid, Len(FindLeaf(r)) > 1
  PROVE  /\ FindLeaf(r) \in Seq(PageId \X Nat) /\ Len(FindLeaf(r)) \in Nat /\ FindLeaf(r)[1][1] = Root
         /\ \A i \in 1 .. Len(FindLeaf(r)) - 1 :
               Edge(file, FindLeaf(r)[i][1], FindLeaf(r)[i][2], FindLeaf(r)[i + 1][1])
         /\ ParentOf(r)[1] \in PageId /\ ParentOf(r)[2] \in Nat
         /\ Edge(file, ParentOf(r)[1], ParentOf(r)[2], Home(r))
         /\ ParentOf(r)[1] \notin FreePages /\ file[ParentOf(r)[1]].kind = "interior"
         /\ ParentOf(r)[1] # Home(r) /\ Home(r) # Root
         /\ Node(Cells, PageId, file[ParentOf(r)[1]])
<1> DEFINE path == FindLeaf(r)  n == Len(path) - 1
<1>1. DOMAIN file = PageId /\ r \in Nat /\ NoPage \notin PageId
  BY AtRest, Constants
<1>2. PICK ht, span : Structure(Cells, file, Root, NoPage, ht, span)
  BY AtRest
<1>3. Leads(Cells, file, Root, r, path)
  BY <1>1, FindLeafLeads
<1>4. /\ Len(path) \in Nat /\ path[1][1] = Root /\ Last(path) = path[Len(path)]
      /\ \A i \in 1 .. Len(path) : path[i][1] \in PageId /\ path[i][2] \in Nat
      /\ file[Last(path)[1]].kind = "leaf"
  BY <1>1, <1>3, LeadsFacts
<1>5. path \in Seq(PageId \X Nat) /\ \A i \in 1 .. Len(path) - 1 : Edge(file, path[i][1], path[i][2], path[i + 1][1])
  <2>1. /\ path \in Seq((DOMAIN file) \X Nat)
        /\ \A i \in 1 .. Len(path) - 1 : Edge(file, path[i][1], path[i][2], path[i + 1][1])
    BY ONLY <1>3 DEF Leads
  <2> QED BY ONLY <1>1, <2>1
<1>6. n \in 1 .. Len(path) - 1 /\ n \in 1 .. Len(path) /\ n + 1 = Len(path)
  BY ONLY <1>4, Len(FindLeaf(r)) > 1
<1>7. Home(r) = path[Len(path)][1]
  BY ONLY <1>4 DEF Home
<1>8. ParentOf(r) = path[n]
  BY DEF ParentOf
<1> HIDE DEF n, path
<1>9. Edge(file, ParentOf(r)[1], ParentOf(r)[2], Home(r)) /\ ParentOf(r)[1] \in PageId /\ ParentOf(r)[2] \in Nat
  <2>1. Edge(file, path[n][1], path[n][2], path[n + 1][1])
    BY ONLY <1>5, <1>6
  <2> QED BY ONLY <1>4, <1>6, <1>7, <1>8, <2>1
<1>10. file[ParentOf(r)[1]].kind = "interior"
  BY ONLY <1>9 DEF Edge
<1>11. ParentOf(r)[1] \notin FreePages /\ ParentOf(r)[1] # Home(r)
  BY ONLY <1>4, <1>7, <1>10 DEF FreePages
<1>12. Node(Cells, PageId, file[ParentOf(r)[1]])
  <2>1. TreePage(file, ParentOf(r)[1])
    BY ONLY <1>10 DEF TreePage
  <2>2. WellFormed(Cells, file, NoPage)
    BY <1>2 DEF Structure
  <2>3. ParentOf(r)[1] \in DOMAIN file /\ NoPage \notin DOMAIN file
    BY ONLY <1>1, <1>9
  <2>4. Node(Cells, DOMAIN file, file[ParentOf(r)[1]])
    BY ONLY <2>1, <2>2, <2>3, NodeOf
  <2> QED BY ONLY <1>1, <2>4
<1>13. Home(r) # Root
  <2>1. \A p \in PageId, i \in Nat : ~Edge(file, p, i, Root)
    BY <1>1, <1>2 DEF Structure, Parents
  <2> QED BY ONLY <1>9, <2>1
<1> QED BY ONLY <1>4, <1>5, <1>9, <1>10, <1>11, <1>12, <1>13 DEF path

\* What SplitLeaf asks for.
SplitsLeaf(r, pl) ==
  /\ op = Idle /\ ~Search(r) /\ NeedsSplit(r, pl) /\ ~CannotSplit(r, pl) /\ Len(FindLeaf(r)) > 1
  /\ Cardinality(FreePages) >= pl.spill + 1 + Len(FindLeaf(r))

\* The file W once the leaf is cut after its n-th cell, whatever its parent has
\* become.
Moved(r, pl, n, W) ==
  /\ n \in 1 .. Len(PutCells(r, pl)) - 1
  /\ W = [p \in PageId |-> W[p]]
  /\ W[Home(r)] = Leaf(SubSeq(PutCells(r, pl), 1, n))
  /\ W[RightOf(pl)] = Leaf(SubSeq(PutCells(r, pl), n + 1, Len(PutCells(r, pl))))
  /\ \A p \in PageId \ {Home(r), RightOf(pl), ParentOf(r)[1]} : W[p] = Put(r, pl)[p]
  /\ W[ParentOf(r)[1]].kind = "interior"
  /\ SplitOf(r, pl).separator = PutCells(r, pl)[n].key
  /\ Used(SubSeq(PutCells(r, pl), 1, n)) <= LeafRoom
  /\ Used(SubSeq(PutCells(r, pl), n + 1, Len(PutCells(r, pl)))) <= LeafRoom

\* The pages that take part in the split.
LEMMA SplitPages ==
  ASSUME Inv, NEW r \in Rowid, NEW pl \in Payload, SplitsLeaf(r, pl)
  PROVE  /\ op = Idle /\ ~Search(r) /\ pl.spill <= Cardinality(FreePages) /\ pl.spill \in Nat
         /\ Home(r) \in PageId /\ Home(r) \notin FreePages
         /\ RightOf(pl) \in FreePages /\ RightOf(pl) \in PageId /\ Rank(RightOf(pl)) = pl.spill + 1
         /\ Put(r, pl)[RightOf(pl)] = FreePage /\ ~TreePage(Put(r, pl), RightOf(pl))
         /\ ParentOf(r)[1] \in PageId /\ ParentOf(r)[1] \notin {Home(r), RightOf(pl)} /\ Home(r) # RightOf(pl)
         /\ Put(r, pl)[ParentOf(r)[1]] = file[ParentOf(r)[1]] /\ file[ParentOf(r)[1]].kind = "interior"
         /\ WithChain(r, pl.spill)[ParentOf(r)[1]] = file[ParentOf(r)[1]]
<1>1. /\ op = Idle /\ ~Search(r) /\ Len(FindLeaf(r)) > 1
      /\ Cardinality(FreePages) >= pl.spill + 1 + Len(FindLeaf(r))
  BY DEF SplitsLeaf
<1>2. pl.spill \in Nat /\ Cardinality(FreePages) \in Nat
  BY Constants, FreeFacts
<1>3. Len(FindLeaf(r)) \in Nat /\ ParentOf(r)[1] \in PageId /\ ParentOf(r)[1] \notin FreePages
      /\ ParentOf(r)[1] # Home(r) /\ file[ParentOf(r)[1]].kind = "interior"
  BY <1>1, ParentFacts
<1>4. pl.spill <= Cardinality(FreePages) /\ pl.spill + 1 \in Nat /\ pl.spill < pl.spill + 1
      /\ pl.spill + 1 <= Cardinality(FreePages)
  BY ONLY <1>1, <1>2, <1>3
<1>5. /\ RightOf(pl) \in PageId /\ RightOf(pl) \in FreePages /\ Rank(RightOf(pl)) = pl.spill + 1
      /\ Put(r, pl)[RightOf(pl)] = FreePage /\ ~TreePage(Put(r, pl), RightOf(pl))
  BY <1>1, <1>4, TakenFacts DEF RightOf
<1>6. Home(r) \in PageId /\ Home(r) \notin FreePages
  BY <1>1, HomeFacts
<1>7. \A p \in PageId : p # Home(r) /\ p \notin FreePages => Put(r, pl)[p] = file[p]
  BY <1>1, <1>4, PutKeeps
<1>8. Put(r, pl)[ParentOf(r)[1]] = file[ParentOf(r)[1]]
  BY ONLY <1>3, <1>7
<1>9. WithChain(r, pl.spill)[ParentOf(r)[1]] = file[ParentOf(r)[1]]
  BY ONLY <1>3 DEF WithChain
<1> QED BY ONLY <1>1, <1>2, <1>3, <1>4, <1>5, <1>6, <1>8, <1>9

\* The two halves are written, and the parent is not.
LEMMA HalvesMoved ==
  ASSUME Inv, NEW r \in Rowid, NEW pl \in Payload, SplitsLeaf(r, pl)
  PROVE  \E n \in Nat : Moved(r, pl, n, Halves(r, pl)) /\ Halves(r, pl)[ParentOf(r)[1]] = file[ParentOf(r)[1]]
<1> DEFINE c == PutCells(r, pl)  H == Halves(r, pl)  G == WithChain(r, pl.spill)
<1>1. /\ op = Idle /\ ~Search(r) /\ pl.spill <= Cardinality(FreePages)
      /\ Home(r) \in PageId /\ RightOf(pl) \in PageId /\ Home(r) # RightOf(pl)
      /\ ParentOf(r)[1] \in PageId \ {Home(r), RightOf(pl)}
      /\ G[ParentOf(r)[1]] = file[ParentOf(r)[1]] /\ file[ParentOf(r)[1]].kind = "interior"
  BY SplitPages
<1>2. PICK n \in 1 .. Len(c) - 1 :
         /\ Chained(SplitOf(r, pl).left, r, ChainStart(pl.spill)) = SubSeq(c, 1, n)
         /\ Chained(SplitOf(r, pl).right, r, ChainStart(pl.spill)) = SubSeq(c, n + 1, Len(c))
         /\ SplitOf(r, pl).separator = c[n].key
         /\ Used(SubSeq(c, 1, n)) <= LeafRoom
         /\ Used(SubSeq(c, n + 1, Len(c))) <= LeafRoom
  BY <1>1, SplitFacts DEF SplitsLeaf
<1>3. Put(r, pl) = [G EXCEPT ![Home(r)] = Leaf(c)] /\ G = [p \in PageId |-> G[p]]
  BY DEF Put, WithChain
<1>4. H = [G EXCEPT ![Home(r)] = Leaf(SubSeq(c, 1, n)), ![RightOf(pl)] = Leaf(SubSeq(c, n + 1, Len(c)))]
  BY <1>2 DEF Halves
<1>5. n \in Nat
  OBVIOUS
<1> HIDE DEF c, H, G
<1>6. /\ H = [p \in PageId |-> H[p]]
      /\ H[Home(r)] = Leaf(SubSeq(c, 1, n)) /\ H[RightOf(pl)] = Leaf(SubSeq(c, n + 1, Len(c)))
      /\ \A p \in PageId \ {Home(r), RightOf(pl)} : H[p] = G[p] /\ Put(r, pl)[p] = G[p]
  BY ONLY <1>1, <1>3, <1>4
<1>7. /\ \A p \in PageId \ {Home(r), RightOf(pl), ParentOf(r)[1]} : H[p] = Put(r, pl)[p]
      /\ H[ParentOf(r)[1]] = file[ParentOf(r)[1]] /\ H[ParentOf(r)[1]].kind = "interior"
  BY ONLY <1>1, <1>6
<1>8. Moved(r, pl, n, H)
  BY <1>2, <1>6, <1>7 DEF Moved, c
<1> QED BY <1>5, <1>7, <1>8 DEF H

\* Every row is stored in the halves as it was in the leaf.
LEMMA MovedStored ==
  ASSUME Inv, NEW r \in Rowid, NEW pl \in Payload, SplitsLeaf(r, pl), NEW n \in Nat, NEW W, Moved(r, pl, n, W)
  PROVE  RowsTyped(WithRow(rows, r, pl)) /\ Stored(W, WithRow(rows, r, pl))
<1> DEFINE U == Put(r, pl)  c == PutCells(r, pl)  leaf == Home(r)  right == RightOf(pl)  par == ParentOf(r)[1]
<1>1. /\ op = Idle /\ ~Search(r) /\ pl.spill <= Cardinality(FreePages)
      /\ leaf \in PageId /\ right \in PageId /\ U[right] = FreePage
      /\ par \in PageId /\ par \notin {leaf, right} /\ leaf # right
      /\ U[par] = file[par] /\ file[par].kind = "interior"
  BY SplitPages
<1>2. U[leaf] = Leaf(c) /\ RowsTyped(WithRow(rows, r, pl)) /\ Stored(U, WithRow(rows, r, pl))
  BY <1>1, PutKeeps
<1>3. c \in Seq(Cells)
  BY <1>1, PutCellsFacts
<1>4. /\ n \in 1 .. Len(c) - 1 /\ W[leaf] = Leaf(SubSeq(c, 1, n)) /\ W[right] = Leaf(SubSeq(c, n + 1, Len(c)))
      /\ \A p \in PageId \ {leaf, right, par} : W[p] = U[p]
      /\ W[par].kind = "interior"
  BY DEF Moved
<1> HIDE DEF U, c, leaf, right, par
<1>5. U[leaf].kind = "leaf" /\ U[leaf].cells = c /\ W[leaf].kind = "leaf" /\ W[right].kind = "leaf" /\ U[right].kind = "free"
  BY ONLY <1>1, <1>2, <1>4 DEF Leaf, FreePage
<1>6. \A x \in PageId \ {leaf, leaf, right} : U[x].kind = "leaf" \/ W[x].kind = "leaf" => W[x] = U[x]
  BY ONLY <1>1, <1>4
<1>7. CutLeaf(U, W, leaf, leaf, right, n)
  BY ONLY <1>1, <1>3, <1>4, <1>5, <1>6 DEF CutLeaf
<1>8. LeafCells(W) = LeafCells(U)
  BY ONLY <1>7, CutLeafCells
<1>9. ChainsAgree(U, W)
  <2> SUFFICES ASSUME NEW p \in PageId, U[p].kind = "overflow" \/ W[p].kind = "overflow" PROVE W[p] = U[p]
    BY DEF ChainsAgree
  <2>1. p \notin {leaf, right, par}
    BY ONLY <1>1, <1>4, <1>5, U[p].kind = "overflow" \/ W[p].kind = "overflow"
  <2> QED BY ONLY <1>4, <2>1, p \in PageId
<1> QED BY ONLY <1>2, <1>8, <1>9, StoredStays

\* The tree that the split makes, when the parent has taken the separator.
LEMMA MovedShaped ==
  ASSUME Inv, NEW r \in Rowid, NEW pl \in Payload, SplitsLeaf(r, pl), NEW n \in Nat, NEW W, Moved(r, pl, n, W),
         W[ParentOf(r)[1]] = GrownParent(r, pl)
  PROVE  \E ht, span : Structure(Cells, W, Root, NoPage, ht, span)
<1> DEFINE U == Put(r, pl)  c == PutCells(r, pl)  leaf == Home(r)  right == RightOf(pl)
           par == ParentOf(r)[1]  s == ParentOf(r)[2]  x == RouteCell(c[n].key)
           l == Leaf(SubSeq(c, 1, n))  rt == Leaf(SubSeq(c, n + 1, Len(c)))
<1>1. /\ op = Idle /\ ~Search(r) /\ pl.spill <= Cardinality(FreePages)
      /\ leaf \in PageId /\ right \in PageId /\ ~TreePage(U, right)
      /\ par \in PageId /\ par \notin {leaf, right} /\ leaf # right
      /\ U[par] = file[par]
  BY SplitPages
<1>2. U[leaf] = Leaf(c) /\ DOMAIN U = PageId
  BY <1>1, PutKeeps
<1>3. PICK ht, span : Structure(Cells, U, Root, NoPage, ht, span)
  BY <1>1, PutKeeps
<1>4. c \in Seq(Cells) /\ Sorted(c)
  BY <1>1, PutCellsFacts
<1>5. /\ n \in 1 .. Len(c) - 1 /\ W[leaf] = l /\ W[right] = rt
      /\ \A p \in PageId \ {leaf, right, par} : W[p] = U[p]
      /\ W = [p \in PageId |-> W[p]] /\ SplitOf(r, pl).separator = c[n].key
  BY DEF Moved
<1>6. x \in Cells /\ x.key = c[n].key
  BY ONLY <1>4, <1>5, HalfFacts
<1>7. W[par] = Promoted(U[par], s, x, leaf, right)
  BY <1>1, <1>5 DEF GrownParent
<1>8. Edge(file, par, s, leaf) /\ s \in Nat
  BY <1>1, ParentFacts DEF SplitsLeaf
<1>9. CellSet(Cells) /\ NoPage \notin PageId
  BY Constants
<1>10. IsCut(Cells, PageId, Leaf(c), l, rt, c[n].key)
  <2>1. n \in 0 .. n
    OBVIOUS
  <2> HIDE DEF c
  <2> QED BY ONLY <1>4, <1>5, <1>9, <2>1, LeafCut
<1> HIDE DEF U, c, leaf, right, par, s, x, l, rt
<1>11. Edge(U, par, s, leaf)
  BY ONLY <1>1, <1>8 DEF Edge
<1>12. DOMAIN W = PageId
  BY ONLY <1>5
<1>13. IsCut(Cells, DOMAIN U, U[leaf], l, rt, x.key)
  BY ONLY <1>2, <1>6, <1>10
<1>14. Splits(Cells, U, W, par, s, leaf, right, l, rt, x)
  <2>1. \A p \in DOMAIN U \ {leaf, right, par} : W[p] = U[p]
    BY ONLY <1>2, <1>5
  <2> QED BY ONLY <1>1, <1>2, <1>5, <1>6, <1>7, <1>8, <1>11, <1>12, <1>13, <2>1 DEF Splits
<1>15. NoPage \notin DOMAIN U
  BY ONLY <1>2, <1>9
<1>16. Structure(Cells, W, Root, NoPage, SplitHt(ht, leaf, right), SplitSpan(span, leaf, right, x.key))
  BY ONLY <1>3, <1>9, <1>14, <1>15, SplitKeeps
<1> QED BY ONLY <1>16

\* The pages other than the parent have the room for what they hold.
LEMMA MovedRooms ==
  ASSUME Inv, NEW r \in Rowid, NEW pl \in Payload, SplitsLeaf(r, pl), NEW n \in Nat, NEW W, Moved(r, pl, n, W),
         RoomKept(W, ParentOf(r)[1])
  PROVE  /\ \A p \in PageId : RoomKept(W, p)
         /\ \A p \in PageId : W[p].kind = "leaf" /\ W[p].cells = <<>> => p = Root
<1> DEFINE U == Put(r, pl)  c == PutCells(r, pl)  leaf == Home(r)  right == RightOf(pl)  par == ParentOf(r)[1]
           l == SubSeq(c, 1, n)  rt == SubSeq(c, n + 1, Len(c))
<1>1. op = Idle /\ ~Search(r) /\ pl.spill <= Cardinality(FreePages)
  BY SplitPages
<1>2. c \in Seq(Cells)
  BY <1>1, PutCellsFacts
<1>3. /\ n \in 1 .. Len(c) - 1 /\ W[leaf] = Leaf(l) /\ W[right] = Leaf(rt)
      /\ \A p \in PageId \ {leaf, right, par} : W[p] = U[p]
      /\ W[par].kind = "interior" /\ Used(l) <= LeafRoom /\ Used(rt) <= LeafRoom
  BY DEF Moved
<1>4. l # <<>> /\ rt # <<>>
  BY ONLY <1>2, <1>3, HalfFacts
<1>5. \A p \in PageId : p # leaf => RoomKept(U, p) /\ (U[p].kind = "leaf" /\ U[p].cells = <<>> => p = Root)
  BY <1>1, PutRooms
<1>6. RoomKept(W, par)
  OBVIOUS
<1> HIDE DEF U, c, leaf, right, par, l, rt
<1>7. ASSUME NEW p \in PageId PROVE RoomKept(W, p) /\ (W[p].kind = "leaf" /\ W[p].cells = <<>> => p = Root)
  <2>1. CASE p = leaf
    <3>1. W[p].kind = "leaf" /\ W[p].cells = l
      BY ONLY <1>3, <2>1 DEF Leaf
    <3> QED BY ONLY <1>3, <1>4, <3>1 DEF RoomKept
  <2>2. CASE p = right
    <3>1. W[p].kind = "leaf" /\ W[p].cells = rt
      BY ONLY <1>3, <2>2 DEF Leaf
    <3> QED BY ONLY <1>3, <1>4, <3>1 DEF RoomKept
  <2>3. CASE p = par
    BY ONLY <1>3, <1>6, <2>3
  <2>4. CASE p \notin {leaf, right, par}
    <3>1. W[p] = U[p] /\ p # leaf
      BY ONLY <1>3, <2>4, p \in PageId
    <3>2. RoomKept(U, p) /\ (U[p].kind = "leaf" /\ U[p].cells = <<>> => p = Root)
      BY ONLY <1>5, <3>1, p \in PageId
    <3> QED BY ONLY <3>1, <3>2 DEF RoomKept
  <2> QED BY ONLY <2>1, <2>2, <2>3, <2>4
<1> QED BY ONLY <1>7

\* The parent that takes the separator.
LEMMA GrownParentFacts ==
  ASSUME Inv, NEW r \in Rowid, NEW pl \in Payload, SplitsLeaf(r, pl)
  PROVE  /\ GrownParent(r, pl).kind = "interior"
         /\ RoomKept(file, ParentOf(r)[1])
         /\ RouteCell(SplitOf(r, pl).separator) \in Cells
         /\ Fits(file[ParentOf(r)[1]], RouteCell(SplitOf(r, pl).separator), NodeRoom) =>
               Units(GrownParent(r, pl).cells) /\ Len(GrownParent(r, pl).cells) <= NodeRoom
<1> DEFINE par == ParentOf(r)[1]  s == ParentOf(r)[2]  pg == file[par]  x == RouteCell(SplitOf(r, pl).separator)
           g == GrownParent(r, pl)
<1>1. op = Idle /\ Len(FindLeaf(r)) > 1 /\ ~Search(r) /\ pl.spill <= Cardinality(FreePages)
  BY SplitPages DEF SplitsLeaf
<1>2. par \in PageId /\ Edge(file, par, s, Home(r)) /\ pg.kind = "interior" /\ Node(Cells, PageId, pg)
  BY <1>1, ParentFacts
<1>3. x \in Cells
  <2>1. PICK n \in Nat : Moved(r, pl, n, Halves(r, pl))
    BY HalvesMoved
  <2>2. n \in 1 .. Len(PutCells(r, pl)) - 1 /\ SplitOf(r, pl).separator = PutCells(r, pl)[n].key
    BY <2>1 DEF Moved
  <2>3. PutCells(r, pl) \in Seq(Cells)
    BY <1>1, PutCellsFacts
  <2>4. RouteCell(PutCells(r, pl)[n].key) \in Cells
    BY ONLY <2>2, <2>3, HalfFacts
  <2> QED BY ONLY <2>2, <2>4
<1>4. x.size = 1 /\ x.over = NoPage
  BY DEF RouteCell
<1>5. g.cells = WithCell(pg.cells, s, x) /\ g.kind = "interior"
  BY DEF GrownParent, Promoted, Interior
<1>6. RoomKept(file, par)
  BY <1>1, <1>2, AtRest
<1> HIDE DEF par, s, g
<1>7. Units(pg.cells) /\ Len(pg.cells) <= NodeRoom
  BY ONLY <1>2, <1>6, InteriorRoom
<1>8. pg.cells \in Seq(Cells) /\ s \in 1 .. Len(pg.cells) + 1
  BY ONLY <1>2 DEF Node, Edge
<1>9. Fits(pg, x, NodeRoom) <=> Len(pg.cells) + 1 <= NodeRoom
  BY ONLY <1>7, <1>8, UnitsFit
<1> HIDE DEF x, pg
<1>10. Len(g.cells) = Len(pg.cells) + 1 /\ IsInsert(pg.cells, s, x, g.cells)
  BY ONLY <1>3, <1>5, <1>8, WithCellFacts
<1>11. Units(g.cells)
  BY ONLY <1>3, <1>4, <1>7, <1>8, <1>10, UnitsInsert
<1> QED BY ONLY <1>3, <1>5, <1>6, <1>9, <1>10, <1>11 DEF par, pg, x, g

\* The pages that are free once the right half has one.
LEMMA MovedFree ==
  ASSUME Inv, NEW r \in Rowid, NEW pl \in Payload, SplitsLeaf(r, pl), NEW n \in Nat, NEW W, Moved(r, pl, n, W)
  PROVE  Cardinality(FreeOf(W)) >= Len(FindLeaf(r))
<1> DEFINE k == pl.spill + 1  S == {p \in FreePages : Cardinality(UpTo(FreePages, p)) > k}
<1>1. /\ op = Idle /\ ~Search(r) /\ pl.spill <= Cardinality(FreePages) /\ pl.spill \in Nat
      /\ Home(r) \notin FreePages /\ Rank(RightOf(pl)) = k /\ file[ParentOf(r)[1]].kind = "interior"
  BY SplitPages
<1>2. /\ FreePages \in SUBSET (1 .. MaxPages) /\ FreePages \in SUBSET PageId /\ MaxPages \in Nat
      /\ Cardinality(FreePages) \in Nat
      /\ \A p \in FreePages : Rank(p) = Cardinality(UpTo(FreePages, p)) /\ Rank(p) \in Nat
  BY FreeFacts
<1>3. Cardinality(FreePages) >= k + Len(FindLeaf(r)) /\ Len(FindLeaf(r)) \in Nat
  BY <1>1, ParentFacts DEF SplitsLeaf
<1>4. k \in Nat /\ k <= Cardinality(FreePages)
  BY ONLY <1>1, <1>2, <1>3
<1>5. \A p \in FreePages : Rank(p) > pl.spill => Put(r, pl)[p] = FreePage
  BY <1>1, PutKeeps
<1>6. \A p \in PageId \ {Home(r), RightOf(pl), ParentOf(r)[1]} : W[p] = Put(r, pl)[p]
  BY DEF Moved
<1> HIDE DEF k
<1>7. Cardinality(S) = Cardinality(FreePages) - k
  BY ONLY <1>2, <1>4, PagesLeft
<1>8. ASSUME NEW p \in S PROVE p \in FreeOf(W)
  <2>1. p \in FreePages /\ Rank(p) > k /\ p \in PageId /\ Rank(p) \in Nat
    BY ONLY <1>2, p \in S
  <2>2. Rank(p) > pl.spill /\ Rank(p) # k
    BY ONLY <1>1, <2>1 DEF k
  <2>3. p # Home(r) /\ p # RightOf(pl)
    BY ONLY <1>1, <2>1, <2>2
  <2>4. p # ParentOf(r)[1]
    BY ONLY <1>1, <2>1 DEF FreePages
  <2>5. W[p] = FreePage
    BY ONLY <1>5, <1>6, <2>1, <2>2, <2>3, <2>4
  <2> QED BY ONLY <2>1, <2>5 DEF FreeOf, FreePage
<1> HIDE DEF S
<1>9. Cardinality(S) <= Cardinality(FreeOf(W)) /\ Cardinality(FreeOf(W)) \in Nat
  <2>1. FreeOf(W) \in SUBSET (1 .. MaxPages) /\ S \subseteq FreeOf(W)
    BY <1>8 DEF FreeOf, PageId
  <2>2. IsFiniteSet(FreeOf(W)) /\ Cardinality(FreeOf(W)) \in Nat
    BY ONLY <1>2, <2>1, PagesFinite
  <2> QED BY ONLY <2>1, <2>2, FS_Subset
<1>10. Cardinality(S) >= Len(FindLeaf(r)) /\ Cardinality(S) \in Nat
  BY ONLY <1>2, <1>3, <1>4, <1>7
<1> QED BY ONLY <1>3, <1>9, <1>10

\* A page of the tree that is above a leaf is as it was.
LEMMA MovedEdges ==
  ASSUME Inv, NEW r \in Rowid, NEW pl \in Payload, SplitsLeaf(r, pl), NEW n \in Nat, NEW W, Moved(r, pl, n, W),
         W[ParentOf(r)[1]] = file[ParentOf(r)[1]],
         NEW p \in PageId, NEW i, NEW q, Edge(file, p, i, q)
  PROVE  Edge(W, p, i, q)
<1>1. /\ op = Idle /\ ~Search(r) /\ pl.spill <= Cardinality(FreePages)
      /\ Home(r) \notin FreePages /\ RightOf(pl) \in FreePages
  BY SplitPages
<1>2. file[Home(r)].kind = "leaf"
  BY <1>1, HomeFacts
<1>3. file[p].kind = "interior"
  BY DEF Edge
<1>4. p \notin FreePages /\ p # Home(r)
  BY ONLY <1>2, <1>3 DEF FreePages
<1>5. \A y \in PageId : y # Home(r) /\ y \notin FreePages => Put(r, pl)[y] = file[y]
  BY <1>1, PutKeeps
<1>6. \A y \in PageId \ {Home(r), RightOf(pl), ParentOf(r)[1]} : W[y] = Put(r, pl)[y]
  BY DEF Moved
<1>7. W[p] = file[p]
  BY <1>1, <1>4, <1>5, <1>6
<1> QED BY <1>7 DEF Edge

\* insert() that splits a leaf under a parent.
LEMMA SplitLeafKeeps ==
  ASSUME Inv, NEW r \in Rowid, NEW pl \in Payload, SplitLeaf(r, pl)
  PROVE  Inv'
<1> DEFINE par == ParentOf(r)[1]  s == ParentOf(r)[2]  H == Halves(r, pl)  g == GrownParent(r, pl)
           T == [H EXCEPT ![par] = g]  x == RouteCell(SplitOf(r, pl).separator)
           o == [kind |-> "promote", path |-> FindLeaf(r), level |-> Len(FindLeaf(r)) - 1,
                 separator |-> SplitOf(r, pl).separator, left |-> Home(r), right |-> RightOf(pl)]
           R == WithRow(rows, r, pl)
<1>1. SplitsLeaf(r, pl)
  BY DEF SplitLeaf, SplitsLeaf
<1>2. IF Fits(file[par], x, NodeRoom) THEN file' = T /\ op' = op ELSE file' = H /\ op' = o
  BY DEF SplitLeaf, Halves, GrownParent, ParentOf, Home, RightOf
<1>3. rows' = R /\ removed' = Nothing /\ op = Idle /\ Len(FindLeaf(r)) > 1
  BY <1>1 DEF SplitLeaf, Accepted, WithRow
<1>4. PICK n \in Nat : Moved(r, pl, n, H) /\ H[par] = file[par]
  BY <1>1, HalvesMoved
<1>5. /\ g.kind = "interior" /\ RoomKept(file, par) /\ x \in Cells
      /\ Fits(file[par], x, NodeRoom) => Units(g.cells) /\ Len(g.cells) <= NodeRoom
  BY <1>1, GrownParentFacts
<1>6. par \in PageId /\ Home(r) \in PageId /\ RightOf(pl) \in PageId /\ par \notin {Home(r), RightOf(pl)}
  BY <1>1, SplitPages
<1> HIDE DEF H, g, R
<1>7. T = [p \in PageId |-> T[p]] /\ T[par] = g /\ \A p \in PageId \ {par} : T[p] = H[p]
  <2>1. H = [p \in PageId |-> H[p]]
    BY <1>4 DEF Moved
  <2> QED BY ONLY <1>6, <2>1
<1> HIDE DEF T
<1>8. Moved(r, pl, n, T)
  BY <1>4, <1>5, <1>6, <1>7 DEF Moved
<1>9. PICK ht, span : Structure(Cells, T, Root, NoPage, ht, span)
  BY <1>1, <1>7, <1>8, MovedShaped DEF g
<1>10. CASE Fits(file[par], x, NodeRoom)
  <2>1. RoomKept(T, par)
    BY ONLY <1>5, <1>7, <1>10, InteriorRoom
  <2>2. /\ \A p \in PageId : RoomKept(T, p)
        /\ \A p \in PageId : T[p].kind = "leaf" /\ T[p].cells = <<>> => p = Root
    BY <1>1, <1>8, <2>1, MovedRooms
  <2>3. RowsTyped(R) /\ Stored(T, R)
    BY <1>1, <1>8, MovedStored DEF R
  <2>4. Sound(T, Idle, R)
    BY ONLY <1>7, <1>9, <2>2, <2>3, RestSound
  <2> QED BY ONLY <1>2, <1>3, <1>10, <2>4 DEF Inv
<1>11. CASE ~Fits(file[par], x, NodeRoom)
  <2>1. RoomKept(H, par)
    BY ONLY <1>4, <1>5 DEF RoomKept
  <2>2. /\ \A p \in PageId : RoomKept(H, p)
        /\ \A p \in PageId : H[p].kind = "leaf" /\ H[p].cells = <<>> => p = Root
    BY <1>1, <1>4, <2>1, MovedRooms
  <2>3. RowsTyped(R) /\ Stored(H, R)
    BY <1>1, <1>4, MovedStored DEF R
  <2>4. H = [p \in PageId |-> H[p]]
    BY <1>4 DEF Moved
  <2>5. /\ o.kind = "promote" /\ o.path = FindLeaf(r) /\ o.level = Len(FindLeaf(r)) - 1
        /\ o.separator = SplitOf(r, pl).separator /\ o.left = Home(r) /\ o.right = RightOf(pl)
        /\ At(o) = par /\ SlotAt(o) = s
    BY DEF At, SlotAt, ParentOf
  <2>6. TreeOf(H, o) = T
    <3>1. GrownOf(H, o) = g
      BY <1>4, <2>5 DEF GrownOf, g, GrownParent
    <3> QED BY <2>5, <3>1 DEF TreeOf, T
  <2>7. /\ FindLeaf(r) \in Seq(PageId \X Nat) /\ Len(FindLeaf(r)) \in Nat /\ FindLeaf(r)[1][1] = Root
        /\ \A i \in 1 .. Len(FindLeaf(r)) - 1 :
              Edge(file, FindLeaf(r)[i][1], FindLeaf(r)[i][2], FindLeaf(r)[i + 1][1])
        /\ Edge(file, par, s, Home(r)) /\ Node(Cells, PageId, file[par])
    BY <1>3, ParentFacts
  <2>8. SplitOf(r, pl).separator \in Nat
    <3>1. x.key = SplitOf(r, pl).separator
      BY DEF RouteCell
    <3> QED BY <1>5, <3>1, Constants DEF CellSet
  <2>9. o \in OpType
    <3>1. Len(FindLeaf(r)) - 1 \in Nat
      BY ONLY <1>3, <2>7
    <3> QED BY <1>6, <2>7, <2>8, <3>1 DEF OpType
  <2> HIDE DEF o
  <2>10. OpOnPath(H, o)
    <3>1. Edge(H, par, s, Home(r))
      BY <1>1, <1>4, <1>6, <2>7, MovedEdges
    <3>2. ASSUME NEW i \in 1 .. o.level - 1 PROVE Edge(H, o.path[i][1], o.path[i][2], o.path[i + 1][1])
      <4>1. i \in 1 .. Len(FindLeaf(r)) - 1
        BY ONLY <2>5, <2>7, i \in 1 .. o.level - 1
      <4>2. Edge(file, FindLeaf(r)[i][1], FindLeaf(r)[i][2], FindLeaf(r)[i + 1][1])
        BY ONLY <2>7, <4>1
      <4>3. FindLeaf(r)[i][1] \in PageId
        <5>1. i \in 1 .. Len(FindLeaf(r))
          BY ONLY <2>7, <4>1
        <5>2. FindLeaf(r)[i] \in PageId \X Nat
          BY ONLY <2>7, <5>1
        <5> QED BY ONLY <5>2
      <4>4. Edge(H, FindLeaf(r)[i][1], FindLeaf(r)[i][2], FindLeaf(r)[i + 1][1])
        BY <1>1, <1>4, <4>2, <4>3, MovedEdges
      <4> QED BY ONLY <2>5, <4>4
    <3>3. o.level \in 1 .. Len(o.path) /\ o.path[1][1] = Root
      BY ONLY <1>3, <2>5, <2>7
    <3>4. Node(Cells, PageId, H[par])
      BY ONLY <1>4, <2>7
    <3> QED BY ONLY <1>6, <2>5, <3>1, <3>2, <3>3, <3>4 DEF OpOnPath
  <2>11. Cardinality(FreeOf(H)) >= o.level + 1
    <3>1. Cardinality(FreeOf(H)) >= Len(FindLeaf(r))
      BY <1>1, <1>4, MovedFree
    <3>2. o.level + 1 = Len(FindLeaf(r))
      BY ONLY <2>5, <2>7
    <3> QED BY ONLY <3>1, <3>2
  <2>12. OpUnderWay(H, o)
    BY <1>5, <1>6, <2>5, <2>9, <2>10, <2>11 DEF OpUnderWay
  <2>13. Structure(Cells, TreeOf(H, o), Root, NoPage, ht, span)
    BY ONLY <1>9, <2>6
  <2>14. Sound(H, o, R)
    BY ONLY <2>2, <2>3, <2>4, <2>5, <2>12, <2>13, PromoteSound
  <2>15. file' = H /\ op' = o
    BY <1>2, <1>11 DEF o
  <2> QED BY ONLY <1>3, <2>14, <2>15 DEF Inv
<1> QED BY <1>10, <1>11

-----------------------------------------------------------------------------
(* _promote_separator() *)

\* The leaves hold the same cells when no leaf has changed.
LEMMA SameLeaves ==
  ASSUME NEW F, NEW G, \A p \in PageId : F[p].kind = "leaf" \/ G[p].kind = "leaf" => F[p] = G[p]
  PROVE  LeafCells(F) = LeafCells(G)
<1>1. \A p \in PageId, i \in Nat, c \in Cells : LeafCell(F, p, i, c) <=> LeafCell(G, p, i, c)
  BY DEF LeafCell
<1> QED BY <1>1 DEF LeafCells

\* A promotion is under way: T is the tree that it makes.
LEMMA PromoteFacts ==
  ASSUME Inv, op.kind = "promote"
  PROVE  /\ Here = At(op) /\ Here \in PageId /\ file[Here].kind = "interior" /\ Grown = GrownOf(file, op)
         /\ file = [p \in PageId |-> file[p]]
         /\ TreeOf(file, op) = [file EXCEPT ![Here] = Grown]
         /\ DOMAIN TreeOf(file, op) = PageId /\ TreeOf(file, op)[Here] = Grown /\ Grown.kind = "interior"
         /\ \A p \in PageId : p # Here => TreeOf(file, op)[p] = file[p]
         /\ \E ht, span : Structure(Cells, TreeOf(file, op), Root, NoPage, ht, span)
         /\ \A p \in PageId : RoomKept(file, p)
         /\ \A p \in PageId : file[p].kind = "leaf" /\ file[p].cells = <<>> => p = Root
         /\ RowsTyped(rows) /\ Stored(file, rows)
         /\ OpOnPath(file, op) /\ op \in OpType /\ Cardinality(FreePages) >= op.level + 1 /\ op.level \in Nat
<1>1. FilePages(file, op) /\ OpUnderWay(file, op) /\ RowsTyped(rows) /\ Shaped(file, op) /\ Stored(file, rows)
  BY DEF Inv, Sound
<1>2. HoleOf(op) = NoPage
  BY DEF HoleOf
<1>3. Here = At(op) /\ Grown = GrownOf(file, op)
  BY DEF Here, At, Grown, GrownOf, SlotAt
<1>4. \E ht, span : Structure(Cells, TreeOf(file, op), Root, NoPage, ht, span)
  BY ONLY <1>1, <1>2, Zenon DEF Shaped
<1>5. /\ At(op) \in PageId /\ file[At(op)].kind = "interior"
      /\ TreeOf(file, op) = [file EXCEPT ![At(op)] = GrownOf(file, op)]
      /\ DOMAIN TreeOf(file, op) = PageId
      /\ TreeOf(file, op)[At(op)] = GrownOf(file, op) /\ GrownOf(file, op).kind = "interior"
      /\ \A p \in PageId : p # At(op) => TreeOf(file, op)[p] = file[p]
  BY <1>1, TreeOfFacts
<1>6. /\ file = [p \in PageId |-> file[p]] /\ \A p \in PageId : RoomKept(file, p)
      /\ \A p \in PageId : file[p].kind = "leaf" /\ file[p].cells = <<>> => p = Root
  <2>1. /\ file = [p \in PageId |-> file[p]] /\ \A p \in PageId : RoomKept(file, p)
        /\ \A p \in PageId : file[p].kind = "leaf" /\ file[p].cells = <<>> => p = Root \/ p = NoPage
    BY ONLY <1>1, <1>2 DEF FilePages
  <2> QED BY ONLY <2>1, Constants
<1>7. OpOnPath(file, op) /\ op \in OpType /\ Cardinality(FreeOf(file)) >= op.level + 1
  BY <1>1 DEF OpUnderWay
<1>8. FreeOf(file) = FreePages /\ op.level \in Nat
  BY <1>7 DEF FreePages, FreeOf, OpType
<1> QED BY ONLY <1>1, <1>3, <1>4, <1>5, <1>6, <1>7, <1>8

\* The page with the separator still has all its children.
LEMMA GrownEdge ==
  ASSUME Inv, op.kind = "promote", NEW p \in PageId, NEW i \in Nat, NEW q, Edge(file, p, i, q)
  PROVE  \E j \in Nat : Edge(TreeOf(file, op), p, j, q)
<1>1. /\ Here = At(op) /\ Grown = GrownOf(file, op)
      /\ TreeOf(file, op)[Here] = Grown /\ Grown.kind = "interior"
      /\ \A y \in PageId : y # Here => TreeOf(file, op)[y] = file[y]
  BY PromoteFacts
<1>2. CASE p # Here
  <2>1. TreeOf(file, op)[p] = file[p]
    BY <1>1, <1>2
  <2>2. Edge(TreeOf(file, op), p, i, q)
    BY <2>1 DEF Edge
  <2> QED BY <2>2
<1>3. CASE p = Here
  <2> DEFINE k == file[Here].kids  g == Grown.kids  s == SlotAt(op)
  <2>1. /\ k \in Seq(PageId) /\ s \in 1 .. Len(k) /\ k[s] = op.left
        /\ Len(g) = Len(k) + 1 /\ IsPromoted(k, s, op.left, op.right, g)
    <3>1. OpUnderWay(file, op)
      BY DEF Inv, Sound
    <3> QED BY <1>1, <3>1, GrownFacts
  <2>2. i \in 1 .. Len(k) /\ k[i] = q
    BY <1>3 DEF Edge
  <2> HIDE DEF k, g, s
  <2>3. Len(k) \in Nat /\ s \in Nat
    BY ONLY <2>1
  <2>4. CASE i <= s
    <3>1. i \in 1 .. Len(g) /\ (i = s \/ i \in 1 .. s - 1)
      BY ONLY <2>1, <2>2, <2>3, <2>4
    <3>2. g[i] = q
      BY ONLY <2>1, <2>2, <3>1 DEF IsPromoted
    <3> QED BY ONLY <1>1, <1>3, <3>1, <3>2, i \in Nat DEF Edge, g
  <2>5. CASE ~(i <= s)
    <3>1. i + 1 \in 1 .. Len(g) /\ i \in s + 1 .. Len(k) /\ i + 1 \in Nat
      BY ONLY <2>1, <2>2, <2>3, <2>5
    <3>2. g[i + 1] = q
      BY ONLY <2>1, <2>2, <3>1 DEF IsPromoted
    <3> QED BY ONLY <1>1, <1>3, <3>1, <3>2 DEF Edge, g
  <2> QED BY <2>4, <2>5
<1> QED BY <1>2, <1>3

\* The pages further up the path are higher than the page at this level.
LEMMA PathHeights ==
  ASSUME Inv, op.kind # "idle", NEW ht, NEW span,
         Structure(Cells, TreeOf(file, op), Root, HoleOf(op), ht, span), NEW i \in 1 .. op.level - 1
  PROVE  op.path[i][1] \in PageId /\ op.path[i][2] \in Nat /\ op.path[i][1] # At(op)
<1> DEFINE T == TreeOf(file, op)  pa == op.path  v == op.level
<1>1. OpOnPath(file, op) /\ op \in OpType /\ FilePages(file, op) /\ OpUnderWay(file, op)
  BY DEF Inv, Sound, OpUnderWay
<1>2. pa \in Seq(PageId \X Nat) /\ v \in 1 .. Len(pa) /\ v \in Nat /\ Len(pa) \in Nat
  BY <1>1 DEF OpOnPath, OpType
<1>3. \A j \in 1 .. Len(pa) : pa[j][1] \in PageId /\ pa[j][2] \in Nat
  <2> TAKE j \in 1 .. Len(pa)
  <2>1. pa[j] \in PageId \X Nat
    BY <1>2
  <2> QED BY ONLY <2>1
<1>4. DOMAIN T = PageId /\ (op.kind # "promote" => T = file)
  BY <1>1, TreeOfFacts
<1>5. ht \in [PageId -> Nat] /\ \A p, q \in PageId, j \in Nat : Edge(T, p, j, q) => ht[q] + 1 = ht[p]
  BY <1>4 DEF Structure, Heights
<1>6. \A j \in 1 .. v - 1 : Edge(file, pa[j][1], pa[j][2], pa[j + 1][1])
  BY <1>1 DEF OpOnPath
<1>7. ASSUME NEW p \in PageId, NEW q \in PageId, NEW j \in Nat, Edge(file, p, j, q) PROVE ht[q] + 1 = ht[p]
  <2>1. \E k \in Nat : Edge(T, p, k, q)
    <3>1. CASE op.kind = "promote"
      BY <1>7, <3>1, GrownEdge
    <3>2. CASE op.kind # "promote"
      BY <1>4, <1>7, <3>2
    <3> QED BY <3>1, <3>2
  <2> QED BY <1>5, <2>1
<1> HIDE DEF T, pa, v
<1>8. ASSUME NEW j \in 1 .. v - 1
      PROVE  /\ pa[j][1] \in PageId /\ pa[j + 1][1] \in PageId /\ ht[pa[j][1]] \in Nat /\ ht[pa[j + 1][1]] \in Nat
             /\ ht[pa[j + 1][1]] + 1 = ht[pa[j][1]]
  <2>1. j \in 1 .. Len(pa) /\ j + 1 \in 1 .. Len(pa)
    BY ONLY <1>2, j \in 1 .. v - 1
  <2>2. pa[j][1] \in PageId /\ pa[j + 1][1] \in PageId /\ pa[j][2] \in Nat
    BY ONLY <1>3, <2>1
  <2>3. Edge(file, pa[j][1], pa[j][2], pa[j + 1][1])
    BY ONLY <1>6, j \in 1 .. v - 1
  <2>4. ht[pa[j + 1][1]] + 1 = ht[pa[j][1]]
    BY ONLY <1>7, <2>2, <2>3
  <2> QED BY ONLY <1>5, <2>2, <2>4
<1> DEFINE S == {n \in Nat : n <= v - 1 => ht[pa[v - n][1]] = ht[pa[v][1]] + n}
<1>9. \A n \in Nat : n \in S
  <2>0. ht[pa[v][1]] \in Nat
    BY ONLY <1>2, <1>3, <1>5
  <2>1. 0 \in S
    BY ONLY <1>2, <2>0
  <2>2. ASSUME NEW n \in Nat, n \in S PROVE n + 1 \in S
    <3> SUFFICES ASSUME n + 1 <= v - 1 PROVE ht[pa[v - (n + 1)][1]] = ht[pa[v][1]] + (n + 1)
      OBVIOUS
    <3> DEFINE j == v - (n + 1)
    <3>1. j \in 1 .. v - 1 /\ j + 1 = v - n /\ n <= v - 1
      BY ONLY <1>2, n \in Nat, n + 1 <= v - 1
    <3>2. ht[pa[v - n][1]] = ht[pa[v][1]] + n
      BY ONLY <2>2, <3>1
    <3> HIDE DEF j
    <3>3. ht[pa[j + 1][1]] + 1 = ht[pa[j][1]]
      BY ONLY <1>8, <3>1
    <3>4. ht[pa[j][1]] = ht[pa[v][1]] + (n + 1)
      BY ONLY <2>0, <3>1, <3>2, <3>3, n \in Nat
    <3> QED BY ONLY <3>4 DEF j
  <2>3. S \in SUBSET Nat
    OBVIOUS
  <2> HIDE DEF S
  <2> QED BY ONLY <2>1, <2>2, <2>3, SetInduction
<1>10. /\ v - i \in Nat /\ v - i <= v - 1 /\ v - (v - i) = i /\ v - i # 0 /\ i \in 1 .. Len(pa)
  <2>1. i \in 1 .. v - 1
    BY DEF v
  <2>2. i \in Nat /\ 1 <= i /\ i <= v - 1 /\ v \in Nat /\ v <= Len(pa) /\ Len(pa) \in Nat
    BY ONLY <1>2, <2>1
  <2> QED BY ONLY <2>2
<1>11. ht[pa[i][1]] = ht[pa[v][1]] + (v - i)
  <2>1. v - i \in S
    BY ONLY <1>9, <1>10
  <2> QED BY ONLY <1>10, <2>1
<1>12. ht[pa[v][1]] \in Nat
  BY ONLY <1>2, <1>3, <1>5
<1>13. pa[i][1] # pa[v][1]
  BY ONLY <1>10, <1>11, <1>12
<1> QED BY ONLY <1>3, <1>10, <1>13 DEF pa, v, At

\* The page with the separator, cut in two.
LEMMA SplitGrown ==
  ASSUME Inv, op.kind = "promote", ~Fits(file[Here], RouteCell(op.separator), NodeRoom),
         NEW pair, pair = SplitInterior(Grown, AtTail)
  PROVE  /\ IsCut(Cells, PageId, Grown, pair.left, pair.right, pair.separator.key)
         /\ RouteCell(pair.separator.key) \in Cells
         /\ pair.left.kind = "interior" /\ pair.right.kind = "interior"
         /\ Units(pair.left.cells) /\ Len(pair.left.cells) <= NodeRoom
         /\ Units(pair.right.cells) /\ Len(pair.right.cells) <= NodeRoom
<1> DEFINE c == Grown.cells  k == Grown.kids  m == ConsumedSlot(c, AtTail)
           l == SubSeq(c, 1, m - 1)  r == SubSeq(c, m + 1, Len(c))
<1>1. /\ Here \in PageId /\ file[Here].kind = "interior" /\ Grown = GrownOf(file, op) /\ Here = At(op)
      /\ RoomKept(file, Here) /\ Grown.kind = "interior"
      /\ TreeOf(file, op)[Here] = Grown /\ DOMAIN TreeOf(file, op) = PageId
      /\ OpUnderWay(file, op)
  BY PromoteFacts DEF Inv, Sound
<1>2. /\ file[Here].cells \in Seq(Cells) /\ c \in Seq(Cells) /\ Len(c) = Len(file[Here].cells) + 1
      /\ Len(file[Here].cells) \in Nat /\ Len(file[Here].kids) = Len(file[Here].cells) + 1
      /\ IsInsert(file[Here].cells, SlotAt(op), RouteCell(op.separator), c)
      /\ SlotAt(op) \in 1 .. Len(file[Here].kids) /\ RouteCell(op.separator) \in Cells
      /\ Grown = Interior(c, k) /\ k \in Seq(PageId) /\ Len(k) = Len(file[Here].kids) + 1
  BY <1>1, GrownFacts
<1>3. Units(file[Here].cells) /\ Len(file[Here].cells) <= NodeRoom /\ NodeRoom \in Nat /\ NodeRoom >= 2
  BY <1>1, InteriorRoom, Constants
<1>4. ~(Len(file[Here].cells) + 1 <= NodeRoom)
  BY <1>2, <1>3, UnitsFit
<1>5. Units(c)
  <2>1. RouteCell(op.separator).size = 1 /\ RouteCell(op.separator).over = NoPage
    BY DEF RouteCell
  <2>2. SlotAt(op) \in 1 .. Len(file[Here].cells) + 1
    BY ONLY <1>2
  <2> QED BY ONLY <1>2, <1>3, <2>1, <2>2, UnitsInsert
<1>6. Len(c) >= 3 /\ Len(c) \in Nat /\ Len(c) <= NodeRoom + 1 /\ Len(k) = Len(c) + 1
  BY ONLY <1>2, <1>3, <1>4
<1>7. CellSet(Cells)
  BY Constants
<1>8. m \in 2 .. Len(c) - 1
  BY ONLY <1>2, <1>6, <1>7, ConsumedSlotFacts
<1>9. pair = [left |-> Interior(l, SubSeq(k, 1, m)), right |-> Interior(r, SubSeq(k, m + 1, Len(k))),
              separator |-> c[m]]
  BY ONLY pair = SplitInterior(Grown, AtTail), Zenon DEF SplitInterior
<1>10. Sorted(c)
  <2>1. PICK ht, span : Structure(Cells, TreeOf(file, op), Root, NoPage, ht, span)
    BY PromoteFacts
  <2>2. TreePage(TreeOf(file, op), Here) /\ NoPage \notin DOMAIN TreeOf(file, op) /\ Here \in DOMAIN TreeOf(file, op)
    BY <1>1, Constants DEF TreePage
  <2>3. Node(Cells, DOMAIN TreeOf(file, op), TreeOf(file, op)[Here])
    BY <2>1, <2>2, NodeOf DEF Structure
  <2> QED BY <1>1, <2>3 DEF Node
<1> DEFINE pl == Interior(l, SubSeq(k, 1, m))  pr == Interior(r, SubSeq(k, m + 1, Len(k)))
<1> HIDE DEF m
<1>11. m \in 1 .. Len(c) - 1
  BY ONLY <1>6, <1>8
<1>12. IsCut(Cells, PageId, Interior(c, k), pl, pr, c[m].key)
  <2> HIDE DEF c, k
  <2> QED BY ONLY <1>2, <1>6, <1>7, <1>10, <1>11, InteriorCut
<1>13. RouteCell(c[m].key) \in Cells
  BY ONLY <1>2, <1>11, HalfFacts
<1>14. /\ pl.kind = "interior" /\ pl.cells = l /\ pr.kind = "interior" /\ pr.cells = r
  BY DEF Interior
<1>15. Units(l) /\ Len(l) <= NodeRoom
  <2> HIDE DEF c
  <2>1. PICK z \in 1 - 1 .. Len(c) : z = m - 1
    BY ONLY <1>6, <1>8
  <2>2. 1 \in 1 .. Len(c) + 1
    BY ONLY <1>6
  <2>3. Units(SubSeq(c, 1, z)) /\ Len(SubSeq(c, 1, z)) = z + 1 - 1
    BY ONLY <1>2, <1>5, <2>2, UnitsPart, SubSeqFacts
  <2>4. z + 1 - 1 <= NodeRoom
    BY ONLY <1>3, <1>6, <1>8, <2>1
  <2> QED BY ONLY <2>1, <2>3, <2>4
<1>16. Units(r) /\ Len(r) <= NodeRoom
  <2> HIDE DEF c
  <2>1. PICK y \in 1 .. Len(c) + 1 : y = m + 1
    BY ONLY <1>6, <1>8
  <2>2. PICK z \in y - 1 .. Len(c) : z = Len(c)
    BY ONLY <1>6, <1>8, <2>1
  <2>3. Units(SubSeq(c, y, z)) /\ Len(SubSeq(c, y, z)) = z + 1 - y
    BY ONLY <1>2, <1>5, UnitsPart, SubSeqFacts
  <2>4. z + 1 - y <= NodeRoom
    BY ONLY <1>3, <1>6, <1>8, <2>1, <2>2
  <2> QED BY ONLY <2>1, <2>2, <2>3, <2>4
<1> HIDE DEF c, k, l, r, pl, pr
<1>17. pair = [left |-> pl, right |-> pr, separator |-> c[m]]
  BY ONLY <1>9 DEF pl, pr
<1>18. pair.left = pl /\ pair.right = pr /\ pair.separator = c[m]
  BY ONLY <1>17
<1> QED BY ONLY <1>2, <1>12, <1>13, <1>14, <1>15, <1>16, <1>18

\* The separator goes into a page with room.
LEMMA PromoteFitsKeeps ==
  ASSUME Inv, PromoteFits
  PROVE  Inv'
<1> DEFINE T == TreeOf(file, op)
<1>1. /\ op.kind = "promote" /\ Fits(file[Here], RouteCell(op.separator), NodeRoom)
      /\ file' = [file EXCEPT ![Here] = Grown] /\ op' = Idle /\ rows' = rows /\ removed' = removed
  BY DEF PromoteFits
<1>2. /\ Here \in PageId /\ file[Here].kind = "interior" /\ Grown = GrownOf(file, op) /\ Here = At(op)
      /\ file = [p \in PageId |-> file[p]]
      /\ T = [file EXCEPT ![Here] = Grown] /\ T[Here] = Grown /\ Grown.kind = "interior"
      /\ \A p \in PageId : p # Here => T[p] = file[p]
      /\ \A p \in PageId : RoomKept(file, p)
      /\ \A p \in PageId : file[p].kind = "leaf" /\ file[p].cells = <<>> => p = Root
      /\ RowsTyped(rows) /\ Stored(file, rows)
  BY <1>1, PromoteFacts
<1>3. PICK ht, span : Structure(Cells, T, Root, NoPage, ht, span)
  BY <1>1, PromoteFacts
<1>4. /\ file[Here].cells \in Seq(Cells) /\ Len(Grown.cells) = Len(file[Here].cells) + 1
      /\ Len(file[Here].kids) = Len(file[Here].cells) + 1
      /\ IsInsert(file[Here].cells, SlotAt(op), RouteCell(op.separator), Grown.cells)
      /\ SlotAt(op) \in 1 .. Len(file[Here].kids) /\ RouteCell(op.separator) \in Cells
  <2>1. OpUnderWay(file, op)
    BY DEF Inv, Sound
  <2> QED BY <1>1, <1>2, <2>1, GrownFacts
<1>5. Units(file[Here].cells)
  BY <1>2, InteriorRoom
<1>6. Len(Grown.cells) <= NodeRoom
  BY <1>1, <1>4, <1>5, UnitsFit
<1>7. Units(Grown.cells)
  <2>1. RouteCell(op.separator).size = 1 /\ RouteCell(op.separator).over = NoPage
    BY DEF RouteCell
  <2>2. SlotAt(op) \in 1 .. Len(file[Here].cells) + 1
    BY ONLY <1>4
  <2> QED BY ONLY <1>4, <1>5, <2>1, <2>2, UnitsInsert
<1> HIDE DEF T
<1>8. T = [p \in PageId |-> T[p]] /\ file' = T
  <2>1. DOMAIN T = PageId /\ T = [p \in DOMAIN T |-> T[p]]
    BY ONLY <1>2
  <2> QED BY ONLY <1>1, <1>2, <2>1
<1>9. \A p \in PageId : RoomKept(T, p)
  <2> TAKE p \in PageId
  <2>1. CASE p = Here
    BY ONLY <1>2, <1>6, <1>7, <2>1, InteriorRoom
  <2>2. CASE p # Here
    BY ONLY <1>2, <2>2, p \in PageId DEF RoomKept
  <2> QED BY <2>1, <2>2
<1>10. \A p \in PageId : T[p].kind = "leaf" /\ T[p].cells = <<>> => p = Root
  BY ONLY <1>2
<1>11. Stored(T, rows)
  <2>1. \A p \in PageId : file[p].kind = "leaf" \/ T[p].kind = "leaf" => file[p] = T[p]
    BY ONLY <1>2
  <2>2. LeafCells(T) = LeafCells(file)
    BY ONLY <2>1, SameLeaves
  <2>3. ChainsAgree(file, T)
    BY ONLY <1>2 DEF ChainsAgree
  <2> QED BY ONLY <1>2, <2>2, <2>3, StoredStays
<1>12. Sound(T, Idle, rows)
  BY ONLY <1>2, <1>3, <1>8, <1>9, <1>10, <1>11, RestSound
<1>13. removed = Nothing \/ removed.rowid \in Rowid
  BY DEF Inv
<1> QED BY ONLY <1>1, <1>8, <1>12, <1>13 DEF Inv

\* A half of an interior page has room.
LEMMA HalfRooms ==
  ASSUME NEW F, NEW W, NEW S \in SUBSET PageId, \A p \in PageId : RoomKept(F, p),
         \A p \in PageId \ S : W[p] = F[p],
         \A p \in S : W[p].kind = "interior" /\ Units(W[p].cells) /\ Len(W[p].cells) <= NodeRoom,
         \A p \in PageId : F[p].kind = "leaf" /\ F[p].cells = <<>> => p = Root
  PROVE  /\ \A p \in PageId : RoomKept(W, p)
         /\ \A p \in PageId : W[p].kind = "leaf" /\ W[p].cells = <<>> => p = Root
<1>1. ASSUME NEW p \in PageId PROVE RoomKept(W, p) /\ (W[p].kind = "leaf" /\ W[p].cells = <<>> => p = Root)
  <2>1. CASE p \in S
    <3>1. W[p].kind = "interior" /\ Units(W[p].cells) /\ Len(W[p].cells) <= NodeRoom
      BY <2>1
    <3> QED BY ONLY <3>1, InteriorRoom
  <2>2. CASE p \notin S
    <3>1. W[p] = F[p] /\ RoomKept(F, p) /\ (F[p].kind = "leaf" /\ F[p].cells = <<>> => p = Root)
      BY <2>2
    <3> QED BY ONLY <3>1 DEF RoomKept
  <2> QED BY <2>1, <2>2
<1> QED BY ONLY <1>1

\* The first pages that are free during a promotion.
LEMMA PromotePages ==
  ASSUME Inv, op.kind = "promote", NEW k \in Nat, 1 <= k, k <= op.level + 1
  PROVE  /\ Allocated(k) \in PageId /\ Allocated(k) \in FreePages /\ Rank(Allocated(k)) = k
         /\ file[Allocated(k)].kind = "free" /\ Allocated(k) # Here
         /\ TreeOf(file, op)[Allocated(k)] = file[Allocated(k)] /\ ~TreePage(TreeOf(file, op), Allocated(k))
<1>1. /\ file[Here].kind = "interior" /\ \A p \in PageId : p # Here => TreeOf(file, op)[p] = file[p]
      /\ Cardinality(FreePages) >= op.level + 1 /\ op.level \in Nat
  BY PromoteFacts
<1>2. Cardinality(FreePages) \in Nat
  BY FreeFacts
<1>3. k <= Cardinality(FreePages)
  <2>1. PICK v \in Nat : v = op.level
    BY <1>1
  <2>2. k <= v + 1 /\ Cardinality(FreePages) >= v + 1
    BY <1>1, <2>1
  <2> QED BY ONLY <1>2, <2>2, k \in Nat
<1>4. Allocated(k) \in FreePages /\ Rank(Allocated(k)) = k /\ Allocated(k) \in PageId
  BY <1>3, AllocatedFacts
<1>5. file[Allocated(k)].kind = "free"
  BY ONLY <1>4 DEF FreePages
<1>6. Allocated(k) # Here
  BY ONLY <1>1, <1>5
<1>7. TreeOf(file, op)[Allocated(k)] = file[Allocated(k)]
  BY ONLY <1>1, <1>4, <1>6
<1> QED BY ONLY <1>4, <1>5, <1>6, <1>7 DEF TreePage

\* The root has no room: the tree grows a level.
LEMMA PromoteSplitsRootKeeps ==
  ASSUME Inv, PromoteSplitsRoot
  PROVE  Inv'
<1> DEFINE T == TreeOf(file, op)  pair == SplitInterior(Grown, AtTail)
           right == Allocated(1)  left == Allocated(2)  x == RouteCell(pair.separator.key)
           W == [file EXCEPT ![Root] = Interior(<<x>>, <<left, right>>), ![left] = pair.left, ![right] = pair.right]
<1>1. /\ op.kind = "promote" /\ ~Fits(file[Here], RouteCell(op.separator), NodeRoom) /\ op.level = 1
      /\ file' = W /\ op' = Idle /\ rows' = rows /\ removed' = removed
  BY DEF PromoteSplitsRoot
<1>2. /\ Here \in PageId /\ file[Here].kind = "interior" /\ Here = At(op) /\ OpOnPath(file, op)
      /\ file = [p \in PageId |-> file[p]]
      /\ DOMAIN T = PageId /\ T[Here] = Grown
      /\ \A p \in PageId : p # Here => T[p] = file[p]
      /\ \A p \in PageId : RoomKept(file, p)
      /\ \A p \in PageId : file[p].kind = "leaf" /\ file[p].cells = <<>> => p = Root
      /\ RowsTyped(rows) /\ Stored(file, rows)
  BY <1>1, PromoteFacts
<1>3. PICK ht, span : Structure(Cells, T, Root, NoPage, ht, span)
  BY <1>1, PromoteFacts
<1>4. Here = Root
  BY <1>1, <1>2 DEF At, OpOnPath
<1>5. /\ IsCut(Cells, PageId, Grown, pair.left, pair.right, pair.separator.key)
      /\ x \in Cells
      /\ pair.left.kind = "interior" /\ pair.right.kind = "interior"
      /\ Units(pair.left.cells) /\ Len(pair.left.cells) <= NodeRoom
      /\ Units(pair.right.cells) /\ Len(pair.right.cells) <= NodeRoom
  BY <1>1, SplitGrown
<1>6. /\ right \in PageId /\ Rank(right) = 1 /\ file[right].kind = "free" /\ right # Here /\ ~TreePage(T, right)
  BY <1>1, PromotePages
<1>7. /\ left \in PageId /\ Rank(left) = 2 /\ file[left].kind = "free" /\ left # Here /\ ~TreePage(T, left)
  <2>1. 2 \in Nat /\ 1 <= 2 /\ 2 <= op.level + 1
    BY ONLY <1>1
  <2> QED BY <1>1, <2>1, PromotePages
<1>8. left # right
  BY ONLY <1>6, <1>7
<1>9. x.key = pair.separator.key /\ x.size = 1 /\ x.over = NoPage
  BY DEF RouteCell
<1> HIDE DEF pair, right, left, x, T
<1>10. /\ W = [p \in PageId |-> W[p]] /\ DOMAIN W = PageId
       /\ W[Root] = Interior(<<x>>, <<left, right>>) /\ W[left] = pair.left /\ W[right] = pair.right
       /\ \A p \in PageId \ {Root, left, right} : W[p] = file[p]
  BY ONLY <1>2, <1>4, <1>6, <1>7, <1>8
<1> HIDE DEF W
<1>11. W[Root].kind = "interior" /\ Units(W[Root].cells) /\ Len(W[Root].cells) <= NodeRoom
  <2>0. W[Root].kind = "interior" /\ W[Root].cells = <<x>> /\ Len(<<x>>) = 1 /\ <<x>>[1] = x
    BY <1>10 DEF Interior
  <2>1. NodeRoom \in Nat /\ NodeRoom >= 2
    BY Constants
  <2>2. Len(W[Root].cells) <= NodeRoom /\ \A i \in 1 .. Len(W[Root].cells) : i = 1
    BY ONLY <2>0, <2>1
  <2>3. Units(W[Root].cells)
    BY ONLY <1>9, <2>0, <2>2 DEF Units
  <2> QED BY ONLY <2>0, <2>2, <2>3
<1>12. /\ \A p \in PageId : RoomKept(W, p)
       /\ \A p \in PageId : W[p].kind = "leaf" /\ W[p].cells = <<>> => p = Root
  <2> DEFINE S == {Root, left, right}
  <2>1. S \in SUBSET PageId
    BY ONLY <1>2, <1>4, <1>6, <1>7
  <2>2. \A p \in PageId \ S : W[p] = file[p]
    BY ONLY <1>10
  <2>3. \A p \in S : W[p].kind = "interior" /\ Units(W[p].cells) /\ Len(W[p].cells) <= NodeRoom
    BY ONLY <1>5, <1>10, <1>11
  <2> HIDE DEF S
  <2> QED BY ONLY <1>2, <2>1, <2>2, <2>3, HalfRooms
<1>13. RootSplits(Cells, T, W, Root, left, right, pair.left, pair.right, x)
  <2>1. IsCut(Cells, DOMAIN T, T[Root], pair.left, pair.right, x.key)
    BY ONLY <1>2, <1>4, <1>5, <1>9
  <2>2. \A p \in PageId \ {Root, left, right} : W[p] = T[p]
    BY ONLY <1>2, <1>4, <1>10
  <2> QED BY ONLY <1>2, <1>5, <1>6, <1>7, <1>8, <1>10, <2>1, <2>2 DEF RootSplits
<1>14. CellSet(Cells) /\ NoPage \notin DOMAIN T
  BY <1>2, Constants
<1>15. Structure(Cells, W, Root, NoPage, RootHt(ht, Root, left, right), RootSpan(span, Root, left, right, x.key))
  BY ONLY <1>3, <1>13, <1>14, RootSplitKeeps
<1>16. Stored(W, rows)
  <2>1. \A p \in {Root, left, right} : file[p].kind \in {"free", "interior"} /\ W[p].kind = "interior"
    BY ONLY <1>2, <1>4, <1>5, <1>6, <1>7, <1>10, <1>11
  <2>2. \A p \in PageId : file[p].kind = "leaf" \/ W[p].kind = "leaf" => file[p] = W[p]
    BY ONLY <1>10, <2>1
  <2>3. LeafCells(W) = LeafCells(file)
    BY ONLY <2>2, SameLeaves
  <2>4. ChainsAgree(file, W)
    BY ONLY <1>10, <2>1 DEF ChainsAgree
  <2> QED BY ONLY <1>2, <2>3, <2>4, StoredStays
<1>17. Sound(W, Idle, rows)
  BY ONLY <1>2, <1>10, <1>12, <1>15, <1>16, RestSound
<1>18. removed = Nothing \/ removed.rowid \in Rowid
  BY DEF Inv
<1> QED BY ONLY <1>1, <1>17, <1>18 DEF Inv

\* The page splits and its separator goes up a level.
LEMMA PromoteSplitsKeeps ==
  ASSUME Inv, PromoteSplits
  PROVE  Inv'
<1> DEFINE T == TreeOf(file, op)  pair == SplitInterior(Grown, AtTail)  right == Allocated(1)
           here == Here  v == op.level  pa == op.path
           par == pa[v - 1][1]  s == pa[v - 1][2]
           W == [file EXCEPT ![here] = pair.left, ![right] = pair.right]
           o == [op EXCEPT !.level = @ - 1, !.separator = pair.separator.key, !.left = here, !.right = right]
           x == RouteCell(pair.separator.key)
           Z == TreeOf(W, o)
<1>1. /\ op.kind = "promote" /\ ~Fits(file[Here], RouteCell(op.separator), NodeRoom) /\ v > 1
      /\ file' = W /\ op' = o /\ rows' = rows /\ removed' = removed
  BY DEF PromoteSplits
<1>2. /\ here \in PageId /\ file[here].kind = "interior" /\ here = At(op) /\ OpOnPath(file, op) /\ op \in OpType
      /\ file = [p \in PageId |-> file[p]]
      /\ DOMAIN T = PageId /\ T[here] = Grown
      /\ \A p \in PageId : p # here => T[p] = file[p]
      /\ \A p \in PageId : RoomKept(file, p)
      /\ \A p \in PageId : file[p].kind = "leaf" /\ file[p].cells = <<>> => p = Root
      /\ RowsTyped(rows) /\ Stored(file, rows) /\ v \in Nat /\ Cardinality(FreePages) >= v + 1
  BY <1>1, PromoteFacts
<1>3. PICK ht, span : Structure(Cells, T, Root, NoPage, ht, span)
  BY <1>1, PromoteFacts
<1>4. /\ IsCut(Cells, PageId, Grown, pair.left, pair.right, pair.separator.key)
      /\ x \in Cells
      /\ pair.left.kind = "interior" /\ pair.right.kind = "interior"
      /\ Units(pair.left.cells) /\ Len(pair.left.cells) <= NodeRoom
      /\ Units(pair.right.cells) /\ Len(pair.right.cells) <= NodeRoom
  BY <1>1, SplitGrown
<1>5. /\ right \in PageId /\ right \in FreePages /\ file[right].kind = "free" /\ right # here /\ ~TreePage(T, right)
  <2>1. 1 <= op.level + 1
    BY <1>2
  <2> QED BY <1>1, <2>1, PromotePages
<1>6. x.key = pair.separator.key
  BY DEF RouteCell
<1>7. /\ pa \in Seq(PageId \X Nat) /\ Len(pa) \in Nat /\ v \in 1 .. Len(pa) /\ pa[1][1] = Root
      /\ \A i \in 1 .. v - 1 : Edge(file, pa[i][1], pa[i][2], pa[i + 1][1])
      /\ here = pa[v][1]
  BY <1>2 DEF OpOnPath, OpType, At
<1>8. ASSUME NEW i \in 1 .. v - 1 PROVE pa[i][1] \in PageId /\ pa[i][2] \in Nat /\ pa[i][1] # here
  <2>1. HoleOf(op) = NoPage
    BY <1>1 DEF HoleOf
  <2>2. Structure(Cells, TreeOf(file, op), Root, HoleOf(op), ht, span)
    BY <1>3, <2>1
  <2>3. op.kind # "idle"
    BY <1>1
  <2> QED BY <1>2, <2>2, <2>3, PathHeights
<1>9. /\ o.kind = "promote" /\ o.path = pa /\ o.level = v - 1 /\ o.separator = pair.separator.key
      /\ o.left = here /\ o.right = right
      /\ o = [kind |-> o.kind, path |-> o.path, level |-> o.level, separator |-> o.separator,
              left |-> o.left, right |-> o.right]
  <2>1. op = [kind |-> op.kind, path |-> op.path, level |-> op.level, separator |-> op.separator,
              left |-> op.left, right |-> op.right]
    BY <1>2 DEF OpType
  <2>2. PICK k, y, l : k = pair.separator.key /\ y = right /\ l = here
    OBVIOUS
  <2>3. o = [op EXCEPT !.level = @ - 1, !.separator = k, !.left = l, !.right = y]
    BY <2>2
  <2>4. op.kind = "promote"
    BY <1>1
  <2> HIDE DEF pair, here, right, o
  <2>5. o = [kind |-> op.kind, path |-> pa, level |-> v - 1, separator |-> k, left |-> l, right |-> y]
    BY ONLY <2>1, <2>3
  <2> QED BY ONLY <2>2, <2>4, <2>5
<1>10. At(o) = par /\ SlotAt(o) = s
  BY <1>9 DEF At, SlotAt
<1>11. Z = [W EXCEPT ![par] = Promoted(W[par], s, x, here, right)]
  BY ONLY <1>9, <1>10 DEF TreeOf, GrownOf, Z, x
<1> HIDE DEF pair, right, x, T, here, v, pa, o, Z
<1>12. v - 1 \in 1 .. v - 1 /\ v - 1 \in Nat /\ (v - 1) + 1 = v /\ v - 1 \in 1 .. Len(pa)
  BY ONLY <1>1, <1>2, <1>7
<1>13. par \in PageId /\ s \in Nat /\ par # here
  BY ONLY <1>8, <1>12
<1>14. Edge(file, par, s, here)
  <2>1. Edge(file, pa[v - 1][1], pa[v - 1][2], pa[(v - 1) + 1][1])
    BY ONLY <1>7, <1>12
  <2> QED BY ONLY <1>7, <1>12, <2>1
<1> HIDE DEF par, s
<1>15. file[par].kind = "interior" /\ par # right
  BY ONLY <1>5, <1>14 DEF Edge
<1>16. /\ W = [p \in PageId |-> W[p]] /\ DOMAIN W = PageId
       /\ W[here] = pair.left /\ W[right] = pair.right
       /\ \A p \in PageId \ {here, right} : W[p] = file[p]
  BY ONLY <1>2, <1>5
<1> HIDE DEF W
<1>17. /\ Z = [p \in PageId |-> Z[p]] /\ DOMAIN Z = PageId
       /\ Z[par] = Promoted(W[par], s, x, here, right) /\ \A p \in PageId \ {par} : Z[p] = W[p]
  BY ONLY <1>11, <1>13, <1>16
<1>18. W[par] = file[par] /\ T[par] = file[par]
  BY ONLY <1>2, <1>13, <1>15, <1>16
<1>19. CellSet(Cells) /\ NoPage \notin PageId
  BY Constants
<1>20. Structure(Cells, Z, Root, NoPage, SplitHt(ht, here, right), SplitSpan(span, here, right, x.key))
  <2>1. Edge(T, par, s, here)
    BY ONLY <1>14, <1>18 DEF Edge
  <2>2. IsCut(Cells, DOMAIN T, T[here], pair.left, pair.right, x.key)
    BY ONLY <1>2, <1>4, <1>6
  <2>3. \A p \in DOMAIN T \ {here, right, par} : Z[p] = T[p]
    BY ONLY <1>2, <1>16, <1>17
  <2>4. Z[here] = pair.left /\ Z[right] = pair.right /\ Z[par] = Promoted(T[par], s, x, here, right)
    BY ONLY <1>2, <1>5, <1>13, <1>15, <1>16, <1>17, <1>18
  <2>5. Splits(Cells, T, Z, par, s, here, right, pair.left, pair.right, x)
    BY ONLY <1>2, <1>4, <1>5, <1>13, <1>17, <2>1, <2>2, <2>3, <2>4 DEF Splits
  <2>6. NoPage \notin DOMAIN T
    BY ONLY <1>2, <1>19
  <2> QED BY ONLY <1>3, <1>19, <2>5, <2>6, SplitKeeps
<1>21. /\ \A p \in PageId : RoomKept(W, p)
       /\ \A p \in PageId : W[p].kind = "leaf" /\ W[p].cells = <<>> => p = Root
  <2> DEFINE S == {here, right}
  <2>1. S \in SUBSET PageId
    BY ONLY <1>2, <1>5
  <2>2. \A p \in PageId \ S : W[p] = file[p]
    BY ONLY <1>16
  <2>3. \A p \in S : W[p].kind = "interior" /\ Units(W[p].cells) /\ Len(W[p].cells) <= NodeRoom
    BY ONLY <1>4, <1>16
  <2> HIDE DEF S
  <2> QED BY ONLY <1>2, <2>1, <2>2, <2>3, HalfRooms
<1>22. Stored(W, rows)
  <2>1. \A p \in {here, right} : file[p].kind \in {"free", "interior"} /\ W[p].kind = "interior"
    BY ONLY <1>2, <1>4, <1>5, <1>16
  <2>2. \A p \in PageId : file[p].kind = "leaf" \/ W[p].kind = "leaf" => file[p] = W[p]
    BY ONLY <1>16, <2>1
  <2>3. LeafCells(W) = LeafCells(file)
    BY ONLY <2>2, SameLeaves
  <2>4. ChainsAgree(file, W)
    BY ONLY <1>16, <2>1 DEF ChainsAgree
  <2> QED BY ONLY <1>2, <2>3, <2>4, StoredStays
<1>23. ASSUME NEW i \in 1 .. v - 1, NEW q, Edge(file, pa[i][1], pa[i][2], q) PROVE Edge(W, pa[i][1], pa[i][2], q)
  <2>1. pa[i][1] \in PageId /\ pa[i][1] # here
    BY ONLY <1>8, i \in 1 .. v - 1
  <2>2. pa[i][1] # right
    BY ONLY <1>5, <1>23 DEF Edge
  <2>3. W[pa[i][1]] = file[pa[i][1]]
    BY ONLY <1>16, <2>1, <2>2
  <2> QED BY ONLY <1>23, <2>3 DEF Edge
<1>24. OpOnPath(W, o)
  <2>1. Edge(W, par, s, here)
    BY ONLY <1>14, <1>18 DEF Edge
  <2>2. ASSUME NEW i \in 1 .. o.level - 1 PROVE Edge(W, o.path[i][1], o.path[i][2], o.path[i + 1][1])
    <3>1. i \in 1 .. v - 1
      BY ONLY <1>2, <1>9, i \in 1 .. o.level - 1
    <3>2. Edge(file, pa[i][1], pa[i][2], pa[i + 1][1])
      BY ONLY <1>7, <3>1
    <3> QED BY ONLY <1>9, <1>23, <3>1, <3>2
  <2>3. Node(Cells, PageId, W[par])
    <3>1. TreePage(T, par)
      BY ONLY <1>15, <1>18 DEF TreePage
    <3>2. WellFormed(Cells, T, NoPage)
      BY ONLY <1>3 DEF Structure
    <3>3. NoPage \notin DOMAIN T /\ par \in DOMAIN T
      BY ONLY <1>2, <1>13, <1>19
    <3>4. Node(Cells, DOMAIN T, T[par])
      BY ONLY <3>1, <3>2, <3>3, NodeOf
    <3> QED BY ONLY <1>2, <1>18, <3>4
  <2>4. o.left \in PageId /\ o.level \in 1 .. Len(o.path) /\ o.path[1][1] = Root
    BY ONLY <1>2, <1>7, <1>9, <1>12
  <2> QED BY ONLY <1>9, <1>10, <2>1, <2>2, <2>3, <2>4 DEF OpOnPath
<1>25. Cardinality(FreeOf(W)) >= o.level + 1
  <2>1. FreeOf(W) = FreePages \ {right}
    <3>1. W[here].kind # "free" /\ W[right].kind # "free" /\ file[here].kind # "free"
      BY ONLY <1>2, <1>4, <1>16
    <3> QED BY ONLY <1>16, <3>1 DEF FreeOf, FreePages
  <2>2. IsFiniteSet(FreePages) /\ Cardinality(FreePages) \in Nat
    BY FreeFacts, PagesFinite
  <2>3. Cardinality(FreePages \ {right}) = Cardinality(FreePages) - 1
    BY ONLY <1>5, <2>2, FS_RemoveElement
  <2> QED BY ONLY <1>2, <1>9, <2>1, <2>2, <2>3
<1>26. pair.separator.key \in Nat
  BY <1>4, <1>6, <1>19 DEF CellSet
<1>27. OpUnderWay(W, o)
  <2>1. o \in OpType
    BY ONLY <1>2, <1>5, <1>7, <1>9, <1>12, <1>26 DEF OpType
  <2>2. RouteCell(o.separator) \in Cells
    BY <1>4, <1>9 DEF x
  <2> QED BY ONLY <1>5, <1>9, <1>24, <1>25, <2>1, <2>2 DEF OpUnderWay
<1>28. Sound(W, o, rows)
  <2>1. Structure(Cells, TreeOf(W, o), Root, NoPage, SplitHt(ht, here, right), SplitSpan(span, here, right, x.key))
    BY ONLY <1>20 DEF Z
  <2> QED BY ONLY <1>2, <1>9, <1>16, <1>21, <1>22, <1>27, <2>1, PromoteSound
<1>29. removed = Nothing \/ removed.rowid \in Rowid
  BY DEF Inv
<1> QED BY ONLY <1>1, <1>28, <1>29 DEF Inv

-----------------------------------------------------------------------------
(* delete() *)

WithoutRow(R, r) == [x \in DOMAIN R \ {r} |-> R[x]]

\* The chain s is free in G and the others are where they were.
ChainFreed(F, G, s) ==
  /\ \A p \in PageId : F[p].kind = "overflow" => (G[p] = F[p] \/ \E i \in Nat : i \in 1 .. Len(s) /\ s[i] = p)
  /\ \A p \in PageId : G[p].kind = "overflow" => F[p].kind = "overflow" /\ ~\E i \in Nat : i \in 1 .. Len(s) /\ s[i] = p

\* The cells L are those of K but the row's.
CellsLess(K, L, r) == \A c : c \in L <=> c \in K /\ c.key # r

\* A row less, and its chain.
LEMMA RowRemoved ==
  ASSUME NEW F, NEW G, NEW R, RowsTyped(R), NEW ch, RowsFiled(LeafCells(F), R, ch), ChainsLaid(F, R, ch),
         NEW r \in DOMAIN R, CellsLess(LeafCells(F), LeafCells(G), r), ChainFreed(F, G, ch[r])
  PROVE  RowsTyped(WithoutRow(R, r)) /\ Stored(G, WithoutRow(R, r))
<1> DEFINE R2 == WithoutRow(R, r)  ch2 == [x \in DOMAIN R \ {r} |-> ch[x]]
<1>1. RowsTyped(R2)
  BY DEF RowsTyped, WithoutRow
<1>2. /\ ch \in [DOMAIN R -> Seq(PageId)]
      /\ \A x \in DOMAIN R : Len(ch[x]) = R[x].spill
      /\ \A x \in DOMAIN R, i \in Nat : i \in 1 .. Len(ch[x]) => F[ch[x][i]] = ChainPage(x, i, ch[x])
      /\ \A p \in PageId : F[p].kind = "overflow" =>
            \E x \in DOMAIN R, i \in Nat : i \in 1 .. Len(ch[x]) /\ ch[x][i] = p
  BY DEF ChainsLaid
<1>3. DOMAIN R2 = DOMAIN R \ {r} /\ \A x \in DOMAIN R2 : R2[x] = R[x] /\ x # r /\ x \in DOMAIN R
  BY DEF WithoutRow
<1>4. ch2 \in [DOMAIN R \ {r} -> Seq(PageId)] /\ \A x \in DOMAIN R \ {r} : ch2[x] = ch[x]
  BY <1>2
<1> HIDE DEF R2, ch2
<1>5. ASSUME NEW x \in DOMAIN R, NEW y \in DOMAIN R, NEW i \in Nat, NEW j \in Nat, i \in 1 .. Len(ch[x]),
             j \in 1 .. Len(ch[y]), ch[x][i] = ch[y][j]
      PROVE  x = y
  <2>1. F[ch[x][i]] = ChainPage(x, i, ch[x])
    BY ONLY <1>2, <1>5, x \in DOMAIN R, i \in Nat
  <2>2. F[ch[y][j]] = ChainPage(y, j, ch[y])
    BY ONLY <1>2, <1>5, y \in DOMAIN R, j \in Nat
  <2>3. ChainPage(x, i, ch[x]).cells = ChainPage(y, j, ch[y]).cells
    BY ONLY <2>1, <2>2, <1>5
  <2> QED BY ONLY <2>3 DEF ChainPage
<1>6. RowsFiled(LeafCells(G), R2, ch2)
  <2>1. \A c \in LeafCells(F) : c.key \in DOMAIN R /\ c.size = R[c.key].size /\ c.over = Start(ch[c.key])
    BY DEF RowsFiled
  <2>2. \A x \in DOMAIN R : \E c \in LeafCells(F) : c.key = x
    BY DEF RowsFiled
  <2>3. \A c : c \in LeafCells(G) <=> c \in LeafCells(F) /\ c.key # r
    BY DEF CellsLess
  <2>4. ASSUME NEW c \in LeafCells(G)
        PROVE  c.key \in DOMAIN R2 /\ c.size = R2[c.key].size /\ c.over = Start(ch2[c.key])
    BY ONLY <1>3, <1>4, <2>1, <2>3, c \in LeafCells(G)
  <2>5. ASSUME NEW x \in DOMAIN R2 PROVE \E c \in LeafCells(G) : c.key = x
    BY ONLY <1>3, <2>2, <2>3, x \in DOMAIN R2
  <2> QED BY ONLY <2>4, <2>5 DEF RowsFiled
<1>7. ChainsLaid(G, R2, ch2)
  <2>1. \A x \in DOMAIN R2 : Len(ch2[x]) = R2[x].spill
    BY ONLY <1>2, <1>3, <1>4
  <2>2. ASSUME NEW x \in DOMAIN R2, NEW i \in Nat, i \in 1 .. Len(ch2[x])
        PROVE  G[ch2[x][i]] = ChainPage(x, i, ch2[x])
    <3>1. x \in DOMAIN R /\ x # r /\ ch2[x] = ch[x]
      BY <1>3, <1>4
    <3>2. F[ch[x][i]] = ChainPage(x, i, ch[x]) /\ ch[x][i] \in PageId
      BY <1>2, <2>2, <3>1
    <3>3. F[ch[x][i]].kind = "overflow"
      BY ONLY <3>2 DEF ChainPage
    <3>4. ~\E j \in Nat : j \in 1 .. Len(ch[r]) /\ ch[r][j] = ch[x][i]
      BY <1>5, <2>2, <3>1
    <3>5. G[ch[x][i]] = F[ch[x][i]]
      BY <3>2, <3>3, <3>4 DEF ChainFreed
    <3> QED BY ONLY <3>1, <3>2, <3>5
  <2>3. ASSUME NEW p \in PageId, G[p].kind = "overflow"
        PROVE  \E x \in DOMAIN R2, i \in Nat : i \in 1 .. Len(ch2[x]) /\ ch2[x][i] = p
    <3>1. F[p].kind = "overflow" /\ ~\E i \in Nat : i \in 1 .. Len(ch[r]) /\ ch[r][i] = p
      BY <2>3 DEF ChainFreed
    <3>2. PICK x \in DOMAIN R, i \in Nat : i \in 1 .. Len(ch[x]) /\ ch[x][i] = p
      BY <1>2, <3>1
    <3>3. x # r
      BY <3>1, <3>2
    <3> QED BY ONLY <1>3, <1>4, <3>2, <3>3
  <2> QED BY ONLY <1>3, <1>4, <2>1, <2>2, <2>3 DEF ChainsLaid
<1> QED BY <1>1, <1>6, <1>7 DEF Stored, R2

\* Sound, where the file itself is the tree.
LEMMA TreeSound ==
  ASSUME NEW F, NEW o, NEW R, o.kind # "promote", FilePages(F, o), OpUnderWay(F, o),
         NEW ht, NEW span, Structure(Cells, F, Root, HoleOf(o), ht, span), RowsTyped(R), Stored(F, R)
  PROVE  Sound(F, o, R)
<1>1. TreeOf(F, o) = F
  BY DEF TreeOf
<1>2. Shaped(F, o)
  BY ONLY <1>1, Structure(Cells, F, Root, HoleOf(o), ht, span), Zenon DEF Shaped
<1> QED BY <1>2 DEF Sound

\* The row that delete() finds, and the file without it.
Left(rowid) == WithoutCell(file[Home(rowid)].cells, HomeAt(rowid))
Gone(rowid) ==
  [WithoutChain(file[Home(rowid)].cells[HomeAt(rowid)].over) EXCEPT ![Home(rowid)] = Leaf(Left(rowid))]

\* The cell that goes is the row's, and the others stay in order.
LEMMA LeftFacts ==
  ASSUME Inv, op = Idle, NEW r \in Rowid, Search(r)
  PROVE  /\ r \in DOMAIN rows /\ HomeAt(r) \in 1 .. Len(file[Home(r)].cells)
         /\ file[Home(r)].cells[HomeAt(r)].key = r /\ file[Home(r)].cells[HomeAt(r)] \in LeafCells(file)
         /\ Left(r) \in Seq(Cells) /\ Sorted(Left(r)) /\ Len(Left(r)) = Len(file[Home(r)].cells) - 1
         /\ IsRemoval(file[Home(r)].cells, HomeAt(r), Left(r))
         /\ \A i \in 1 .. Len(Left(r)) : \E j \in 1 .. Len(file[Home(r)].cells) :
               file[Home(r)].cells[j] = Left(r)[i] /\ j # HomeAt(r)
         /\ \A i \in 1 .. Len(Left(r)) : Left(r)[i].key # r
         /\ Used(Left(r)) <= LeafRoom
<1> DEFINE a == file[Home(r)].cells  s == HomeAt(r)  b == Left(r)
<1>1. /\ Home(r) \in PageId /\ file[Home(r)].kind = "leaf" /\ a \in Seq(Cells) /\ Sorted(a)
      /\ s \in 1 .. Len(a) + 1
  BY HomeFacts
<1>2. s <= Len(a) /\ a[s].key = r
  BY DEF Search, Home, HomeAt
<1>3. r \in Nat /\ CellSet(Cells) /\ LeafRoom \in Nat
  BY Constants
<1>4. r \in DOMAIN rows
  BY <1>3, SearchTells
<1>5. RoomKept(file, Home(r))
  BY <1>1, AtRest
<1>6. Used(a) <= LeafRoom
  BY <1>1, <1>5 DEF RoomKept, FreePage
<1>7. b = WithoutCell(a, s) /\ b = RemoveAt(a, s)
  BY DEF Left, WithoutCell
<1> HIDE DEF a, s, b
<1>8. s \in 1 .. Len(a) /\ Len(a) \in Nat /\ s \in Nat
  BY ONLY <1>1, <1>2
<1>9. b \in Seq(Cells) /\ Len(b) = Len(a) - 1 /\ IsRemoval(a, s, b)
  BY ONLY <1>1, <1>7, <1>8, WithoutFacts
<1> DEFINE at(i) == IF i < s THEN i ELSE i + 1
<1>10. ASSUME NEW i \in 1 .. Len(b) PROVE at(i) \in 1 .. Len(a) /\ at(i) # s /\ b[i] = a[at(i)]
  <2>1. CASE i < s
    <3>1. i \in 1 .. s - 1 /\ i \in 1 .. Len(a) /\ i # s
      BY ONLY <1>8, <1>9, <2>1, i \in 1 .. Len(b)
    <3>2. b[i] = a[i]
      BY ONLY <1>9, <3>1 DEF IsRemoval
    <3> QED BY ONLY <2>1, <3>1, <3>2
  <2>2. CASE ~(i < s)
    <3>1. i \in s .. Len(a) - 1 /\ i + 1 \in 1 .. Len(a) /\ i + 1 # s
      BY ONLY <1>8, <1>9, <2>2, i \in 1 .. Len(b)
    <3>2. b[i] = a[i + 1]
      BY ONLY <1>9, <3>1 DEF IsRemoval
    <3> QED BY ONLY <2>2, <3>1, <3>2
  <2> QED BY <2>1, <2>2
<1>11. ASSUME NEW i \in 1 .. Len(b), NEW j \in 1 .. Len(b), i < j PROVE b[i].key < b[j].key
  <2>1. at(i) < at(j)
    BY ONLY <1>8, <1>9, <1>11, i \in 1 .. Len(b), j \in 1 .. Len(b)
  <2> HIDE DEF at
  <2>2. a[at(i)].key < a[at(j)].key
    BY ONLY <1>1, <1>10, <2>1, i \in 1 .. Len(b), j \in 1 .. Len(b) DEF Sorted
  <2> QED BY <1>10, <2>2
<1>12. Sorted(b)
  BY <1>11 DEF Sorted
<1>13. ASSUME NEW i \in 1 .. Len(b) PROVE b[i].key # r
  <2>0. at(i) \in 1 .. Len(a) /\ at(i) # s /\ b[i] = a[at(i)]
    BY <1>10
  <2> HIDE DEF at
  <2>1. at(i) < s \/ s < at(i)
    BY ONLY <1>8, <2>0
  <2>2. a[at(i)].key < a[s].key \/ a[s].key < a[at(i)].key
    BY ONLY <1>1, <1>8, <2>0, <2>1 DEF Sorted
  <2>3. a[at(i)].key \in Nat
    <3>1. a[at(i)] \in Cells
      BY ONLY <1>1, <2>0
    <3> QED BY ONLY <1>3, <3>1 DEF CellSet
  <2> QED BY ONLY <1>2, <1>3, <2>0, <2>2, <2>3
<1>14. Used(b) <= LeafRoom
  <2>1. Used(a) = Used(b) + a[s].size
    BY ONLY <1>1, <1>3, <1>7, <1>8, UsedRemove
  <2>2. Used(b) \in Nat /\ Used(a) \in Nat
    BY ONLY <1>1, <1>3, <1>9, RunFacts
  <2>3. a[s].size \in Nat
    <3>1. a[s] \in Cells
      BY ONLY <1>1, <1>8
    <3> QED BY ONLY <1>3, <3>1 DEF CellSet
  <2> QED BY ONLY <1>3, <1>6, <2>1, <2>2, <2>3
<1>15. a[s] \in LeafCells(file)
  <2>1. a[s] \in Cells
    BY ONLY <1>1, <1>8
  <2> QED BY ONLY <1>1, <1>8, <2>1 DEF LeafCells, LeafCell, a
<1> QED BY ONLY <1>2, <1>4, <1>8, <1>9, <1>10, <1>12, <1>13, <1>14, <1>15 DEF a, s, b

\* Only the row's leaf and its own chain change.
OwnPage(s, p) == \E i \in Nat : i \in 1 .. Len(s) /\ s[i] = p
\* After a deletion: the leaf without the cell, the chain freed, all else as it was.
LEMMA GoneFacts ==
  ASSUME Inv, op = Idle, NEW r \in Rowid, Search(r),
         NEW ch, RowsFiled(LeafCells(file), rows, ch), ChainsLaid(file, rows, ch)
  PROVE  /\ Gone(r) = [p \in PageId |-> Gone(r)[p]]
         /\ Gone(r)[Home(r)] = Leaf(Left(r))
         /\ \A p \in PageId \ {Home(r)} : OwnPage(ch[r], p) => file[p].kind = "overflow" /\ Gone(r)[p] = FreePage
         /\ \A p \in PageId \ {Home(r)} : ~OwnPage(ch[r], p) => Gone(r)[p] = file[p]
         /\ ~OwnPage(ch[r], Home(r))
<1> DEFINE over == file[Home(r)].cells[HomeAt(r)].over  W == WithoutChain(over)
<1>1. /\ r \in DOMAIN rows /\ file[Home(r)].cells[HomeAt(r)].key = r
      /\ file[Home(r)].cells[HomeAt(r)] \in LeafCells(file)
  BY LeftFacts
<1>2. over = Start(ch[r])
  BY ONLY <1>1, RowsFiled(LeafCells(file), rows, ch) DEF RowsFiled
<1>3. RowsTyped(rows)
  BY AtRest
<1>4. ChainFrom(over) = ch[r]
  BY <1>1, <1>2, <1>3, ChainRead
<1>5. Home(r) \in PageId /\ file[Home(r)].kind = "leaf"
  BY HomeFacts
<1>6. ch[r] \in Seq(PageId)
  BY <1>1 DEF ChainsLaid
<1>7. \A p : p \in ToSet(ch[r]) <=> OwnPage(ch[r], p)
  BY <1>6 DEF ToSet, OwnPage
<1>8. W = [q \in PageId |-> IF q \in ToSet(ch[r]) THEN FreePage ELSE file[q]]
  BY ONLY <1>4 DEF WithoutChain
<1>9. ASSUME NEW p \in PageId, OwnPage(ch[r], p) PROVE file[p].kind = "overflow"
  <2>1. PICK i \in Nat : i \in 1 .. Len(ch[r]) /\ ch[r][i] = p
    BY <1>9 DEF OwnPage
  <2>2. file[p] = ChainPage(r, i, ch[r])
    BY <1>1, <2>1 DEF ChainsLaid
  <2> QED BY ONLY <2>2 DEF ChainPage
<1>10. Gone(r) = [W EXCEPT ![Home(r)] = Leaf(Left(r))]
  BY DEF Gone
<1> HIDE DEF W, over
<1>11. ~OwnPage(ch[r], Home(r))
  <2>1. ~(file[Home(r)].kind = "overflow")
    BY ONLY <1>5
  <2> QED BY ONLY <1>5, <1>9, <2>1
<1>12. Gone(r) = [p \in PageId |-> Gone(r)[p]] /\ Gone(r)[Home(r)] = Leaf(Left(r))
  BY ONLY <1>5, <1>8, <1>10
<1>13. \A p \in PageId \ {Home(r)} : Gone(r)[p] = W[p]
  BY ONLY <1>5, <1>8, <1>10
<1> QED BY ONLY <1>7, <1>8, <1>9, <1>11, <1>12, <1>13

\* The leaves hold one row less.
LEMMA GoneCells ==
  ASSUME Inv, op = Idle, NEW r \in Rowid, Search(r), NEW W, W[Home(r)] = Leaf(Left(r)), LeavesAgree(file, W, Home(r))
  PROVE  CellsLess(LeafCells(file), LeafCells(W), r)
<1> DEFINE h == Home(r)  a == file[h].cells  s == HomeAt(r)  b == Left(r)
<1>1. /\ s \in 1 .. Len(a) /\ a[s].key = r /\ b \in Seq(Cells) /\ Len(b) = Len(a) - 1
      /\ IsRemoval(a, s, b)
      /\ \A i \in 1 .. Len(b) : \E j \in 1 .. Len(a) : a[j] = b[i] /\ j # s
      /\ \A i \in 1 .. Len(b) : b[i].key # r
  BY LeftFacts
<1>2. h \in PageId /\ file[h].kind = "leaf" /\ a \in Seq(Cells)
  BY HomeFacts
<1>3. W[h].kind = "leaf" /\ W[h].cells = b
  BY DEF Leaf
<1>4. \A p \in PageId : p # h /\ (file[p].kind = "leaf" \/ W[p].kind = "leaf") => file[p] = W[p]
  BY DEF LeavesAgree
<1>5. DOMAIN file = PageId /\ CellSet(Cells) /\ \E ht, span : Structure(Cells, file, Root, NoPage, ht, span)
  BY AtRest, Constants
<1> HIDE DEF h, a, s, b
<1>6. ASSUME NEW c \in LeafCells(W) PROVE c \in LeafCells(file) /\ c.key # r
  <2>1. PICK p \in PageId, i \in Nat : LeafCell(W, p, i, c)
    BY DEF LeafCells
  <2>2. W[p].kind = "leaf" /\ i \in 1 .. Len(W[p].cells) /\ W[p].cells[i] = c /\ c \in Cells
    BY <2>1 DEF LeafCell, LeafCells
  <2>3. CASE p = h
    <3>1. i \in 1 .. Len(b) /\ b[i] = c
      BY ONLY <1>3, <2>2, <2>3
    <3>2. PICK j \in 1 .. Len(a) : a[j] = c
      BY ONLY <1>1, <3>1
    <3>3. LeafCell(file, h, j, c) /\ j \in Nat
      BY ONLY <1>2, <3>2, j \in 1 .. Len(a) DEF LeafCell, a
    <3>4. c.key # r
      BY ONLY <1>1, <3>1
    <3> QED BY ONLY <1>2, <2>2, <3>3, <3>4 DEF LeafCells
  <2>4. CASE p # h
    <3>1. file[p] = W[p]
      BY ONLY <1>4, <2>2, <2>4, p \in PageId
    <3>2. LeafCell(file, p, i, c)
      BY ONLY <2>2, <3>1 DEF LeafCell
    <3>3. c \in LeafCells(file)
      BY ONLY <2>2, <3>2, p \in PageId, i \in Nat DEF LeafCells
    <3>4. ASSUME c.key = r PROVE FALSE
      <4>1. PICK ht, span : Structure(Cells, file, Root, NoPage, ht, span)
        BY <1>5
      <4>2. file[p].kind = "leaf" /\ i \in 1 .. Len(file[p].cells) /\ file[p].cells[i].key = file[h].cells[s].key
        BY ONLY <1>1, <2>2, <3>1, <3>4 DEF a
      <4>3. s \in 1 .. Len(file[h].cells)
        BY ONLY <1>1 DEF a
      <4>4. p = h
        BY ONLY <1>2, <1>5, <4>1, <4>2, <4>3, p \in PageId, RowOnce
      <4> QED BY ONLY <2>4, <4>4
    <3> QED BY <3>3, <3>4
  <2> QED BY <2>3, <2>4
<1>7. ASSUME NEW c \in LeafCells(file), c.key # r PROVE c \in LeafCells(W)
  <2>1. PICK p \in PageId, i \in Nat : LeafCell(file, p, i, c)
    BY DEF LeafCells
  <2>2. file[p].kind = "leaf" /\ i \in 1 .. Len(file[p].cells) /\ file[p].cells[i] = c /\ c \in Cells
    BY <2>1 DEF LeafCell, LeafCells
  <2>3. CASE p = h
    <3>1. i \in 1 .. Len(a) /\ a[i] = c /\ i # s
      BY ONLY <1>1, <1>7, <2>2, <2>3 DEF a
    <3>2. Len(a) \in Nat /\ s \in Nat
      BY ONLY <1>1, <1>2
    <3>3. \E k \in Nat : k \in 1 .. Len(b) /\ b[k] = c
      <4>1. CASE i < s
        <5>1. i \in 1 .. s - 1 /\ i \in 1 .. Len(b)
          BY ONLY <1>1, <3>1, <3>2, <4>1
        <5>2. b[i] = a[i]
          BY ONLY <1>1, <5>1 DEF IsRemoval
        <5> QED BY ONLY <3>1, <5>1, <5>2, i \in Nat
      <4>2. CASE i > s
        <5>1. PICK k \in Nat : i = k + 1
          BY ONLY <3>1, <3>2, <4>2, i - 1 \in Nat
        <5>2. k \in s .. Len(a) - 1 /\ k \in 1 .. Len(b)
          BY ONLY <1>1, <3>1, <3>2, <4>2, <5>1, k \in Nat
        <5>3. b[k] = a[k + 1]
          BY ONLY <1>1, <5>2 DEF IsRemoval
        <5> QED BY ONLY <3>1, <5>1, <5>2, <5>3, k \in Nat
      <4>3. i < s \/ i > s
        BY ONLY <3>1, <3>2
      <4> QED BY ONLY <4>1, <4>2, <4>3
    <3>4. PICK k \in Nat : k \in 1 .. Len(b) /\ b[k] = c
      BY <3>3
    <3>5. LeafCell(W, h, k, c)
      BY ONLY <1>3, <3>4 DEF LeafCell
    <3> QED BY ONLY <1>2, <2>2, <3>5, k \in Nat DEF LeafCells
  <2>4. CASE p # h
    <3>1. file[p] = W[p]
      BY ONLY <1>4, <2>2, <2>4, p \in PageId
    <3>2. LeafCell(W, p, i, c)
      BY ONLY <2>2, <3>1 DEF LeafCell
    <3> QED BY ONLY <2>2, <3>2, p \in PageId, i \in Nat DEF LeafCells
  <2> QED BY <2>3, <2>4
<1> QED BY <1>6, <1>7 DEF CellsLess

\* After the row is gone the pages are still a tree with room, and the rows
\* left are still stored in it.
LEMMA GoneKeeps ==
  ASSUME Inv, op = Idle, NEW r \in Rowid, Search(r), NEW hole
  PROVE  /\ Gone(r) = [p \in PageId |-> Gone(r)[p]] /\ Gone(r)[Home(r)] = Leaf(Left(r))
         /\ \A p \in PageId : RoomKept(Gone(r), p)
         /\ \A p \in PageId : p # Home(r) /\ Gone(r)[p].kind = "leaf" /\ Gone(r)[p].cells = <<>> => p = Root
         /\ \A p \in PageId : file[p].kind = "interior" => Gone(r)[p] = file[p]
         /\ \E ht, span : Structure(Cells, Gone(r), Root, hole, ht, span)
         /\ RowsTyped(WithoutRow(rows, r)) /\ Stored(Gone(r), WithoutRow(rows, r))
<1> DEFINE W == Gone(r)  h == Home(r)
<1>1. PICK ch : RowsFiled(LeafCells(file), rows, ch) /\ ChainsLaid(file, rows, ch)
  BY AtRest DEF Stored
<1>2. /\ W = [p \in PageId |-> W[p]]
      /\ W[h] = Leaf(Left(r))
      /\ \A p \in PageId \ {h} : OwnPage(ch[r], p) => file[p].kind = "overflow" /\ W[p] = FreePage
      /\ \A p \in PageId \ {h} : ~OwnPage(ch[r], p) => W[p] = file[p]
      /\ ~OwnPage(ch[r], h)
  BY <1>1, GoneFacts
<1>3. h \in PageId /\ file[h].kind = "leaf" /\ r \in DOMAIN rows /\ Left(r) \in Seq(Cells) /\ Sorted(Left(r))
  BY HomeFacts, LeftFacts
<1>4. /\ DOMAIN file = PageId /\ CellSet(Cells) /\ r \in Nat /\ NoPage \notin PageId
      /\ \A p \in PageId : RoomKept(file, p)
      /\ \A p \in PageId : file[p].kind = "leaf" /\ file[p].cells = <<>> => p = Root
      /\ RowsTyped(rows)
  BY AtRest, Constants
<1>5. W[h].kind = "leaf" /\ W[h].cells = Left(r) /\ W[h].kids = <<>>
  BY ONLY <1>2 DEF Leaf
<1>6. FreePage.kind = "free"
  BY DEF FreePage
<1>15. Used(Left(r)) <= LeafRoom
  BY LeftFacts
<1>16. CellsLess(LeafCells(file), LeafCells(W), r)
  <2>1. \A p \in PageId \ {h} : W[p] = file[p] \/ (file[p].kind # "leaf" /\ W[p].kind # "leaf")
    BY ONLY <1>2, <1>6
  <2>2. LeavesAgree(file, W, h)
    BY ONLY <2>1 DEF LeavesAgree
  <2> QED BY <1>2, <2>2, GoneCells
<1> HIDE DEF W, h
<1>7. \A p \in PageId : p # h => W[p] = file[p] \/ (file[p].kind = "overflow" /\ W[p] = FreePage)
  BY ONLY <1>2
<1>8. \A p \in PageId : RoomKept(W, p)
  <2> SUFFICES ASSUME NEW p \in PageId PROVE RoomKept(W, p)
    OBVIOUS
  <2>1. CASE p = h
    BY ONLY <1>5, <1>15, <2>1 DEF RoomKept
  <2>2. CASE p # h
    <3>1. W[p] = file[p] \/ W[p] = FreePage
      BY ONLY <1>7, <2>2, p \in PageId
    <3>2. RoomKept(file, p)
      BY <1>4
    <3> QED BY ONLY <3>1, <3>2 DEF RoomKept
  <2> QED BY <2>1, <2>2
<1>9. \A p \in PageId : p # h /\ W[p].kind = "leaf" /\ W[p].cells = <<>> => p = Root
  BY ONLY <1>4, <1>6, <1>7
<1>10. \A p \in PageId : file[p].kind = "interior" => W[p] = file[p]
  BY ONLY <1>3, <1>7
<1>11. \E ht, span : Structure(Cells, W, Root, hole, ht, span)
  <2>1. PICK ht, span : Structure(Cells, file, Root, NoPage, ht, span)
    BY AtRest
  <2>2. DOMAIN W = PageId
    BY ONLY <1>2
  <2>3. Node(Cells, PageId, W[h])
    BY ONLY <1>3, <1>5 DEF Node
  <2>4. \A y \in PageId \ {h} : IF TreePage(file, y) THEN W[y] = file[y] ELSE ~TreePage(W, y)
    BY ONLY <1>6, <1>7 DEF TreePage
  <2>5. \A i \in 1 .. Len(W[h].cells) : \E j \in 1 .. Len(file[h].cells) : file[h].cells[j].key = W[h].cells[i].key
    <3>1. \A i \in 1 .. Len(Left(r)) : \E j \in 1 .. Len(file[Home(r)].cells) : file[Home(r)].cells[j] = Left(r)[i]
      BY LeftFacts
    <3> QED BY ONLY <1>5, <3>1 DEF h
  <2>6. LeafWrites(Cells, file, W, h, {}, r)
    BY ONLY <1>3, <1>4, <1>5, <2>2, <2>3, <2>4, <2>5 DEF LeafWrites
  <2>7. Structure(Cells, W, Root, hole, ht, WaySpan(span, {}, r))
    BY ONLY <1>4, <2>1, <2>6, LeafKeeps
  <2> QED BY <2>7
<1>12. RowsTyped(WithoutRow(rows, r)) /\ Stored(W, WithoutRow(rows, r))
  <2>1. ChainFreed(file, W, ch[r])
    <3>1. ASSUME NEW p \in PageId, file[p].kind = "overflow" PROVE W[p] = file[p] \/ OwnPage(ch[r], p)
      BY ONLY <1>2, <1>3, <3>1, p \in PageId
    <3>2. ASSUME NEW p \in PageId, W[p].kind = "overflow" PROVE file[p].kind = "overflow" /\ ~OwnPage(ch[r], p)
      BY ONLY <1>2, <1>3, <1>5, <1>6, <3>2, p \in PageId
    <3> QED BY ONLY <3>1, <3>2 DEF ChainFreed, OwnPage
  <2> QED BY ONLY <1>1, <1>3, <1>4, <1>16, <2>1, RowRemoved
<1> QED BY ONLY <1>2, <1>8, <1>9, <1>10, <1>11, <1>12 DEF W, h

\* The row is deleted, and a leaf left empty is about to be unlinked.
LEMMA DeleteKeeps ==
  ASSUME Inv, NEW r \in Rowid, Delete(r)
  PROVE  Inv'
<1> DEFINE W == Gone(r)  h == Home(r)  path == FindLeaf(r)
           emptied == Left(r) = <<>> /\ h # Root
           gone == [kind |-> "unlink", path |-> path, level |-> Len(path) - 1,
                    separator |-> 0, left |-> h, right |-> NoPage]
<1>1. op = Idle /\ Search(r)
  BY DEF Delete
<1>2. file' = W
  BY DEF Delete, Gone, Home, HomeAt, Left
<1>3. rows' = WithoutRow(rows, r) /\ removed' = [rowid |-> r, payload |-> rows[r]]
  BY DEF Delete, WithoutRow
<1>4. op' = IF emptied THEN gone ELSE Idle
  <2>1. op' = IF emptied THEN [Idle EXCEPT !.kind = "unlink", !.path = path, !.level = Len(path) - 1, !.left = h]
              ELSE Idle
    BY DEF Delete, Home, HomeAt, Left
  <2>2. PICK a, b, c : a = path /\ b = Len(path) - 1 /\ c = h
    OBVIOUS
  <2>3. Idle = [kind |-> "idle", path |-> <<>>, level |-> 0, separator |-> 0, left |-> NoPage, right |-> NoPage]
    BY DEF Idle
  <2>4. op' = IF emptied THEN [Idle EXCEPT !.kind = "unlink", !.path = a, !.level = b, !.left = c] ELSE Idle
    BY ONLY <2>1, <2>2
  <2>5. gone = [kind |-> "unlink", path |-> a, level |-> b, separator |-> 0, left |-> c, right |-> NoPage]
    BY ONLY <2>2
  <2>6. PICK u, v, w : u = "idle" /\ v = <<>> /\ w = 0
    OBVIOUS
  <2>7. Idle = [kind |-> u, path |-> v, level |-> w, separator |-> w, left |-> NoPage, right |-> NoPage]
    BY ONLY <2>3, <2>6
  <2>8. [Idle EXCEPT !.kind = "unlink", !.path = a, !.level = b, !.left = c]
           = [kind |-> "unlink", path |-> a, level |-> b, separator |-> w, left |-> c, right |-> NoPage]
    <3>1. PICK j : j = [Idle EXCEPT !.kind = "unlink"]
      OBVIOUS
    <3>2. j = [kind |-> "unlink", path |-> v, level |-> w, separator |-> w, left |-> NoPage, right |-> NoPage]
      BY ONLY <2>7, <3>1
    <3>3. PICK l : l = [j EXCEPT !.path = a]
      OBVIOUS
    <3>4. l = [kind |-> "unlink", path |-> a, level |-> w, separator |-> w, left |-> NoPage, right |-> NoPage]
      BY ONLY <3>2, <3>3
    <3>5. PICK n : n = [l EXCEPT !.level = b]
      OBVIOUS
    <3>6. n = [kind |-> "unlink", path |-> a, level |-> b, separator |-> w, left |-> NoPage, right |-> NoPage]
      BY ONLY <3>4, <3>5
    <3>7. [n EXCEPT !.left = c]
             = [kind |-> "unlink", path |-> a, level |-> b, separator |-> w, left |-> c, right |-> NoPage]
      BY ONLY <3>6
    <3> QED BY ONLY <3>1, <3>3, <3>5, <3>7
  <2> HIDE DEF gone, emptied, path, h
  <2> QED BY ONLY <2>4, <2>5, <2>6, <2>8
<1>5. /\ W = [p \in PageId |-> W[p]] /\ W[h] = Leaf(Left(r))
      /\ \A p \in PageId : RoomKept(W, p)
      /\ \A p \in PageId : p # h /\ W[p].kind = "leaf" /\ W[p].cells = <<>> => p = Root
      /\ \A p \in PageId : file[p].kind = "interior" => W[p] = file[p]
      /\ \A hole : \E ht, span : Structure(Cells, W, Root, hole, ht, span)
      /\ RowsTyped(WithoutRow(rows, r)) /\ Stored(W, WithoutRow(rows, r))
  BY <1>1, GoneKeeps
<1>6. removed' = Nothing \/ removed'.rowid \in Rowid
  BY <1>3
<1>7. Leaf(Left(r)).cells = Left(r)
  BY DEF Leaf
<1>8. CASE ~emptied
  <2>1. op' = Idle
    BY ONLY <1>4, <1>8
  <2>2. \A p \in PageId : W[p].kind = "leaf" /\ W[p].cells = <<>> => p = Root
    BY ONLY <1>5, <1>7, <1>8
  <2>3. Sound(W, Idle, WithoutRow(rows, r))
    <3>1. PICK ht, span : Structure(Cells, W, Root, NoPage, ht, span)
      BY ONLY <1>5
    <3> HIDE DEF W
    <3> QED BY ONLY <1>5, <2>2, <3>1, RestSound
  <2> QED BY ONLY <1>2, <1>3, <1>6, <2>1, <2>3 DEF Inv
<1>9. CASE emptied
  <2>1. op' = gone
    BY ONLY <1>4, <1>9
  <2>2. Len(path) > 1 /\ Len(path) \in Nat /\ path[1][1] = Root
    <3>1. Leads(Cells, file, Root, r, path)
      BY <1>1, FindLeafLeads, Constants
    <3>2. Len(path) \in Nat /\ Len(path) >= 1 /\ path[1][1] = Root /\ Last(path) = path[Len(path)]
      BY ONLY <3>1, LeadsFacts
    <3>3. h = path[Len(path)][1]
      BY ONLY <3>2 DEF h, Home
    <3>4. ASSUME Len(path) = 1 PROVE FALSE
      BY ONLY <1>9, <3>2, <3>3, <3>4 DEF emptied
    <3> QED BY ONLY <3>2, <3>4
  <2>3. /\ path \in Seq(PageId \X Nat)
        /\ \A i \in 1 .. Len(path) - 1 : Edge(file, path[i][1], path[i][2], path[i + 1][1])
        /\ Edge(file, ParentOf(r)[1], ParentOf(r)[2], h)
        /\ Node(Cells, PageId, file[ParentOf(r)[1]])
        /\ ParentOf(r)[1] \in PageId /\ file[ParentOf(r)[1]].kind = "interior"
    BY <1>1, <2>2, ParentFacts
  <2>4. h \in PageId
    BY <1>1, HomeFacts
  <2>5. At(gone) = ParentOf(r)[1] /\ SlotAt(gone) = ParentOf(r)[2]
    BY DEF At, SlotAt, ParentOf
  <2>6. HoleOf(gone) = h /\ gone.kind = "unlink"
    BY DEF HoleOf
  <2>7. FilePages(W, gone)
    BY ONLY <1>5, <2>6 DEF FilePages
  <2>8. W[h] = Leaf(<<>>)
    BY ONLY <1>5, <1>9
  <2>9. OpUnderWay(W, gone)
    <3>1. gone \in OpType
      <4>1. Len(path) - 1 \in Nat /\ 0 \in Nat
        BY ONLY <2>2
      <4> HIDE DEF path, h
      <4> QED BY ONLY <2>3, <2>4, <4>1 DEF OpType
    <3>2. gone.left = h /\ gone.path = path /\ gone.level = Len(path) - 1
      OBVIOUS
    <3>3. OpOnPath(W, gone)
      <4>1. PICK n \in Nat : n = Len(path) - 1
        BY ONLY <2>2
      <4>2. n \in 1 .. Len(path)
        BY ONLY <2>2, <4>1
      <4> HIDE DEF path, h, gone, W
      <4>3. ASSUME NEW i \in 1 .. n - 1 PROVE Edge(W, path[i][1], path[i][2], path[i + 1][1])
        <5>1. i \in 1 .. Len(path) - 1 /\ i \in 1 .. Len(path)
          BY ONLY <2>2, <4>1, <4>2, i \in 1 .. n - 1
        <5>2. Edge(file, path[i][1], path[i][2], path[i + 1][1])
          BY ONLY <2>3, <5>1
        <5>3. path[i][1] \in PageId
          BY ONLY <2>3, <5>1
        <5> QED BY ONLY <1>5, <5>2, <5>3 DEF Edge
      <4>4. W[ParentOf(r)[1]] = file[ParentOf(r)[1]]
        BY ONLY <1>5, <2>3
      <4>5. Edge(W, At(gone), SlotAt(gone), h) /\ Node(Cells, PageId, W[At(gone)])
        BY ONLY <2>3, <2>5, <4>4 DEF Edge
      <4> QED BY ONLY <2>2, <2>4, <3>2, <4>1, <4>2, <4>3, <4>5 DEF OpOnPath
    <3> HIDE DEF gone
    <3> QED BY ONLY <2>6, <2>8, <3>1, <3>2, <3>3 DEF OpUnderWay
  <2>10. Sound(W, gone, WithoutRow(rows, r))
    <3>1. PICK ht, span : Structure(Cells, W, Root, h, ht, span)
      BY ONLY <1>5
    <3> HIDE DEF W, gone, h
    <3> QED BY ONLY <1>5, <2>6, <2>7, <2>9, <3>1, TreeSound
  <2> HIDE DEF W, gone
  <2> QED BY ONLY <1>2, <1>3, <1>6, <2>1, <2>10 DEF Inv
<1> QED BY <1>8, <1>9

-----------------------------------------------------------------------------
(* Unlinking empty pages *)

\* Pages that hold no row's cell may change as they like.
Rowless(F, p) == F[p].kind # "leaf" \/ F[p].cells = <<>>
\* The rows stay, whatever becomes of pages that hold none.
LEMMA RowlessChange ==
  ASSUME NEW F, NEW G, \A p \in PageId : F[p] = G[p] \/ (Rowless(F, p) /\ Rowless(G, p))
  PROVE  LeafCells(F) = LeafCells(G)
<1>1. ASSUME NEW p \in PageId, NEW i \in Nat, NEW c PROVE LeafCell(F, p, i, c) <=> LeafCell(G, p, i, c)
  <2>1. CASE F[p] = G[p]
    BY ONLY <2>1 DEF LeafCell
  <2>2. CASE Rowless(F, p) /\ Rowless(G, p)
    BY ONLY <2>2 DEF LeafCell, Rowless
  <2> QED BY <2>1, <2>2
<1> QED BY ONLY <1>1 DEF LeafCells

\* Sorted cells stay sorted when one goes, and each was there before.
LEMMA RemovalSorted ==
  ASSUME NEW C, NEW c \in Seq(C), Sorted(c), NEW s \in 1 .. Len(c), NEW d, Len(d) = Len(c) - 1, IsRemoval(c, s, d)
  PROVE  /\ Sorted(d)
         /\ \A i \in 1 .. Len(d) : i < s => d[i] = c[i]
         /\ \A i \in 1 .. Len(d) : i >= s => d[i] = c[i + 1]
<1>0. Len(c) \in Nat /\ s \in Nat
  OBVIOUS
<1>1. ASSUME NEW i \in 1 .. Len(d), i < s PROVE d[i] = c[i]
  <2>1. i \in 1 .. s - 1
    BY ONLY <1>0, <1>1, Len(d) = Len(c) - 1, i \in 1 .. Len(d)
  <2> QED BY ONLY <2>1, IsRemoval(c, s, d) DEF IsRemoval
<1>2. ASSUME NEW i \in 1 .. Len(d), i >= s PROVE d[i] = c[i + 1]
  <2>1. i \in s .. Len(c) - 1
    BY ONLY <1>0, <1>2, Len(d) = Len(c) - 1, i \in 1 .. Len(d)
  <2> QED BY ONLY <2>1, IsRemoval(c, s, d) DEF IsRemoval
<1>3. ASSUME NEW i \in 1 .. Len(d), NEW j \in 1 .. Len(d), i < j PROVE d[i].key < d[j].key
  <2>1. PICK x \in 1 .. Len(c) : x = IF i < s THEN i ELSE i + 1
    BY ONLY <1>0, Len(d) = Len(c) - 1, i \in 1 .. Len(d)
  <2>2. PICK y \in 1 .. Len(c) : y = IF j < s THEN j ELSE j + 1
    BY ONLY <1>0, Len(d) = Len(c) - 1, j \in 1 .. Len(d)
  <2>3. d[i] = c[x]
    BY ONLY <1>0, <1>1, <1>2, <2>1, Len(d) = Len(c) - 1, i \in 1 .. Len(d)
  <2>4. d[j] = c[y]
    BY ONLY <1>0, <1>1, <1>2, <2>2, Len(d) = Len(c) - 1, j \in 1 .. Len(d)
  <2>5. x < y
    BY ONLY <1>0, <1>3, <2>1, <2>2, Len(d) = Len(c) - 1, i \in 1 .. Len(d), j \in 1 .. Len(d)
  <2> QED BY ONLY <2>3, <2>4, <2>5, Sorted(c), x \in 1 .. Len(c), y \in 1 .. Len(c) DEF Sorted
<1> QED BY <1>1, <1>2, <1>3 DEF Sorted

\* What routed past the slot of the cell that goes, or short of it, still does.
LEMMA RemovalRoutes ==
  ASSUME NEW C, CellSet(C), NEW c \in Seq(C), Sorted(c), NEW t \in 1 .. Len(c), NEW d, Len(d) = Len(c) - 1,
         IsRemoval(c, t, d), NEW z \in Nat, NEW i \in 1 .. Len(c) + 1, Routes(c, i, z)
  PROVE  (i <= t => Routes(d, i, z)) /\ (i > t => Routes(d, i - 1, z))
<1>0. Len(c) \in Nat /\ t \in Nat /\ i \in Nat
  OBVIOUS
<1>1. /\ \A j \in 1 .. Len(d) : j < t => d[j] = c[j]
      /\ \A j \in 1 .. Len(d) : j >= t => d[j] = c[j + 1]
  BY RemovalSorted
<1>2. /\ \A j \in 1 .. Len(c) : j < i => c[j].key < z
      /\ \A j \in 1 .. Len(c) : j >= i => z <= c[j].key
  <2>1. \A j \in 1 .. Len(c) : j < i \/ j >= i
    BY ONLY <1>0
  <2> QED BY ONLY <1>0, Routes(c, i, z) DEF Routes
<1>3. ASSUME i <= t PROVE Routes(d, i, z)
  <2>1. ASSUME NEW j \in 1 .. Len(d), j < i PROVE d[j].key < z
    <3>1. j \in 1 .. Len(c) /\ j < t
      BY ONLY <1>0, <1>3, <2>1, Len(d) = Len(c) - 1, j \in 1 .. Len(d)
    <3> QED BY ONLY <1>1, <1>2, <2>1, <3>1, j \in 1 .. Len(d)
  <2>2. ASSUME NEW j \in 1 .. Len(d), ~(j < i) PROVE z <= d[j].key
    <3>1. PICK x \in 1 .. Len(c) : x = IF j < t THEN j ELSE j + 1
      BY ONLY <1>0, Len(d) = Len(c) - 1, j \in 1 .. Len(d)
    <3>2. d[j] = c[x]
      BY ONLY <1>0, <1>1, <3>1, Len(d) = Len(c) - 1, j \in 1 .. Len(d)
    <3>3. x >= i
      BY ONLY <1>0, <2>2, <3>1, Len(d) = Len(c) - 1, j \in 1 .. Len(d)
    <3> QED BY ONLY <1>2, <3>2, <3>3, x \in 1 .. Len(c)
  <2> QED BY ONLY <2>1, <2>2 DEF Routes
<1>4. ASSUME i > t PROVE Routes(d, i - 1, z)
  <2>0. PICK k \in Nat : k = i - 1
    BY ONLY <1>0, <1>4
  <2>1. ASSUME NEW j \in 1 .. Len(d), j < k PROVE d[j].key < z
    <3>1. PICK x \in 1 .. Len(c) : x = IF j < t THEN j ELSE j + 1
      BY ONLY <1>0, Len(d) = Len(c) - 1, j \in 1 .. Len(d)
    <3>2. d[j] = c[x]
      BY ONLY <1>0, <1>1, <3>1, Len(d) = Len(c) - 1, j \in 1 .. Len(d)
    <3>3. x < i
      BY ONLY <1>0, <2>0, <2>1, <3>1, Len(d) = Len(c) - 1, j \in 1 .. Len(d)
    <3> QED BY ONLY <1>2, <3>2, <3>3, x \in 1 .. Len(c)
  <2>2. ASSUME NEW j \in 1 .. Len(d), ~(j < k) PROVE z <= d[j].key
    <3>1. PICK x \in 1 .. Len(c) : x = j + 1
      BY ONLY <1>0, Len(d) = Len(c) - 1, j \in 1 .. Len(d)
    <3>2. j >= t /\ x >= i
      BY ONLY <1>0, <1>4, <2>0, <2>2, <3>1, Len(d) = Len(c) - 1, j \in 1 .. Len(d)
    <3>3. d[j] = c[x]
      BY ONLY <1>1, <3>1, <3>2, j \in 1 .. Len(d)
    <3> QED BY ONLY <1>2, <3>2, <3>3, x \in 1 .. Len(c)
  <2>3. Routes(d, k, z)
    BY ONLY <2>1, <2>2 DEF Routes
  <2> QED BY ONLY <2>0, <2>3
<1> QED BY <1>3, <1>4

\* The parent without the child at the slot.
LEMMA ChildlessParent ==
  ASSUME NEW pg, Node(Cells, PageId, pg), pg.kind = "interior", NEW s \in 1 .. Len(pg.kids),
         NEW new, new = WithoutChild(pg, s)
  PROVE  /\ ChildGone(Cells, PageId, pg, new, s) /\ new.kind = "interior"
         /\ new.kids = <<>> => Childless(new) /\ Len(pg.kids) = 1 /\ s = 1
         /\ Childless(new) => new.kids = <<>>
         /\ Units(pg.cells) => Units(new.cells)
         /\ Len(new.cells) <= Len(pg.cells)
<1> DEFINE c == pg.cells  kids == pg.kids
<1>1. c \in Seq(Cells) /\ Sorted(c) /\ kids \in Seq(PageId) /\ Len(kids) = Len(c) + 1 /\ Len(c) \in Nat
  BY DEF Node
<1>2. CellSet(Cells)
  BY Constants
<1>3. \A a, b : Interior(a, b).kind = "interior" /\ Interior(a, b).cells = a /\ Interior(a, b).kids = b
  BY DEF Interior
<1>6. s \in 1 .. Len(kids)
  OBVIOUS
<1>4. CASE c = <<>>
  <2>1. new = Interior(<<>>, <<>>)
    BY <1>4 DEF WithoutChild
  <2>2. Len(c) = 0 /\ Len(kids) = 1 /\ s = 1
    BY ONLY <1>1, <1>4, s \in 1 .. Len(kids)
  <2>3. Childless(new) /\ new.kids = <<>> /\ new.cells = <<>> /\ new.kind = "interior"
    BY ONLY <1>3, <2>1 DEF Childless
  <2>4. Len(new.cells) = 0 /\ Len(new.kids) = 0
    BY ONLY <2>3
  <2>5. IsRemoval(kids, s, new.kids)
    BY ONLY <2>2 DEF IsRemoval
  <2>6. \A i \in 1 .. Len(kids) : i = s
    BY ONLY <2>2
  <2>7. ChildGone(Cells, PageId, pg, new, s)
    BY ONLY <2>2, <2>3, <2>4, <2>5, <2>6 DEF ChildGone
  <2> QED BY ONLY <2>2, <2>3, <2>4, <2>7 DEF Units
<1>5. CASE c # <<>>
  <2> DEFINE t == IF s <= Len(c) THEN s ELSE Len(c)
             d == WithoutCell(c, t)  left == RemoveAt(kids, s)
  <2>1. new = Interior(d, left)
    BY <1>5 DEF WithoutChild
  <2>2. Len(c) >= 1
    BY ONLY <1>1, <1>5
  <2>3. t \in 1 .. Len(c) /\ s \in Nat /\ (s <= Len(c) => t = s) /\ (s > Len(c) => t = Len(c))
    BY ONLY <1>1, <2>2, s \in 1 .. Len(kids)
  <2> HIDE DEF t
  <2>4. d \in Seq(Cells) /\ Len(d) = Len(c) - 1 /\ IsRemoval(c, t, d)
    BY ONLY <1>1, <2>3, WithoutFacts DEF WithoutCell
  <2>5. left \in Seq(PageId) /\ Len(left) = Len(kids) - 1 /\ IsRemoval(kids, s, left)
    BY ONLY <1>1, s \in 1 .. Len(kids), WithoutFacts
  <2> HIDE DEF c, kids, d, left
  <2>6. /\ Sorted(d)
        /\ \A i \in 1 .. Len(d) : i < t => d[i] = c[i]
        /\ \A i \in 1 .. Len(d) : i >= t => d[i] = c[i + 1]
    BY ONLY <1>1, <2>3, <2>4, RemovalSorted
  <2>7. new.kind = "interior" /\ new.cells = d /\ new.kids = left
    BY ONLY <1>3, <2>1
  <2>8. Node(Cells, PageId, new)
    BY ONLY <1>1, <2>4, <2>5, <2>6, <2>7 DEF Node
  <2>9. \A i \in 1 .. Len(d) : \E j \in 1 .. Len(c) : c[j] = d[i]
    <3> SUFFICES ASSUME NEW i \in 1 .. Len(d) PROVE \E j \in 1 .. Len(c) : c[j] = d[i]
      OBVIOUS
    <3>1. PICK x \in 1 .. Len(c) : x = IF i < t THEN i ELSE i + 1
      BY ONLY <1>1, <2>4, i \in 1 .. Len(d)
    <3>2. d[i] = c[x]
      BY ONLY <1>1, <2>3, <2>4, <2>6, <3>1, i \in 1 .. Len(d)
    <3> QED BY ONLY <3>2, x \in 1 .. Len(c)
  <2>10. ASSUME NEW z \in Nat, NEW i \in 1 .. Len(kids), Routes(c, i, z)
         PROVE (i < s => Routes(d, i, z)) /\ (i > s => Routes(d, i - 1, z))
    <3>1. i \in 1 .. Len(c) + 1
      BY ONLY <1>1, i \in 1 .. Len(kids)
    <3>2. (i <= t => Routes(d, i, z)) /\ (i > t => Routes(d, i - 1, z))
      BY ONLY <1>1, <1>2, <2>3, <2>4, <2>10, <3>1, z \in Nat, RemovalRoutes
    <3>3. (i < s => i <= t) /\ (i > s => i > t)
      BY ONLY <1>1, <1>6, <2>3, <3>1
    <3> QED BY ONLY <3>2, <3>3
  <2>11. Len(left) > 0
    BY ONLY <1>1, <2>2, <2>5
  <2>12. left # <<>>
    BY ONLY <2>11
  <2>13. ~Childless(new)
    BY ONLY <1>3, <2>7, <2>12 DEF Childless
  <2>14. ChildGone(Cells, PageId, pg, new, s)
    BY ONLY <2>5, <2>7, <2>8, <2>9, <2>10 DEF ChildGone, c, kids
  <2>15. Units(c) => Units(d)
    BY ONLY <2>9 DEF Units
  <2>16. Len(d) <= Len(c)
    BY ONLY <1>1, <2>4
  <2> QED BY ONLY <2>7, <2>12, <2>13, <2>14, <2>15, <2>16 DEF c
<1> QED BY <1>4, <1>5

\* What the unlinking loop finds at this level.
LEMMA UnlinkFacts ==
  ASSUME Inv, op.kind = "unlink"
  PROVE  /\ Here = At(op) /\ Here \in PageId /\ op.left \in PageId /\ op.level \in Nat /\ op.level >= 1
         /\ op \in OpType /\ OpOnPath(file, op)
         /\ Node(Cells, PageId, file[Here]) /\ file[Here].kind = "interior"
         /\ Edge(file, Here, SlotAt(op), op.left) /\ SlotAt(op) \in 1 .. Len(file[Here].kids)
         /\ op.left # Here /\ op.left # Root
         /\ Rowless(file, op.left) /\ file[op.left].kids = <<>> /\ TreePage(file, op.left)
         /\ \A i \in Nat, y \in PageId : ~Edge(file, op.left, i, y)
         /\ \E ht, span : Structure(Cells, file, Root, op.left, ht, span)
         /\ file = [p \in PageId |-> file[p]] /\ DOMAIN file = PageId
         /\ \A p \in PageId : RoomKept(file, p)
         /\ \A p \in PageId : file[p].kind = "leaf" /\ file[p].cells = <<>> => p = Root \/ p = op.left
         /\ RowsTyped(rows) /\ Stored(file, rows)
<1>1. /\ FilePages(file, op) /\ OpUnderWay(file, op) /\ RowsTyped(rows) /\ Shaped(file, op) /\ Stored(file, rows)
  BY DEF Inv, Sound
<1>2. TreeOf(file, op) = file /\ HoleOf(op) = op.left
  BY DEF TreeOf, HoleOf
<1>3. \E ht, span : Structure(Cells, file, Root, op.left, ht, span)
  BY ONLY <1>1, <1>2, Zenon DEF Shaped
<1>4. /\ file = [p \in PageId |-> file[p]]
      /\ \A p \in PageId : RoomKept(file, p)
      /\ \A p \in PageId : file[p].kind = "leaf" /\ file[p].cells = <<>> => p = Root \/ p = op.left
  BY ONLY <1>1, <1>2 DEF FilePages
<1>5. op \in OpType /\ OpOnPath(file, op) /\ (file[op.left] = Leaf(<<>>) \/ Childless(file[op.left]))
  BY ONLY <1>1, op.kind = "unlink" DEF OpUnderWay
<1>6. Here = At(op)
  BY DEF Here, At
<1>7. op.path \in Seq(PageId \X Nat) /\ op.level \in Nat /\ op.level \in 1 .. Len(op.path)
  BY ONLY <1>5 DEF OpType, OpOnPath
<1>8. At(op) \in PageId /\ SlotAt(op) \in Nat
  <2>1. op.path[op.level] \in PageId \X Nat
    BY ONLY <1>7
  <2> QED BY ONLY <2>1 DEF At, SlotAt
<1>9. op.left \in PageId /\ Edge(file, At(op), SlotAt(op), op.left) /\ Node(Cells, PageId, file[At(op)])
  BY ONLY <1>5 DEF OpOnPath
<1>10. file[At(op)].kind = "interior" /\ SlotAt(op) \in 1 .. Len(file[At(op)].kids)
  BY ONLY <1>9 DEF Edge
<1>11. Rowless(file, op.left) /\ file[op.left].kids = <<>>
  BY ONLY <1>5 DEF Rowless, Leaf, Childless, Interior
<1>12. \A i \in Nat, y \in PageId : ~Edge(file, op.left, i, y)
  <2>1. \A i \in 1 .. Len(file[op.left].kids) : FALSE
    BY ONLY <1>11
  <2> QED BY ONLY <2>1 DEF Edge
<1>13. DOMAIN file = PageId
  BY ONLY <1>4
<1>14. op.left # At(op) /\ op.left # Root /\ TreePage(file, op.left)
  <2>1. PICK ht, span : Structure(Cells, file, Root, op.left, ht, span)
    BY ONLY <1>3
  <2>2. Heights(file, Root, ht) /\ Parents(file, Root)
    BY ONLY <2>1 DEF Structure
  <2>3. TreePage(file, op.left) /\ op.left # Root
    BY ONLY <1>8, <1>9, <1>13, <2>2 DEF Heights, Parents
  <2> QED BY ONLY <1>8, <1>9, <1>12, <2>3
<1>15. op.level >= 1
  BY ONLY <1>7
<1> QED BY ONLY <1>1, <1>3, <1>4, <1>5, <1>6, <1>7, <1>8, <1>9, <1>10, <1>11, <1>12, <1>13, <1>14, <1>15

\* The parent's cells never outgrow the room, and the rows stay where they are.
LEMMA UnlinkRooms ==
  ASSUME Inv, op.kind = "unlink", NEW W, NEW x,
         W = [file EXCEPT ![Here] = x, ![op.left] = FreePage],
         x = WithoutChild(file[Here], SlotAt(op)) \/ (x = Leaf(<<>>) /\ Here = Root)
  PROVE  /\ W = [p \in PageId |-> W[p]] /\ DOMAIN W = PageId
         /\ W[Here] = x /\ W[op.left] = FreePage /\ ~TreePage(W, op.left)
         /\ \A p \in PageId \ {Here, op.left} : W[p] = file[p]
         /\ \A p \in PageId : RoomKept(W, p)
         /\ \A p \in PageId : W[p].kind = "leaf" /\ W[p].cells = <<>> => p = Root
         /\ Stored(W, rows)
<1>1. /\ Here \in PageId /\ op.left \in PageId /\ op.left # Here
      /\ Node(Cells, PageId, file[Here]) /\ file[Here].kind = "interior" /\ SlotAt(op) \in 1 .. Len(file[Here].kids)
      /\ file = [p \in PageId |-> file[p]] /\ DOMAIN file = PageId
      /\ \A p \in PageId : RoomKept(file, p)
      /\ \A p \in PageId : file[p].kind = "leaf" /\ file[p].cells = <<>> => p = Root \/ p = op.left
      /\ Rowless(file, op.left) /\ TreePage(file, op.left) /\ Stored(file, rows)
  BY UnlinkFacts
<1> DEFINE h == Here  l == op.left
<1> HIDE DEF h, l
<1>2. W = [file EXCEPT ![h] = x, ![l] = FreePage]
  BY DEF h, l
<1>3. h \in PageId /\ l \in PageId /\ l # h /\ DOMAIN file = PageId
  BY <1>1 DEF h, l
<1>4. W = [p \in PageId |-> W[p]] /\ DOMAIN W = PageId /\ W[h] = x /\ W[l] = FreePage
  BY ONLY <1>1, <1>2, <1>3
<1>5. \A p \in PageId \ {h, l} : W[p] = file[p]
  BY ONLY <1>1, <1>2, <1>3
<1>6. FreePage.kind = "free"
  BY DEF FreePage
<1>7. x.kind = "interior" \/ (x.kind = "leaf" /\ x.cells = <<>> /\ h = Root)
  <2>1. CASE x = WithoutChild(file[Here], SlotAt(op))
    BY <1>1, <2>1, ChildlessParent
  <2>2. CASE x = Leaf(<<>>) /\ Here = Root
    BY <2>2 DEF Leaf, h
  <2> QED BY <2>1, <2>2
<1>8. RoomKept(W, h)
  <2>1. CASE x = WithoutChild(file[Here], SlotAt(op))
    <3>1. RoomKept(file, Here)
      BY <1>1
    <3>2. Units(file[Here].cells) /\ Len(file[Here].cells) <= NodeRoom
      BY <1>1, <3>1, InteriorRoom
    <3>3. x.kind = "interior" /\ Units(x.cells) /\ Len(x.cells) <= Len(file[Here].cells) /\ ChildGone(Cells, PageId, file[Here], x, SlotAt(op))
      BY <1>1, <2>1, <3>2, ChildlessParent
    <3>4. Len(x.cells) \in Nat
      <4>3. Node(Cells, PageId, x) \/ Childless(x)
        BY ONLY <3>3, Zenon DEF ChildGone
      <4>4. Childless(x) => x.cells = <<>>
        BY ONLY DEF Childless, Interior
      <4>1. Node(Cells, PageId, x) \/ x.cells = <<>>
        BY ONLY <4>3, <4>4
      <4>2. x.cells \in Seq(Cells) \/ x.cells = <<>>
        BY ONLY <4>1, Zenon DEF Node
      <4>5. Len(<<>>) = 0
        OBVIOUS
      <4>6. CASE x.cells \in Seq(Cells)
        BY ONLY <4>6
      <4>7. CASE x.cells = <<>>
        BY ONLY <4>5, <4>7
      <4> QED BY ONLY <4>2, <4>6, <4>7
    <3>5. Len(file[Here].cells) \in Nat /\ NodeRoom \in Nat
      BY <1>1, Constants DEF Node
    <3>6. Len(x.cells) <= NodeRoom
      BY ONLY <3>2, <3>3, <3>4, <3>5
    <3>7. W[h].kind = "interior" /\ Units(W[h].cells) /\ Len(W[h].cells) <= NodeRoom
      BY ONLY <1>4, <3>3, <3>6
    <3> QED BY ONLY <3>7, InteriorRoom
  <2>2. CASE x = Leaf(<<>>)
    <3>1. Used(<<>>) = 0
      <4>1. <<>> \in Seq(Cells) /\ Len(<<>>) = 0 /\ CellSet(Cells)
        BY Constants
      <4> QED BY ONLY <4>1, RunFacts
    <3>2. Used(<<>>) <= LeafRoom
      BY <3>1, Constants
    <3>3. W[h].kind = "leaf" /\ W[h].cells = <<>>
      BY ONLY <1>4, <2>2 DEF Leaf
    <3> QED BY ONLY <3>2, <3>3 DEF RoomKept
  <2> QED BY <2>1, <2>2
<1>9. \A p \in PageId : RoomKept(W, p)
  <2> SUFFICES ASSUME NEW p \in PageId PROVE RoomKept(W, p)
    OBVIOUS
  <2>1. CASE p = l
    BY ONLY <1>4, <2>1 DEF RoomKept
  <2>2. CASE p \notin {h, l}
    <3>1. W[p] = file[p] /\ RoomKept(file, p)
      BY ONLY <1>1, <1>5, <2>2, p \in PageId
    <3> QED BY ONLY <3>1 DEF RoomKept
  <2> QED BY ONLY <1>8, <2>1, <2>2
<1>10. \A p \in PageId : W[p].kind = "leaf" /\ W[p].cells = <<>> => p = Root
  BY ONLY <1>1, <1>3, <1>4, <1>5, <1>6, <1>7 DEF l
<1>11. ~TreePage(W, l)
  BY ONLY <1>4, <1>6 DEF TreePage
<1>12. Stored(W, rows)
  <2>1. LeafCells(W) = LeafCells(file)
    <3>1. Rowless(file, h) /\ Rowless(W, h) /\ Rowless(file, l) /\ Rowless(W, l)
      BY ONLY <1>1, <1>4, <1>6, <1>7 DEF Rowless, h, l
    <3>2. \A p \in PageId : file[p] = W[p] \/ (Rowless(file, p) /\ Rowless(W, p))
      BY ONLY <1>5, <3>1
    <3> QED BY ONLY <3>2, RowlessChange
  <2>2. ChainsAgree(file, W)
    <3>1. file[h].kind # "overflow" /\ file[l].kind # "overflow"
      BY ONLY <1>1 DEF TreePage, h, l
    <3> QED BY ONLY <1>4, <1>5, <1>6, <1>7, <3>1 DEF ChainsAgree
  <2> QED BY ONLY <1>1, <2>1, <2>2, StoredStays
<1> QED BY ONLY <1>4, <1>5, <1>9, <1>10, <1>11, <1>12 DEF h, l

\* The empty page goes and its parent keeps the other children.
LEMMA UnlinkShaped ==
  ASSUME Inv, op.kind = "unlink", NEW W, NEW x, x = WithoutChild(file[Here], SlotAt(op)),
         W = [file EXCEPT ![Here] = x, ![op.left] = FreePage], NEW hole, x.kids = <<>> => hole = Here
  PROVE  \E ht, span : Structure(Cells, W, Root, hole, ht, span)
<1>1. /\ Here \in PageId /\ op.left \in PageId /\ op.left # Here
      /\ Node(Cells, PageId, file[Here]) /\ file[Here].kind = "interior" /\ SlotAt(op) \in 1 .. Len(file[Here].kids)
      /\ DOMAIN file = PageId /\ Edge(file, Here, SlotAt(op), op.left)
      /\ \A i \in Nat, y \in PageId : ~Edge(file, op.left, i, y)
      /\ \E ht, span : Structure(Cells, file, Root, op.left, ht, span)
  BY UnlinkFacts
<1>2. /\ DOMAIN W = PageId /\ W[Here] = x /\ ~TreePage(W, op.left)
      /\ \A p \in PageId \ {Here, op.left} : W[p] = file[p]
  BY UnlinkRooms
<1>3. ChildGone(Cells, PageId, file[Here], x, SlotAt(op)) /\ (Childless(x) => x.kids = <<>>)
  BY <1>1, ChildlessParent
<1>4. PICK ht, span : Structure(Cells, file, Root, op.left, ht, span)
  BY <1>1
<1>5. SlotAt(op) \in Nat
  BY <1>1 DEF Edge
<1>6. \A y \in PageId \ {op.left, Here} : W[y] = file[y]
  BY <1>2
<1>7. Unlinks(Cells, file, W, Here, SlotAt(op), op.left)
  BY ONLY <1>1, <1>2, <1>3, <1>5, <1>6 DEF Unlinks
<1>8. Childless(W[Here]) => hole = Here
  BY <1>2, <1>3
<1>9. Structure(Cells, W, Root, hole, ht, span)
  BY ONLY <1>4, <1>7, <1>8, Constants, UnlinkKeeps
<1> QED BY <1>9

\* The root that loses its only child is an empty leaf again.
LEMMA RootEmptied ==
  ASSUME Inv, op.kind = "unlink", op.level = 1, WithoutChild(file[Here], SlotAt(op)).kids = <<>>,
         NEW W, W = [file EXCEPT ![Here] = Leaf(<<>>), ![op.left] = FreePage]
  PROVE  /\ Here = Root
         /\ \E ht, span : Structure(Cells, W, Root, NoPage, ht, span)
<1>1. /\ Here \in PageId /\ op.left \in PageId /\ op.left # Here /\ Here = At(op) /\ OpOnPath(file, op)
      /\ Node(Cells, PageId, file[Here]) /\ file[Here].kind = "interior" /\ SlotAt(op) \in 1 .. Len(file[Here].kids)
      /\ DOMAIN file = PageId /\ Edge(file, Here, SlotAt(op), op.left)
      /\ \A i \in Nat, y \in PageId : ~Edge(file, op.left, i, y)
      /\ \E ht, span : Structure(Cells, file, Root, op.left, ht, span)
  BY UnlinkFacts
<1>2. Here = Root
  BY <1>1 DEF OpOnPath, At
<1>3. /\ DOMAIN W = PageId /\ W[Here] = Leaf(<<>>) /\ ~TreePage(W, op.left)
      /\ \A p \in PageId \ {Here, op.left} : W[p] = file[p]
  <2>1. FreePage.kind = "free" /\ file = [p \in PageId |-> file[p]]
    BY UnlinkFacts DEF FreePage
  <2>2. W = [file EXCEPT ![Here] = Leaf(<<>>), ![op.left] = FreePage]
    OBVIOUS
  <2> DEFINE l == op.left  h == Here  x == Leaf(<<>>)
  <2> HIDE DEF l, h, x
  <2>3. W = [file EXCEPT ![h] = x, ![l] = FreePage] /\ h \in PageId /\ l \in PageId /\ l # h
    BY <1>1, <2>2 DEF l, h, x
  <2>4. DOMAIN W = PageId /\ W[h] = x /\ W[l] = FreePage /\ \A p \in PageId \ {h, l} : W[p] = file[p]
    BY ONLY <2>1, <2>3
  <2> QED BY ONLY <2>1, <2>4 DEF l, h, x, TreePage
<1>4. Len(file[Here].kids) = 1 /\ SlotAt(op) = 1
  BY <1>1, ChildlessParent
<1>5. PICK ht, span : Structure(Cells, file, Root, op.left, ht, span)
  BY <1>1
<1>6. \A y \in PageId \ {op.left, Root} : W[y] = file[y]
  BY <1>2, <1>3
<1>7. Empties(file, W, Root, op.left)
  BY ONLY <1>1, <1>2, <1>3, <1>4, <1>6 DEF Empties
<1>8. Structure(Cells, W, Root, NoPage, [y \in PageId |-> 0], [y \in PageId |-> {}])
  <2>1. Structure(Cells, W, Root, NoPage, [y \in DOMAIN file |-> 0], [y \in DOMAIN file |-> {}])
    BY ONLY <1>5, <1>7, EmptyKeeps
  <2> QED BY <1>1, <2>1
<1>9. \E hh, ss : Structure(Cells, W, Root, NoPage, hh, ss)
  BY ONLY <1>8, Zenon
<1> QED BY <1>2, <1>9

\* One level of the unlinking.
LEMMA UnlinkStepKeeps ==
  ASSUME Inv, Unlink
  PROVE  Inv'
<1> DEFINE parent == WithoutChild(file[Here], SlotAt(op))
           W(x) == [file EXCEPT ![Here] = x, ![op.left] = FreePage]
           done == op.level = 1 \/ parent.kids # <<>>
<1>1. op.kind = "unlink" /\ rows' = rows /\ removed' = removed
  BY DEF Unlink
<1>2. file' = W(IF op.level = 1 /\ parent.kids = <<>> THEN Leaf(<<>>) ELSE parent)
  BY DEF Unlink, SlotAt
<1>3. op' = IF done THEN Idle ELSE [op EXCEPT !.level = @ - 1, !.left = Here]
  BY DEF Unlink, SlotAt
<1>4. RowsTyped(rows) /\ (removed' = Nothing \/ removed'.rowid \in Rowid)
  BY <1>1, UnlinkFacts DEF Inv
<1>5. CASE done
  <2>1. \E x : /\ file' = W(x) /\ (x = parent \/ (x = Leaf(<<>>) /\ Here = Root))
               /\ \E ht, span : Structure(Cells, W(x), Root, NoPage, ht, span)
    <3>1. CASE op.level = 1 /\ parent.kids = <<>>
      <4>1. file' = W(Leaf(<<>>))
        BY <1>2, <3>1
      <4>2. Here = Root /\ \E ht, span : Structure(Cells, W(Leaf(<<>>)), Root, NoPage, ht, span)
        BY <1>1, <3>1, RootEmptied
      <4> QED BY <4>1, <4>2
    <3>2. CASE ~(op.level = 1 /\ parent.kids = <<>>)
      <4>1. file' = W(parent) /\ parent.kids # <<>>
        BY <1>2, <1>5, <3>2
      <4>2. \E ht, span : Structure(Cells, W(parent), Root, NoPage, ht, span)
        BY <1>1, <4>1, UnlinkShaped
      <4> QED BY <4>1, <4>2
    <3> QED BY <3>1, <3>2
  <2>2. PICK x : /\ file' = W(x) /\ (x = parent \/ (x = Leaf(<<>>) /\ Here = Root))
                 /\ \E ht, span : Structure(Cells, W(x), Root, NoPage, ht, span)
    BY <2>1
  <2>3. /\ W(x) = [p \in PageId |-> W(x)[p]]
        /\ \A p \in PageId : RoomKept(W(x), p)
        /\ \A p \in PageId : W(x)[p].kind = "leaf" /\ W(x)[p].cells = <<>> => p = Root
        /\ Stored(W(x), rows)
    BY <1>1, <2>2, UnlinkRooms
  <2>4. PICK ht, span : Structure(Cells, W(x), Root, NoPage, ht, span)
    BY <2>2
  <2> HIDE DEF W
  <2>5. Sound(W(x), Idle, rows)
    BY ONLY <1>4, <2>3, <2>4, RestSound
  <2> QED BY ONLY <1>1, <1>3, <1>4, <1>5, <2>2, <2>5 DEF Inv
<1>6. CASE ~done
  <2> DEFINE V == W(parent)  v == op.level  pa == op.path  here == Here
             o == [op EXCEPT !.level = @ - 1, !.left = Here]
  <2>1. file' = V /\ op' = o /\ parent.kids = <<>> /\ v # 1
    BY <1>2, <1>3, <1>6
  <2>2. /\ here = At(op) /\ here \in PageId /\ v \in Nat /\ v >= 1 /\ op \in OpType /\ OpOnPath(file, op)
        /\ op.left \in PageId /\ op.left # here /\ file[here].kind = "interior"
        /\ Node(Cells, PageId, file[here]) /\ SlotAt(op) \in 1 .. Len(file[here].kids)
        /\ \A i \in Nat, y \in PageId : ~Edge(file, op.left, i, y)
        /\ DOMAIN file = PageId
        /\ \E ht, span : Structure(Cells, file, Root, op.left, ht, span)
    BY <1>1, UnlinkFacts
  <2>3. /\ V = [p \in PageId |-> V[p]] /\ V[here] = parent
        /\ \A p \in PageId \ {here, op.left} : V[p] = file[p]
        /\ \A p \in PageId : RoomKept(V, p)
        /\ \A p \in PageId : V[p].kind = "leaf" /\ V[p].cells = <<>> => p = Root
        /\ Stored(V, rows)
    BY <1>1, UnlinkRooms
  <2>4. \E ht, span : Structure(Cells, V, Root, here, ht, span)
    BY <1>1, UnlinkShaped
  <2>5. Childless(V[here])
    BY <2>1, <2>2, <2>3, ChildlessParent
  <2>6. /\ o.kind = "unlink" /\ o.path = pa /\ o.left = here /\ o.level = v - 1 /\ o \in OpType
    <3>1. op = [kind |-> op.kind, path |-> op.path, level |-> op.level, separator |-> op.separator,
                left |-> op.left, right |-> op.right]
      BY <2>2 DEF OpType
    <3>2. PICK k, l : k = v - 1 /\ l = here
      OBVIOUS
    <3>3. o = [op EXCEPT !.level = k, !.left = l]
      BY <3>2
    <3>4. k \in Nat /\ l \in PageId
      BY ONLY <2>1, <2>2, <3>2
    <3> HIDE DEF o, here
    <3>5. o = [kind |-> op.kind, path |-> pa, level |-> k, separator |-> op.separator, left |-> l, right |-> op.right]
      BY ONLY <3>1, <3>3
    <3>6. o \in OpType
      BY ONLY <2>2, <3>4, <3>5 DEF OpType
    <3> QED BY ONLY <1>1, <3>2, <3>5, <3>6
  <2>7. HoleOf(o) = here
    BY ONLY <2>6 DEF HoleOf
  <2>8. FilePages(V, o)
    BY ONLY <2>3, <2>7 DEF FilePages
  <2> HIDE DEF V, o
  <2>9. OpOnPath(V, o)
    <3>1. pa \in Seq(PageId \X Nat) /\ v \in 1 .. Len(pa) /\ Len(pa) \in Nat
      BY <2>2 DEF OpType, OpOnPath
    <3>2. \A j \in 1 .. Len(pa) : pa[j][1] \in PageId /\ pa[j][2] \in Nat
      <4> TAKE j \in 1 .. Len(pa)
      <4>1. pa[j] \in PageId \X Nat
        BY <3>1
      <4> QED BY ONLY <4>1
    <3>3. /\ pa[1][1] = Root
          /\ \A i \in 1 .. v - 1 : Edge(file, pa[i][1], pa[i][2], pa[i + 1][1])
      BY <2>2 DEF OpOnPath
    <3>4. pa[v][1] = here
      BY <2>2 DEF At
    <3>5. ASSUME NEW i \in 1 .. v - 1 PROVE pa[i][1] # here /\ pa[i][1] # op.left
      <4>1. pa[i][1] # here
        <5>1. PICK ht, span : Structure(Cells, file, Root, op.left, ht, span)
          BY <2>2
        <5>2. TreeOf(file, op) = file /\ HoleOf(op) = op.left /\ op.kind # "idle"
          BY <1>1 DEF TreeOf, HoleOf
        <5>3. Structure(Cells, TreeOf(file, op), Root, HoleOf(op), ht, span)
          BY ONLY <5>1, <5>2
        <5> QED BY <2>2, <5>2, <5>3, PathHeights
      <4>2. i \in 1 .. Len(pa) /\ i + 1 \in 1 .. Len(pa)
        BY ONLY <3>1, i \in 1 .. v - 1
      <4>3. Edge(file, pa[i][1], pa[i][2], pa[i + 1][1])
        BY <3>3
      <4>4. pa[i][1] \in PageId /\ pa[i][2] \in Nat /\ pa[i + 1][1] \in PageId
        BY ONLY <3>2, <4>2
      <4>5. pa[i][1] # op.left
        BY ONLY <2>2, <4>3, <4>4
      <4> QED BY <4>1, <4>5
    <3> HIDE DEF pa, v, here
    <3>6. ASSUME NEW i \in 1 .. v - 1
          PROVE  Edge(V, pa[i][1], pa[i][2], pa[i + 1][1]) /\ V[pa[i][1]] = file[pa[i][1]] /\ pa[i][1] \in PageId
      <4>1. i \in 1 .. Len(pa)
        BY ONLY <3>1, i \in 1 .. v - 1
      <4>2. V[pa[i][1]] = file[pa[i][1]] /\ pa[i][1] \in PageId
        BY ONLY <2>3, <3>2, <3>5, <4>1, i \in 1 .. v - 1
      <4>3. Edge(file, pa[i][1], pa[i][2], pa[i + 1][1])
        BY ONLY <3>3, i \in 1 .. v - 1
      <4> QED BY ONLY <4>2, <4>3 DEF Edge
    <3>7. PICK k \in Nat : k = v - 1
      BY ONLY <2>1, <2>2
    <3>8. k \in 1 .. v - 1 /\ k \in 1 .. Len(pa) /\ k + 1 = v
      BY ONLY <2>1, <2>2, <3>1, <3>7
    <3>9. At(o) = pa[k][1] /\ SlotAt(o) = pa[k][2]
      BY ONLY <2>6, <3>7 DEF At, SlotAt
    <3>10. Edge(V, At(o), SlotAt(o), here)
      BY ONLY <3>4, <3>6, <3>8, <3>9
    <3>11. Node(Cells, PageId, V[At(o)])
      <4>1. Edge(file, pa[k][1], pa[k][2], pa[k + 1][1])
        BY ONLY <3>3, <3>8
      <4>2. TreePage(file, pa[k][1]) /\ pa[k][1] \in PageId /\ pa[k][1] # op.left
        BY ONLY <3>5, <3>6, <3>8, <4>1 DEF Edge, TreePage
      <4>3. Node(Cells, PageId, file[pa[k][1]])
        BY ONLY <2>2, <4>2 DEF Structure, WellFormed
      <4> QED BY ONLY <3>6, <3>8, <3>9, <4>3
    <3>12. \A i \in 1 .. k - 1 : Edge(V, pa[i][1], pa[i][2], pa[i + 1][1])
      <4> TAKE i \in 1 .. k - 1
      <4>1. i \in 1 .. v - 1
        BY ONLY <3>7, <2>2, i \in 1 .. k - 1
      <4> QED BY ONLY <3>6, <4>1
    <3> QED BY ONLY <2>2, <2>6, <3>3, <3>7, <3>8, <3>10, <3>11, <3>12 DEF OpOnPath
  <2>10. OpUnderWay(V, o)
    BY ONLY <2>5, <2>6, <2>9 DEF OpUnderWay
  <2>11. PICK ht, span : Structure(Cells, V, Root, HoleOf(o), ht, span)
    BY ONLY <2>4, <2>7
  <2>12. o.kind # "promote"
    BY ONLY <2>6
  <2>13. Sound(V, o, rows)
    BY ONLY <1>4, <2>3, <2>8, <2>10, <2>11, <2>12, TreeSound
  <2> QED BY ONLY <1>1, <1>4, <2>1, <2>13 DEF Inv
<1> QED BY <1>5, <1>6

-----------------------------------------------------------------------------
(* The invariant holds of every state the tree can reach. *)

\* A call that is refused changes nothing.
LEMMA NothingChanges ==
  ASSUME Inv, UNCHANGED vars
  PROVE  Inv'
<1>1. file' = file /\ op' = op /\ rows' = rows /\ removed' = removed
  BY DEF vars
<1> QED BY <1>1 DEF Inv

\* Every operation, and every level of one, keeps the invariant.
THEOREM TreeInvariant == Spec => []Inv
<1>1. Init => Inv
  BY InitSound
<1>2. Inv /\ [Next]_vars => Inv'
  <2> SUFFICES ASSUME Inv, [Next]_vars PROVE Inv'
    OBVIOUS
  <2>1. CASE UNCHANGED vars
    BY <2>1, NothingChanges
  <2>2. ASSUME NEW r \in Rowid, NEW p \in Payload, Insert(r, p) PROVE Inv'
    BY <2>2, InsertKeeps
  <2>3. ASSUME NEW r \in Rowid, NEW p \in Payload, SplitRootLeaf(r, p) PROVE Inv'
    BY <2>3, SplitRootLeafKeeps
  <2>4. ASSUME NEW r \in Rowid, NEW p \in Payload, SplitLeaf(r, p) PROVE Inv'
    BY <2>4, SplitLeafKeeps
  <2>5. ASSUME NEW r \in Rowid, NEW p \in Payload, InsertFails(r, p) PROVE Inv'
    BY <2>5, NothingChanges DEF InsertFails
  <2>6. ASSUME NEW r \in Rowid, Delete(r) PROVE Inv'
    BY <2>6, DeleteKeeps
  <2>7. ASSUME NEW r \in Rowid, DeleteAbsent(r) PROVE Inv'
    BY <2>7, NothingChanges DEF DeleteAbsent
  <2>8. CASE PromoteFits
    BY <2>8, PromoteFitsKeeps
  <2>9. CASE PromoteSplits
    BY <2>9, PromoteSplitsKeeps
  <2>10. CASE PromoteSplitsRoot
    BY <2>10, PromoteSplitsRootKeeps
  <2>11. CASE Unlink
    BY <2>11, UnlinkStepKeeps
  <2> QED BY ONLY <2>1, <2>2, <2>3, <2>4, <2>5, <2>6, <2>7, <2>8, <2>9, <2>10, <2>11, [Next]_vars DEF Next
<1> QED BY <1>1, <1>2, PTL DEF Spec

\* What the descent of search() ends at is the row, and record() puts its whole
\* payload together again, whatever splits and deletions came before.
THEOREM TreeLookup == Spec => []LookupReadsRow
BY InvLookup, TreeInvariant, PTL

\* The cells and children of a page, also of the one a promotion waits at.
LEMMA PagesTyped ==
  ASSUME Inv, NEW p \in PageId
  PROVE  /\ file[p].kind = "leaf" => file[p].cells \in Seq(Cells) /\ file[p].kids = <<>>
         /\ file[p].kind = "interior" => file[p].cells \in Seq(Cells) /\ file[p].kids \in Seq(PageId)
<1> DEFINE T == TreeOf(file, op)
<1>1. FilePages(file, op) /\ OpUnderWay(file, op) /\ Shaped(file, op)
  BY DEF Inv, Sound
<1>2. /\ DOMAIN T = PageId /\ T[p].kind = file[p].kind
      /\ op.kind # "promote" => T = file
      /\ op.kind = "promote" => \A q \in PageId : q # At(op) => T[q] = file[q]
  BY <1>1, TreeOfFacts
<1>3. PICK ht, span : Structure(Cells, T, Root, HoleOf(op), ht, span)
  BY <1>1, Zenon DEF Shaped
<1> HIDE DEF T
<1>4. CASE T[p] = file[p]
  <2>1. TreePage(T, p) => Node(Cells, PageId, file[p]) \/ file[p] = Interior(<<>>, <<>>)
    BY ONLY <1>2, <1>3, <1>4, p \in PageId DEF Structure, WellFormed
  <2>2. <<>> \in Seq(Cells) /\ <<>> \in Seq(PageId)
    OBVIOUS
  <2>3. CASE Node(Cells, PageId, file[p])
    BY ONLY <2>3 DEF Node
  <2>4. CASE file[p] = Interior(<<>>, <<>>)
    <3>1. file[p].kind = "interior" /\ file[p].cells = <<>> /\ file[p].kids = <<>>
      BY ONLY <2>4 DEF Interior
    <3> QED BY ONLY <2>2, <3>1
  <2>5. TreePage(T, p) \/ (file[p].kind # "leaf" /\ file[p].kind # "interior")
    BY ONLY <1>2 DEF TreePage
  <2> QED BY ONLY <2>1, <2>3, <2>4, <2>5
<1>5. CASE T[p] # file[p]
  <2>1. op.kind = "promote" /\ p = At(op)
    BY ONLY <1>2, <1>5, p \in PageId
  <2>2. Node(Cells, PageId, file[p])
    <3>1. OpOnPath(file, op)
      BY <1>1, <2>1 DEF OpUnderWay
    <3> QED BY ONLY <2>1, <3>1 DEF OpOnPath
  <2> QED BY ONLY <2>2 DEF Node
<1> QED BY <1>4, <1>5

\* The types of the state: every child is a page, and no page, whatever was
\* split or promoted into it, holds more than its room.
THEOREM TreeTypes == Spec => []TypeOK
<1>1. Inv => TypeOK
  <2> SUFFICES ASSUME Inv PROVE TypeOK
    OBVIOUS
  <2>1. /\ FilePages(file, op) /\ OpUnderWay(file, op) /\ RowsTyped(rows)
        /\ removed = Nothing \/ removed.rowid \in Rowid
    BY DEF Inv, Sound
  <2>2. ASSUME NEW p \in PageId
        PROVE  /\ file[p].kind \in {"free", "leaf", "interior", "overflow"}
               /\ file[p].kind = "leaf" => file[p].cells \in Seq(Cells) /\ Used(file[p].cells) <= LeafRoom
               /\ file[p].kind = "interior" =>
                     /\ file[p].cells \in Seq(Cells) /\ Used(file[p].cells) <= NodeRoom
                     /\ file[p].kids \in Seq(PageId)
    <3>1. RoomKept(file, p)
      BY <2>1 DEF FilePages
    <3>2. /\ file[p].kind = "leaf" => file[p].cells \in Seq(Cells)
          /\ file[p].kind = "interior" => file[p].cells \in Seq(Cells) /\ file[p].kids \in Seq(PageId)
      BY PagesTyped
    <3>3. ASSUME file[p].kind = "interior" PROVE Used(file[p].cells) <= NodeRoom
      <4>1. Units(file[p].cells) /\ Len(file[p].cells) <= NodeRoom
        BY <3>1, <3>3, InteriorRoom
      <4>2. Used(file[p].cells) = Len(file[p].cells)
        <5>1. \A i \in 1 .. Len(file[p].cells) : file[p].cells[i].size = 1
          BY ONLY <4>1 DEF Units
        <5> QED BY <3>2, <3>3, <5>1, UsedUnits, Constants
      <4> QED BY ONLY <4>1, <4>2
    <3> QED BY ONLY <3>1, <3>2, <3>3 DEF RoomKept, FreePage
  <2>3. op.kind \in {"idle", "promote", "unlink"}
    BY <2>1 DEF OpUnderWay, OpType
  <2>4. DOMAIN rows \subseteq Rowid /\ \A r \in DOMAIN rows : rows[r] \in Payload
    BY <2>1 DEF RowsTyped
  <2> QED BY ONLY <2>1, <2>2, <2>3, <2>4 DEF TypeOK
<1> QED BY <1>1, TreeInvariant, PTL

-----------------------------------------------------------------------------
(* The leaves' depth *)

\* The generations exist, the one after the other.
GenerationOf(f, i) == IF i <= 1 THEN {Root} ELSE UNION {ToSet(file[p].kids) : p \in f[i - 1]}
Generations(f) == f = [i \in PageId |-> GenerationOf(f, i)]
\* The recursive definition of the generations has a value.
LEMMA GenerationsExist ==
  \E f : Generations(f) /\ \A n \in PageId : Generation(n) = f[n]
<1> DEFINE B(f, i) == GenerationOf(f, i)
           T == {m \in Nat : \E f : f = [i \in 1 .. m |-> B(f, i)]}
<1>1. 0 \in T
  <2>1. \A i \in 1 .. 0 : FALSE
    OBVIOUS
  <2> DEFINE f == [i \in 1 .. 0 |-> {}]
  <2>2. f = [i \in 1 .. 0 |-> B(f, i)]
    BY ONLY <2>1
  <2> HIDE DEF f, B
  <2> QED BY ONLY <2>2
<1>2. ASSUME NEW m \in Nat, m \in T PROVE m + 1 \in T
  <2>1. PICK f : f = [i \in 1 .. m |-> B(f, i)]
    BY <1>2
  <2> DEFINE g == [i \in 1 .. m + 1 |-> B(f, i)]
  <2>2. ASSUME NEW i \in 1 .. m + 1 PROVE B(f, i) = B(g, i)
    <3>1. CASE i <= 1
      BY <3>1 DEF GenerationOf
    <3>2. CASE ~(i <= 1)
      <4>1. PICK k \in 1 .. m : k = i - 1
        BY ONLY <3>2, m \in Nat, i \in 1 .. m + 1
      <4>2. k \in 1 .. m + 1
        BY ONLY m \in Nat, k \in 1 .. m
      <4>3. f[k] = B(f, k) /\ g[k] = B(f, k)
        <5> HIDE DEF B
        <5> QED BY ONLY <2>1, <4>2, k \in 1 .. m
      <4> QED BY ONLY <4>1, <4>3 DEF GenerationOf
    <3> QED BY <3>1, <3>2
  <2>3. g = [i \in 1 .. m + 1 |-> B(g, i)]
    <3> HIDE DEF B
    <3> QED BY <2>2
  <2>4. m + 1 \in Nat
    OBVIOUS
  <2> HIDE DEF g, B
  <2> QED BY <2>3, <2>4
<1>3. T \in SUBSET Nat
  OBVIOUS
<1> HIDE DEF T
<1>4. MaxPages \in T
  BY <1>1, <1>2, <1>3, SetInduction, Constants
<1>5. PICK f : f = [i \in PageId |-> B(f, i)]
  BY <1>4 DEF T, PageId
<1>6. Generations(f)
  BY <1>5 DEF Generations
<1> DEFINE at == CHOOSE h : Generations(h)
<1>7. Generations(at)
  BY <1>6
<1>8. \A n \in PageId : Generation(n) = at[n]
  BY DEF Generation, Generations, GenerationOf
<1> QED BY <1>7, <1>8

\* All leaves stay at one depth, and only the root is a leaf without rows.
THEOREM TreeBalanced == Spec => []TreeStaysBalanced
<1>1. Inv => TreeStaysBalanced
  <2> SUFFICES ASSUME Inv, op = Idle
               PROVE  /\ \A n \in PageId : \A p, q \in Generation(n) : IsLeaf(p) <=> IsLeaf(q)
                      /\ \A p \in PageId : IsLeaf(p) /\ file[p].cells = <<>> => p = Root
    BY DEF TreeStaysBalanced
  <2>1. \A p \in PageId : IsLeaf(p) /\ file[p].cells = <<>> => p = Root
    BY AtRest DEF IsLeaf
  <2>2. DOMAIN file = PageId /\ Root \in PageId /\ MaxPages \in Nat
    BY AtRest, Constants
  <2>3. PICK ht, span : Structure(Cells, file, Root, NoPage, ht, span)
    BY AtRest
  <2>4. /\ ht \in [PageId -> Nat] /\ TreePage(file, Root)
        /\ \A p \in PageId : file[p].kind = "leaf" => ht[p] = 0
        /\ \A p \in PageId : file[p].kind = "interior" => ht[p] > 0
        /\ \A p, q \in PageId, i \in Nat : Edge(file, p, i, q) => TreePage(file, q) /\ ht[q] + 1 = ht[p]
    BY ONLY <2>2, <2>3 DEF Structure, Heights
  <2>5. PICK f : Generations(f) /\ \A n \in PageId : Generation(n) = f[n]
    BY GenerationsExist
  <2> DEFINE Deep(n) == \A p \in f[n] : p \in PageId /\ TreePage(file, p) /\ ht[p] + n = ht[Root] + 1
             T == {n \in Nat : n + 1 \in PageId => Deep(n + 1)}
  <2>6. 0 \in T
    <3>1. ASSUME 1 \in PageId PROVE f[1] = {Root}
      BY <2>5, <3>1 DEF Generations, GenerationOf
    <3> QED BY <2>2, <2>4, <3>1
  <2>7. ASSUME NEW n \in Nat, n \in T PROVE n + 1 \in T
    <3> SUFFICES ASSUME (n + 1) + 1 \in PageId, NEW p \in f[(n + 1) + 1]
                 PROVE  p \in PageId /\ TreePage(file, p) /\ ht[p] + ((n + 1) + 1) = ht[Root] + 1
      BY n + 1 \in Nat
    <3>1. PICK m \in PageId : m = n + 1
      BY <2>2 DEF PageId
    <3>2. PICK k \in PageId : k = m + 1
      BY <3>1
    <3>3. ~(k <= 1) /\ k - 1 = m
      BY ONLY <3>1, <3>2, n \in Nat
    <3>4. f[k] = UNION {ToSet(file[u].kids) : u \in f[m]}
      <4>1. f[k] = GenerationOf(f, k)
        BY ONLY <2>5 DEF Generations
      <4> QED BY ONLY <3>3, <4>1 DEF GenerationOf
    <3>5. p \in f[k]
      BY <3>1, <3>2
    <3>6. PICK u \in f[m] : p \in ToSet(file[u].kids)
      BY ONLY <3>4, <3>5
    <3>7. u \in PageId /\ TreePage(file, u) /\ ht[u] + m = ht[Root] + 1
      BY <2>7, <3>1
    <3>8. /\ file[u].kind = "leaf" => file[u].kids = <<>>
          /\ file[u].kind = "interior" => file[u].kids \in Seq(PageId)
      BY <3>7, PagesTyped
    <3>9. PICK i \in DOMAIN file[u].kids : file[u].kids[i] = p
      BY <3>6 DEF ToSet
    <3>10. file[u].kind = "interior"
      BY ONLY <3>7, <3>8, <3>9 DEF TreePage
    <3>11. i \in 1 .. Len(file[u].kids) /\ i \in Nat /\ p \in PageId
      BY ONLY <3>8, <3>9, <3>10
    <3>12. Edge(file, u, i, p)
      BY ONLY <3>9, <3>10, <3>11 DEF Edge
    <3>13. TreePage(file, p) /\ ht[p] + 1 = ht[u] /\ ht[p] \in Nat /\ ht[u] \in Nat /\ ht[Root] \in Nat
      BY ONLY <2>2, <2>4, <3>7, <3>11, <3>12
    <3>14. PICK a, b, c \in Nat : a = ht[p] /\ b = ht[u] /\ c = ht[Root]
      BY ONLY <3>13
    <3>15. a + ((n + 1) + 1) = c + 1
      <4>1. a + 1 = b /\ b + (n + 1) = c + 1
        BY ONLY <3>1, <3>7, <3>13, <3>14
      <4> QED BY ONLY <4>1, n \in Nat, a \in Nat, b \in Nat, c \in Nat
    <3> QED BY ONLY <3>11, <3>13, <3>14, <3>15
  <2>8. T \in SUBSET Nat
    OBVIOUS
  <2> HIDE DEF T
  <2>9. \A n \in Nat : n \in T
    BY <2>6, <2>7, <2>8, SetInduction
  <2>10. ASSUME NEW n \in PageId PROVE Deep(n)
    <3>1. PICK k \in Nat : n = k + 1
      BY ONLY <2>2, n \in PageId, n - 1 \in Nat DEF PageId
    <3>2. k \in T
      BY <2>9
    <3> QED BY <3>1, <3>2 DEF T
  <2>11. ASSUME NEW n \in PageId, NEW p \in Generation(n), NEW q \in Generation(n)
         PROVE  IsLeaf(p) <=> IsLeaf(q)
    <3>1. p \in f[n] /\ q \in f[n]
      BY <2>5
    <3>2. /\ p \in PageId /\ TreePage(file, p) /\ ht[p] + n = ht[Root] + 1
          /\ q \in PageId /\ TreePage(file, q) /\ ht[q] + n = ht[Root] + 1
      BY <2>10, <3>1
    <3>3. ht[p] \in Nat /\ ht[q] \in Nat /\ n \in Nat /\ ht[Root] \in Nat
      BY <2>2, <2>4, <3>2 DEF PageId
    <3>4. ht[p] = ht[q]
      BY ONLY <3>2, <3>3
    <3> QED BY ONLY <2>4, <3>2, <3>3, <3>4 DEF TreePage, IsLeaf
  <2> QED BY <2>1, <2>11
<1> QED BY <1>1, TreeInvariant, PTL

-----------------------------------------------------------------------------
(* The owner of a page *)

\* Where an edge of the file is in the tree that a promotion is about to make.
GrownAt(o, p, i) == IF o.kind = "promote" /\ p = At(o) /\ i > SlotAt(o) THEN i + 1 ELSE i
\* Every edge of the file is in that tree, past the new separator one place on.
LEMMA GrownEdgeAt ==
  ASSUME Inv, NEW p \in PageId, NEW i \in Nat, NEW q, Edge(file, p, i, q)
  PROVE  GrownAt(op, p, i) \in Nat /\ Edge(TreeOf(file, op), p, GrownAt(op, p, i), q)
<1> DEFINE T == TreeOf(file, op)  s == SlotAt(op)  here == At(op)
<1>1. FilePages(file, op) /\ OpUnderWay(file, op)
  BY DEF Inv, Sound
<1>2. /\ op.kind # "promote" => T = file
      /\ op.kind = "promote" => /\ T[here] = GrownOf(file, op) /\ GrownOf(file, op).kind = "interior"
                                /\ \A x \in PageId : x # here => T[x] = file[x]
  BY <1>1, TreeOfFacts
<1>3. CASE op.kind # "promote" \/ p # here
  BY <1>2, <1>3 DEF GrownAt, Edge
<1>4. CASE op.kind = "promote" /\ p = here
  <2> DEFINE kids == file[here].kids  grown == GrownOf(file, op).kids
  <2>1. /\ kids \in Seq(PageId) /\ s \in 1 .. Len(kids) /\ kids[s] = op.left
        /\ Len(grown) = Len(kids) + 1 /\ IsPromoted(kids, s, op.left, op.right, grown)
    BY <1>1, <1>4, GrownFacts
  <2>2. i \in 1 .. Len(kids) /\ kids[i] = q
    BY <1>4 DEF Edge
  <2> HIDE DEF kids, grown, s, here, T
  <2>3. Len(kids) \in Nat /\ s \in Nat
    BY ONLY <2>1
  <2>4. GrownAt(op, p, i) = IF i > s THEN i + 1 ELSE i
    BY <1>4 DEF GrownAt, here, s
  <2>5. CASE i > s
    <3>1. i \in s + 1 .. Len(kids) /\ i + 1 \in 1 .. Len(grown) /\ i + 1 \in Nat
      BY ONLY <2>1, <2>2, <2>3, <2>5, i \in Nat
    <3>2. grown[i + 1] = q
      BY ONLY <2>1, <2>2, <3>1 DEF IsPromoted
    <3>3. Edge(T, here, i + 1, q)
      BY ONLY <1>2, <1>4, <3>1, <3>2 DEF Edge, grown
    <3> QED BY ONLY <1>4, <2>4, <2>5, <3>1, <3>3 DEF T
  <2>6. CASE i = s
    <3>1. i \in 1 .. Len(grown) /\ grown[i] = q /\ ~(i > s)
      BY ONLY <2>1, <2>2, <2>3, <2>6 DEF IsPromoted
    <3>2. Edge(T, here, i, q)
      BY ONLY <1>2, <1>4, <3>1 DEF Edge, grown
    <3> QED BY ONLY <1>4, <2>4, <3>1, <3>2, i \in Nat DEF T
  <2>7. CASE i < s
    <3>1. i \in 1 .. s - 1 /\ i \in 1 .. Len(grown) /\ ~(i > s)
      BY ONLY <2>1, <2>2, <2>3, <2>7, i \in Nat
    <3>2. grown[i] = q
      BY ONLY <2>1, <2>2, <3>1 DEF IsPromoted
    <3>3. Edge(T, here, i, q)
      BY ONLY <1>2, <1>4, <3>1, <3>2 DEF Edge, grown
    <3> QED BY ONLY <1>4, <2>4, <3>1, <3>3, i \in Nat DEF T
  <2> QED BY ONLY <2>3, <2>5, <2>6, <2>7, i \in Nat
<1> QED BY <1>3, <1>4

\* Every page of the tree but the root hangs in one place of the file, or it is
\* the right half of the split whose separator is on its way up.
Hanging == \A c \in PageId : TreePage(file, c) /\ c # Root =>
              \/ \E p \in PageId, i \in Nat : Edge(file, p, i, c)
              \/ op.kind = "promote" /\ c = op.right
HangsOnce == \A p, q, c \in PageId, i, j \in Nat : Edge(file, p, i, c) /\ Edge(file, q, j, c) => p = q /\ i = j
\* Edges lead to pages of the tree that have no other owner.
LEMMA EdgeOwners ==
  ASSUME Inv
  PROVE  /\ Hanging /\ HangsOnce /\ TreePage(file, Root)
         /\ op.kind = "promote" => op.right \in PageId /\ TreePage(file, op.right) /\ op.right # Root
         /\ \A p, c \in PageId, i \in Nat : Edge(file, p, i, c) =>
               TreePage(file, c) /\ c # Root /\ (op.kind = "promote" => c # op.right)
<1> DEFINE T == TreeOf(file, op)  s == SlotAt(op)  here == At(op)
<1>1. FilePages(file, op) /\ OpUnderWay(file, op) /\ Shaped(file, op)
  BY DEF Inv, Sound
<1>2. /\ DOMAIN T = PageId /\ \A p \in PageId : T[p].kind = file[p].kind
      /\ op.kind # "promote" => T = file
      /\ op.kind = "promote" => /\ here \in PageId /\ T[here] = GrownOf(file, op) /\ GrownOf(file, op).kind = "interior"
                                /\ file[here].kind = "interior"
                                /\ \A x \in PageId : x # here => T[x] = file[x]
  BY <1>1, TreeOfFacts
<1>3. PICK ht, span : Structure(Cells, T, Root, HoleOf(op), ht, span)
  BY <1>1, Zenon DEF Shaped
<1> HIDE DEF T
<1>4. Heights(T, Root, ht) /\ Parents(T, Root)
  BY ONLY <1>3 DEF Structure
<1>5. /\ \A p, q, c \in PageId, i, j \in Nat : Edge(T, p, i, c) /\ Edge(T, q, j, c) => p = q /\ i = j
      /\ \A p \in PageId, i \in Nat : ~Edge(T, p, i, Root)
      /\ \A c \in PageId : TreePage(T, c) /\ c # Root => \E p \in PageId, i \in Nat : Edge(T, p, i, c)
      /\ \A p, q \in PageId, i \in Nat : Edge(T, p, i, q) => TreePage(T, q)
      /\ TreePage(T, Root) /\ Root \in PageId
  BY ONLY <1>2, <1>4 DEF Parents, Heights
<1>6. \A p \in PageId : TreePage(T, p) <=> TreePage(file, p)
  BY ONLY <1>2 DEF TreePage
<1>7. ASSUME NEW p \in PageId, NEW c \in PageId, NEW i \in Nat, Edge(file, p, i, c)
      PROVE  GrownAt(op, p, i) \in Nat /\ Edge(T, p, GrownAt(op, p, i), c)
  BY <1>7, GrownEdgeAt DEF T
<1>8. HangsOnce
  <2> SUFFICES ASSUME NEW p \in PageId, NEW q \in PageId, NEW c \in PageId, NEW i \in Nat, NEW j \in Nat,
                      Edge(file, p, i, c), Edge(file, q, j, c)
               PROVE  p = q /\ i = j
    BY DEF HangsOnce
  <2>1. p = q /\ GrownAt(op, p, i) = GrownAt(op, q, j)
    BY <1>5, <1>7
  <2>2. CASE op.kind = "promote" /\ p = here
    <3>1. s \in Nat
      <4>1. s \in 1 .. Len(file[here].kids)
        BY <1>1, <2>2, GrownFacts
      <4> QED BY ONLY <4>1
    <3>2. (IF i > s THEN i + 1 ELSE i) = (IF j > s THEN j + 1 ELSE j)
      BY <2>1, <2>2 DEF GrownAt
    <3> HIDE DEF s
    <3>3. i = j
      BY ONLY <3>1, <3>2, i \in Nat, j \in Nat
    <3> QED BY <2>1, <3>3
  <2>3. CASE ~(op.kind = "promote" /\ p = here)
    BY <2>1, <2>3 DEF GrownAt
  <2> QED BY <2>2, <2>3
<1>9. ASSUME op.kind = "promote"
      PROVE  /\ op.right \in PageId /\ here \in PageId /\ s \in Nat /\ Edge(T, here, s + 1, op.right) /\ s + 1 \in Nat
             /\ \A i \in Nat : GrownAt(op, here, i) # s + 1
             /\ \A i \in Nat, c \in PageId : Edge(T, here, i, c) /\ i # s + 1 => \E j \in Nat : Edge(file, here, j, c)
  <2> DEFINE kids == file[here].kids  grown == GrownOf(file, op).kids
  <2>1. /\ kids \in Seq(PageId) /\ s \in 1 .. Len(kids) /\ kids[s] = op.left /\ op.right \in PageId
        /\ Len(grown) = Len(kids) + 1 /\ IsPromoted(kids, s, op.left, op.right, grown)
    BY <1>1, <1>9, GrownFacts
  <2>2. GrownOf(file, op).kind = "interior" /\ T[here] = GrownOf(file, op) /\ file[here].kind = "interior"
    BY ONLY <1>2, <1>9
  <2>3. \A i \in Nat : GrownAt(op, here, i) = IF i > s THEN i + 1 ELSE i
    BY <1>9 DEF GrownAt
  <2> HIDE DEF kids, grown, s, here
  <2>4. Len(kids) \in Nat /\ s \in Nat
    BY ONLY <2>1
  <2>5. s + 1 \in 1 .. Len(grown) /\ grown[s + 1] = op.right /\ s + 1 \in Nat
    BY ONLY <2>1, <2>4 DEF IsPromoted
  <2>6. Edge(T, here, s + 1, op.right)
    BY ONLY <2>2, <2>5 DEF Edge, grown
  <2>7. \A i \in Nat : GrownAt(op, here, i) # s + 1
    BY ONLY <2>3, <2>4
  <2>8. ASSUME NEW i \in Nat, NEW c \in PageId, Edge(T, here, i, c), i # s + 1
        PROVE  \E j \in Nat : Edge(file, here, j, c)
    <3>1. i \in 1 .. Len(grown) /\ grown[i] = c
      BY ONLY <2>2, <2>8 DEF Edge, grown
    <3>2. CASE i < s
      <4>1. i \in 1 .. s - 1 /\ i \in 1 .. Len(kids)
        BY ONLY <2>1, <2>4, <3>1, <3>2, i \in Nat
      <4>2. kids[i] = c
        BY ONLY <2>1, <3>1, <4>1 DEF IsPromoted
      <4>3. Edge(file, here, i, c)
        BY ONLY <2>2, <4>1, <4>2 DEF Edge, kids
      <4> QED BY <4>3
    <3>3. CASE i = s
      <4>1. kids[i] = c /\ i \in 1 .. Len(kids)
        BY ONLY <2>1, <3>1, <3>3 DEF IsPromoted
      <4>2. Edge(file, here, i, c)
        BY ONLY <2>2, <4>1 DEF Edge, kids
      <4> QED BY <4>2
    <3>4. CASE i > s + 1
      <4>1. PICK j \in Nat : i = j + 1
        BY ONLY <2>4, <3>4, i \in Nat, i - 1 \in Nat
      <4>2. j \in s + 1 .. Len(kids) /\ j \in 1 .. Len(kids)
        BY ONLY <2>1, <2>4, <3>1, <3>4, <4>1, j \in Nat
      <4>3. kids[j] = c
        BY ONLY <2>1, <3>1, <4>1, <4>2 DEF IsPromoted
      <4>4. Edge(file, here, j, c)
        BY ONLY <2>2, <4>2, <4>3 DEF Edge, kids
      <4> QED BY <4>4
    <3> QED BY ONLY <2>4, <2>8, <3>2, <3>3, <3>4, i \in Nat
  <2>9. here \in PageId
    BY ONLY <1>2, <1>9
  <2> QED BY ONLY <2>1, <2>4, <2>5, <2>6, <2>7, <2>8, <2>9
<1>10. ASSUME NEW p \in PageId, NEW c \in PageId, NEW i \in Nat, Edge(file, p, i, c)
       PROVE  TreePage(file, c) /\ c # Root /\ (op.kind = "promote" => c # op.right)
  <2>1. TreePage(file, c) /\ c # Root
    BY <1>5, <1>6, <1>7, <1>10
  <2>2. ASSUME op.kind = "promote", c = op.right PROVE FALSE
    <3>1. Edge(T, p, GrownAt(op, p, i), c) /\ GrownAt(op, p, i) \in Nat
      BY <1>7, <1>10
    <3>2. Edge(T, here, s + 1, c) /\ s + 1 \in Nat /\ here \in PageId
      BY <1>9, <2>2
    <3> HIDE DEF here, s
    <3>3. p = here /\ GrownAt(op, p, i) = s + 1
      BY ONLY <1>5, <3>1, <3>2, p \in PageId, c \in PageId
    <3> QED BY <1>9, <2>2, <3>3
  <2> QED BY <2>1, <2>2
<1>11. Hanging
  <2> SUFFICES ASSUME NEW c \in PageId, TreePage(file, c), c # Root
               PROVE  \/ \E p \in PageId, i \in Nat : Edge(file, p, i, c)
                      \/ op.kind = "promote" /\ c = op.right
    BY DEF Hanging
  <2>1. PICK p \in PageId, i \in Nat : Edge(T, p, i, c)
    BY <1>5, <1>6
  <2>2. CASE ~(op.kind = "promote" /\ p = here)
    BY <1>2, <2>1, <2>2 DEF Edge
  <2>3. CASE op.kind = "promote" /\ p = here
    <3>1. CASE i = s + 1
      <4>1. Edge(T, here, i, op.right) /\ Edge(T, here, i, c)
        BY <1>9, <2>1, <2>3, <3>1
      <4>2. op.right = c
        BY ONLY <4>1 DEF Edge
      <4> QED BY <2>3, <4>2
    <3>2. CASE i # s + 1
      BY <1>9, <2>1, <2>3, <3>2
    <3> QED BY <3>1, <3>2
  <2> QED BY <2>2, <2>3
<1>12. ASSUME op.kind = "promote" PROVE op.right \in PageId /\ TreePage(file, op.right) /\ op.right # Root
  <2>1. Edge(T, here, s + 1, op.right) /\ s + 1 \in Nat /\ here \in PageId /\ op.right \in PageId
    BY <1>9, <1>12
  <2> HIDE DEF here, s
  <2> QED BY ONLY <1>5, <1>6, <2>1
<1>13. TreePage(file, Root)
  BY <1>5, <1>6
<1> QED BY <1>8, <1>10, <1>11, <1>12, <1>13

\* Who may point at a page: its parent, the page before it in its chain, the
\* row whose chain it starts, the schema, or the promotion under way.
TreeOwner(t, p) == \E a \in PageId, i \in Nat : t = <<a, i, p>> /\ Edge(file, a, i, p)
ChainOwner(t, p, ch) ==
  \E r \in DOMAIN rows, j, k \in Nat :
     j >= 1 /\ k = j + 1 /\ k <= Len(ch[r]) /\ p = ch[r][k] /\ t = <<ch[r][j], 1, p>>
RowOwner(t, p, ch) ==
  \E a \in PageId, i \in Nat, c \in LeafCells(file) :
     LeafCell(file, a, i, c) /\ c.over = p /\ Len(ch[c.key]) >= 1 /\ p = ch[c.key][1] /\ t = <<a, i, p>>
RootOwner(t, p) == t = <<NoPage, 0, Root>> /\ p = Root
PromotionOwner(t, p) == op.kind = "promote" /\ t = <<NoPage, 1, op.right>> /\ p = op.right

\* The pages of a chain, and what their pointers say.
LEMMA ChainPages ==
  ASSUME Inv, NEW ch, ChainsLaid(file, rows, ch), NEW r \in DOMAIN rows, NEW j \in Nat, j \in 1 .. Len(ch[r])
  PROVE  /\ ch[r] \in Seq(PageId) /\ ch[r][j] \in PageId /\ file[ch[r][j]].kind = "overflow"
         /\ file[ch[r][j]].cells = << [key |-> r, size |-> j, over |-> NoPage] >>
         /\ file[ch[r][j]].kids = <<IF j < Len(ch[r]) THEN ch[r][j + 1] ELSE NoPage>>
<1>1. ch[r] \in Seq(PageId)
  BY DEF ChainsLaid
<1>2. ch[r][j] \in PageId
  BY <1>1
<1>3. file[ch[r][j]] = ChainPage(r, j, ch[r])
  BY DEF ChainsLaid
<1> QED BY ONLY <1>1, <1>2, <1>3 DEF ChainPage

\* The place of a page in the chains is one.
LEMMA ChainPlaceOnce ==
  ASSUME Inv, NEW ch, ChainsLaid(file, rows, ch), NEW r \in DOMAIN rows, NEW j \in Nat, j \in 1 .. Len(ch[r]),
         NEW q \in DOMAIN rows, NEW k \in Nat, k \in 1 .. Len(ch[q]), ch[r][j] = ch[q][k]
  PROVE  r = q /\ j = k
<1>1. file[ch[r][j]].cells = << [key |-> r, size |-> j, over |-> NoPage] >>
  BY ChainPages
<1>2. file[ch[q][k]].cells = << [key |-> q, size |-> k, over |-> NoPage] >>
  BY ChainPages
<1>3. file[ch[r][j]].cells[1].key = r /\ file[ch[r][j]].cells[1].size = j
  BY ONLY <1>1
<1>4. file[ch[q][k]].cells[1].key = q /\ file[ch[q][k]].cells[1].size = k
  BY ONLY <1>2
<1> QED BY ONLY <1>3, <1>4, ch[r][j] = ch[q][k]

\* The pointers a page holds to its children or to the next page of a chain.
LEMMA KidOwners ==
  ASSUME Inv, NEW ch, RowsFiled(LeafCells(file), rows, ch), ChainsLaid(file, rows, ch),
         NEW p \in PageId, NEW a \in PageId, NEW i \in DOMAIN file[a].kids, file[a].kids[i] = p
  PROVE  TreeOwner(<<a, i, p>>, p) \/ ChainOwner(<<a, i, p>>, p, ch)
<1>1. RoomKept(file, a)
  BY DEF Inv, Sound, FilePages
<1>2. file[a].kind = "leaf" => file[a].kids = <<>>
  BY PagesTyped
<1>3. file[a].kids # <<>>
  OBVIOUS
<1>4. file[a].kind = "overflow" \/ file[a].kind = "interior"
  BY ONLY <1>1, <1>2, <1>3 DEF RoomKept, FreePage
<1>5. CASE file[a].kind = "interior"
  <2>1. file[a].kids \in Seq(PageId)
    BY <1>5, PagesTyped
  <2>2. i \in 1 .. Len(file[a].kids) /\ i \in Nat
    BY ONLY <2>1, i \in DOMAIN file[a].kids
  <2>3. Edge(file, a, i, p)
    BY ONLY <1>5, <2>2, file[a].kids[i] = p DEF Edge
  <2> QED BY ONLY <2>2, <2>3, a \in PageId DEF TreeOwner
<1>6. CASE file[a].kind = "overflow"
  <2>1. PICK r \in DOMAIN rows, j \in Nat : j \in 1 .. Len(ch[r]) /\ ch[r][j] = a
    BY <1>6 DEF ChainsLaid
  <2>2. /\ ch[r] \in Seq(PageId)
        /\ file[a].kids = <<IF j < Len(ch[r]) THEN ch[r][j + 1] ELSE NoPage>>
    BY <2>1, ChainPages
  <2>3. i = 1 /\ p = IF j < Len(ch[r]) THEN ch[r][j + 1] ELSE NoPage
    BY ONLY <2>2, i \in DOMAIN file[a].kids, file[a].kids[i] = p
  <2>4. p # NoPage
    BY Constants
  <2>5. j < Len(ch[r]) /\ p = ch[r][j + 1] /\ Len(ch[r]) \in Nat
    BY ONLY <2>2, <2>3, <2>4
  <2>6. PICK k \in Nat : k = j + 1
    OBVIOUS
  <2>7. j >= 1 /\ k <= Len(ch[r]) /\ p = ch[r][k]
    BY ONLY <2>1, <2>5, <2>6, j \in Nat
  <2>8. <<a, i, p>> = <<ch[r][j], 1, p>>
    BY ONLY <2>1, <2>3
  <2> QED BY ONLY <2>6, <2>7, <2>8, r \in DOMAIN rows, j \in Nat DEF ChainOwner
<1> QED BY <1>4, <1>5, <1>6

\* The pointers of cells: only a leaf's lead anywhere.
LEMMA OverOwners ==
  ASSUME Inv, NEW ch, RowsFiled(LeafCells(file), rows, ch), ChainsLaid(file, rows, ch),
         NEW p \in PageId, NEW a \in PageId, NEW i \in DOMAIN file[a].cells, file[a].cells[i].over = p
  PROVE  RowOwner(<<a, i, p>>, p, ch)
<1>1. RoomKept(file, a)
  BY DEF Inv, Sound, FilePages
<1>2. p # NoPage
  BY Constants
<1>3. file[a].kind = "leaf"
  <2>1. file[a].kind # "interior"
    <3> SUFFICES ASSUME file[a].kind = "interior" PROVE FALSE
      OBVIOUS
    <3>1. Units(file[a].cells)
      BY <1>1, InteriorRoom
    <3>2. file[a].cells \in Seq(Cells)
      BY PagesTyped
    <3>3. i \in 1 .. Len(file[a].cells)
      BY ONLY <3>2, i \in DOMAIN file[a].cells
    <3>4. file[a].cells[i].over = NoPage
      BY ONLY <3>1, <3>3 DEF Units
    <3> QED BY <1>2, <3>4
  <2>2. file[a].kind # "overflow"
    <3> SUFFICES ASSUME file[a].kind = "overflow" PROVE FALSE
      OBVIOUS
    <3>1. PICK r \in DOMAIN rows, j \in Nat : j \in 1 .. Len(ch[r]) /\ ch[r][j] = a
      BY DEF ChainsLaid
    <3>2. file[a].cells = << [key |-> r, size |-> j, over |-> NoPage] >>
      BY <3>1, ChainPages
    <3>3. file[a].cells[i].over = NoPage
      BY ONLY <3>2, i \in DOMAIN file[a].cells
    <3> QED BY <1>2, <3>3
  <2>3. file[a].cells # <<>>
    OBVIOUS
  <2> QED BY ONLY <1>1, <2>1, <2>2, <2>3 DEF RoomKept, FreePage
<1>4. file[a].cells \in Seq(Cells)
  BY <1>3, PagesTyped
<1>5. i \in 1 .. Len(file[a].cells) /\ i \in Nat
  BY ONLY <1>4, i \in DOMAIN file[a].cells
<1>6. PICK c \in Cells : c = file[a].cells[i]
  BY ONLY <1>4, <1>5
<1>7. LeafCell(file, a, i, c) /\ c \in LeafCells(file) /\ c.over = p
  BY ONLY <1>3, <1>5, <1>6, a \in PageId, c \in Cells, file[a].cells[i].over = p DEF LeafCell, LeafCells
<1>8. p = Start(ch[c.key]) /\ c.key \in DOMAIN rows
  BY ONLY <1>7, RowsFiled(LeafCells(file), rows, ch) DEF RowsFiled
<1>9. Len(ch[c.key]) >= 1 /\ p = ch[c.key][1]
  <2>1. ch[c.key] \in Seq(PageId)
    BY <1>8 DEF ChainsLaid
  <2>2. Len(ch[c.key]) \in Nat
    BY ONLY <2>1
  <2>3. Len(ch[c.key]) # 0 /\ p = ch[c.key][1]
    BY ONLY <1>2, <1>8 DEF Start
  <2> QED BY ONLY <2>2, <2>3
<1> QED BY ONLY <1>5, <1>7, <1>9, a \in PageId DEF RowOwner

\* A pointer is a child, an overflow pointer, the schema's or the promotion's.
KidPointer(t) == \E a \in PageId : \E i \in DOMAIN file[a].kids : t = <<a, i, file[a].kids[i]>>
OverPointer(t) == \E a \in PageId : \E i \in DOMAIN file[a].cells : t = <<a, i, file[a].cells[i].over>>
\* A pointer is one of the four, and all four are pointers.
LEMMA PointersAre ==
  ASSUME NEW t
  PROVE  t \in Pointers <=>
           \/ KidPointer(t) \/ OverPointer(t) \/ t = <<NoPage, 0, Root>>
           \/ (op.kind = "promote" /\ t = <<NoPage, 1, op.right>>)
<1>1. t \in Pointers <=> (\E a \in PageId : t \in KidPointers(a) \/ t \in OverPointers(a)) \/ t \in OtherPointers
  <2> DEFINE both(a) == KidPointers(a) \cup OverPointers(a)
             all == {both(a) : a \in PageId}
  <2>1. Pointers = (UNION all) \cup OtherPointers
    BY DEF Pointers
  <2>2. \A a : t \in both(a) <=> t \in KidPointers(a) \/ t \in OverPointers(a)
    OBVIOUS
  <2> HIDE DEF both
  <2>3. (t \in UNION all) <=> (\E a \in PageId : t \in both(a))
    OBVIOUS
  <2> HIDE DEF all
  <2> QED BY ONLY <2>1, <2>2, <2>3
<1>2. ASSUME NEW a PROVE t \in KidPointers(a) <=> \E i \in DOMAIN file[a].kids : t = <<a, i, file[a].kids[i]>>
  <2> DEFINE kid(i) == <<a, i, file[a].kids[i]>>
  <2>1. KidPointers(a) = {kid(i) : i \in DOMAIN file[a].kids}
    BY DEF KidPointers
  <2> HIDE DEF kid
  <2>2. t \in KidPointers(a) <=> \E i \in DOMAIN file[a].kids : t = kid(i)
    BY ONLY <2>1
  <2> QED BY ONLY <2>2 DEF kid
<1>3. ASSUME NEW a PROVE t \in OverPointers(a) <=> \E i \in DOMAIN file[a].cells : t = <<a, i, file[a].cells[i].over>>
  <2> DEFINE over(i) == <<a, i, file[a].cells[i].over>>
  <2>1. OverPointers(a) = {over(i) : i \in DOMAIN file[a].cells}
    BY DEF OverPointers
  <2> HIDE DEF over
  <2>2. t \in OverPointers(a) <=> \E i \in DOMAIN file[a].cells : t = over(i)
    BY ONLY <2>1
  <2> QED BY ONLY <2>2 DEF over
<1>4. t \in OtherPointers <=> t = <<NoPage, 0, Root>> \/ (op.kind = "promote" /\ t = <<NoPage, 1, op.right>>)
  <2> DEFINE x == <<NoPage, 0, Root>>  y == <<NoPage, 1, op.right>>
  <2>1. OtherPointers = {x} \cup (IF op.kind = "promote" THEN {y} ELSE {})
    BY DEF OtherPointers
  <2> HIDE DEF x, y
  <2>2. t \in OtherPointers <=> t = x \/ (op.kind = "promote" /\ t = y)
    BY ONLY <2>1
  <2> QED BY ONLY <2>2 DEF x, y
<1>5. KidPointer(t) <=> \E a \in PageId : t \in KidPointers(a)
  BY ONLY <1>2 DEF KidPointer
<1>6. OverPointer(t) <=> \E a \in PageId : t \in OverPointers(a)
  BY ONLY <1>3 DEF OverPointer
<1> QED BY ONLY <1>1, <1>4, <1>5, <1>6

\* The pointers to a page are those five kinds.
LEMMA PointerKinds ==
  ASSUME Inv, NEW ch, RowsFiled(LeafCells(file), rows, ch), ChainsLaid(file, rows, ch), NEW p \in PageId, NEW t
  PROVE  t \in Pointers /\ t[3] = p <=>
           \/ TreeOwner(t, p) \/ ChainOwner(t, p, ch) \/ RowOwner(t, p, ch)
           \/ RootOwner(t, p) \/ PromotionOwner(t, p)
<1>1. ASSUME t \in Pointers, t[3] = p
      PROVE  \/ TreeOwner(t, p) \/ ChainOwner(t, p, ch) \/ RowOwner(t, p, ch)
             \/ RootOwner(t, p) \/ PromotionOwner(t, p)
  <2>1. \/ KidPointer(t) \/ OverPointer(t) \/ t = <<NoPage, 0, Root>>
        \/ op.kind = "promote" /\ t = <<NoPage, 1, op.right>>
    BY ONLY <1>1, PointersAre
  <2>2. ASSUME NEW a \in PageId, NEW i \in DOMAIN file[a].kids, t = <<a, i, file[a].kids[i]>>
        PROVE  TreeOwner(t, p) \/ ChainOwner(t, p, ch)
    <3>1. file[a].kids[i] = p /\ t = <<a, i, p>>
      BY ONLY <1>1, <2>2
    <3>2. TreeOwner(<<a, i, p>>, p) \/ ChainOwner(<<a, i, p>>, p, ch)
      BY <3>1, KidOwners
    <3> QED BY ONLY <3>1, <3>2
  <2>3. ASSUME NEW a \in PageId, NEW i \in DOMAIN file[a].cells, t = <<a, i, file[a].cells[i].over>>
        PROVE  RowOwner(t, p, ch)
    <3>1. file[a].cells[i].over = p /\ t = <<a, i, p>>
      BY ONLY <1>1, <2>3
    <3>2. RowOwner(<<a, i, p>>, p, ch)
      BY <3>1, OverOwners
    <3> QED BY ONLY <3>1, <3>2
  <2>4. CASE t = <<NoPage, 0, Root>>
    BY ONLY <1>1, <2>4 DEF RootOwner
  <2>5. CASE op.kind = "promote" /\ t = <<NoPage, 1, op.right>>
    BY ONLY <1>1, <2>5 DEF PromotionOwner
  <2> QED BY ONLY <2>1, <2>2, <2>3, <2>4, <2>5 DEF KidPointer, OverPointer
<1>2. ASSUME TreeOwner(t, p) PROVE t \in Pointers /\ t[3] = p
  <2>1. PICK a \in PageId, i \in Nat : t = <<a, i, p>> /\ Edge(file, a, i, p)
    BY <1>2 DEF TreeOwner
  <2>2. i \in 1 .. Len(file[a].kids) /\ file[a].kids[i] = p /\ file[a].kind = "interior"
    BY ONLY <2>1 DEF Edge
  <2>3. file[a].kids \in Seq(PageId)
    BY <2>2, PagesTyped
  <2>4. i \in DOMAIN file[a].kids
    BY ONLY <2>2, <2>3
  <2>5. t = <<a, i, file[a].kids[i]>> /\ t[3] = p
    BY ONLY <2>1, <2>2
  <2>6. KidPointer(t)
    BY ONLY <2>4, <2>5, a \in PageId DEF KidPointer
  <2> QED BY ONLY <2>5, <2>6, PointersAre
<1>3. ASSUME ChainOwner(t, p, ch) PROVE t \in Pointers /\ t[3] = p
  <2>1. PICK r \in DOMAIN rows, j, k \in Nat :
           j >= 1 /\ k = j + 1 /\ k <= Len(ch[r]) /\ p = ch[r][k] /\ t = <<ch[r][j], 1, p>>
    BY <1>3 DEF ChainOwner
  <2>2. ch[r] \in Seq(PageId)
    BY DEF ChainsLaid
  <2>3. j \in 1 .. Len(ch[r]) /\ j < Len(ch[r]) /\ ch[r][j + 1] = p
    BY ONLY <2>1, <2>2, j \in Nat
  <2>4. ch[r][j] \in PageId /\ file[ch[r][j]].kids = <<IF j < Len(ch[r]) THEN ch[r][j + 1] ELSE NoPage>>
    BY <2>3, ChainPages
  <2>5. file[ch[r][j]].kids = <<p>>
    BY ONLY <2>3, <2>4
  <2>6. 1 \in DOMAIN file[ch[r][j]].kids /\ file[ch[r][j]].kids[1] = p
    BY ONLY <2>5
  <2>7. t = <<ch[r][j], 1, file[ch[r][j]].kids[1]>> /\ t[3] = p
    BY ONLY <2>1, <2>6
  <2>8. KidPointer(t)
    BY ONLY <2>4, <2>6, <2>7 DEF KidPointer
  <2> QED BY ONLY <2>7, <2>8, PointersAre
<1>4. ASSUME RowOwner(t, p, ch) PROVE t \in Pointers /\ t[3] = p
  <2>1. PICK a \in PageId, i \in Nat, c \in LeafCells(file) : LeafCell(file, a, i, c) /\ c.over = p /\ t = <<a, i, p>>
    BY <1>4 DEF RowOwner
  <2>2. file[a].kind = "leaf" /\ i \in 1 .. Len(file[a].cells) /\ file[a].cells[i].over = p
    BY ONLY <2>1 DEF LeafCell
  <2>3. file[a].cells \in Seq(Cells)
    BY <2>2, PagesTyped
  <2>4. i \in DOMAIN file[a].cells
    BY ONLY <2>2, <2>3
  <2>5. t = <<a, i, file[a].cells[i].over>> /\ t[3] = p
    BY ONLY <2>1, <2>2
  <2>6. OverPointer(t)
    BY ONLY <2>4, <2>5, a \in PageId DEF OverPointer
  <2> QED BY ONLY <2>5, <2>6, PointersAre
<1>5. ASSUME RootOwner(t, p) \/ PromotionOwner(t, p) PROVE t \in Pointers /\ t[3] = p
  <2>1. t[3] = p
    BY ONLY <1>5 DEF RootOwner, PromotionOwner
  <2>2. t = <<NoPage, 0, Root>> \/ (op.kind = "promote" /\ t = <<NoPage, 1, op.right>>)
    BY ONLY <1>5 DEF RootOwner, PromotionOwner
  <2> QED BY ONLY <2>1, <2>2, PointersAre
<1> QED BY ONLY <1>1, <1>2, <1>3, <1>4, <1>5


\* A row has one cell.
LEMMA RowPlaceOnce ==
  ASSUME Inv, NEW p \in PageId, NEW q \in PageId, NEW i \in Nat, NEW j \in Nat, NEW c, NEW d,
         LeafCell(file, p, i, c), LeafCell(file, q, j, d), c.key = d.key
  PROVE  p = q /\ i = j
<1> DEFINE T == TreeOf(file, op)
<1>1. FilePages(file, op) /\ OpUnderWay(file, op) /\ Shaped(file, op)
  BY DEF Inv, Sound
<1>2. /\ DOMAIN T = PageId
      /\ op.kind # "promote" => T = file
      /\ op.kind = "promote" => /\ file[At(op)].kind = "interior"
                                /\ \A x \in PageId : x # At(op) => T[x] = file[x]
  BY <1>1, TreeOfFacts
<1>3. PICK ht, span : Structure(Cells, T, Root, HoleOf(op), ht, span)
  BY <1>1, Zenon DEF Shaped
<1> HIDE DEF T
<1>4. /\ file[p].kind = "leaf" /\ i \in 1 .. Len(file[p].cells) /\ file[p].cells[i].key = c.key
      /\ file[q].kind = "leaf" /\ j \in 1 .. Len(file[q].cells) /\ file[q].cells[j].key = d.key
  BY DEF LeafCell
<1>5. T[p] = file[p] /\ T[q] = file[q]
  BY ONLY <1>2, <1>4, p \in PageId, q \in PageId
<1>6. /\ p \in DOMAIN T /\ T[p].kind = "leaf" /\ i \in 1 .. Len(T[p].cells)
      /\ q \in DOMAIN T /\ T[q].kind = "leaf" /\ j \in 1 .. Len(T[q].cells)
      /\ T[p].cells[i].key = T[q].cells[j].key
  BY ONLY <1>2, <1>4, <1>5, p \in PageId, q \in PageId, c.key = d.key
<1>7. CellSet(Cells)
  BY Constants
<1> QED BY ONLY <1>3, <1>6, <1>7, RowOnce

\* What each kind of pointer leads to.
Owner(t, p, ch) ==
  \/ TreeOwner(t, p) \/ ChainOwner(t, p, ch) \/ RowOwner(t, p, ch)
  \/ RootOwner(t, p) \/ PromotionOwner(t, p)
\* Only pages of the tree have parents, only overflow pages are in chains.
LEMMA OwnerKinds ==
  ASSUME Inv, NEW ch, RowsFiled(LeafCells(file), rows, ch), ChainsLaid(file, rows, ch), NEW p \in PageId, NEW t
  PROVE  /\ TreeOwner(t, p) => TreePage(file, p) /\ p # Root /\ (op.kind = "promote" => p # op.right)
         /\ ChainOwner(t, p, ch) => file[p].kind = "overflow"
         /\ RowOwner(t, p, ch) => file[p].kind = "overflow"
         /\ RootOwner(t, p) => TreePage(file, p) /\ p = Root
         /\ PromotionOwner(t, p) => op.kind = "promote" /\ TreePage(file, p) /\ p = op.right /\ p # Root
<1>1. /\ TreePage(file, Root)
      /\ op.kind = "promote" => op.right \in PageId /\ TreePage(file, op.right) /\ op.right # Root
      /\ \A q, c \in PageId, i \in Nat : Edge(file, q, i, c) =>
            TreePage(file, c) /\ c # Root /\ (op.kind = "promote" => c # op.right)
  BY EdgeOwners
<1>2. TreeOwner(t, p) => TreePage(file, p) /\ p # Root /\ (op.kind = "promote" => p # op.right)
  BY ONLY <1>1, p \in PageId DEF TreeOwner
<1>3. ASSUME ChainOwner(t, p, ch) PROVE file[p].kind = "overflow"
  <2>1. PICK r \in DOMAIN rows, j, k \in Nat : j >= 1 /\ k = j + 1 /\ k <= Len(ch[r]) /\ p = ch[r][k]
    BY <1>3 DEF ChainOwner
  <2>2. ch[r] \in Seq(PageId)
    BY DEF ChainsLaid
  <2>3. k \in 1 .. Len(ch[r])
    BY ONLY <2>1, <2>2, j \in Nat, k \in Nat
  <2>4. file[ch[r][k]].kind = "overflow"
    BY <2>3, ChainPages
  <2> QED BY ONLY <2>1, <2>4
<1>4. ASSUME RowOwner(t, p, ch) PROVE file[p].kind = "overflow"
  <2>1. PICK c \in LeafCells(file) : Len(ch[c.key]) >= 1 /\ p = ch[c.key][1]
    BY <1>4 DEF RowOwner
  <2>2. c.key \in DOMAIN rows
    BY DEF RowsFiled
  <2>3. ch[c.key] \in Seq(PageId)
    BY <2>2 DEF ChainsLaid
  <2>4. 1 \in 1 .. Len(ch[c.key])
    BY ONLY <2>1, <2>3
  <2>5. PICK r \in DOMAIN rows, j \in Nat : r = c.key /\ j = 1
    BY <2>2
  <2>6. j \in 1 .. Len(ch[r]) /\ p = ch[r][j]
    BY ONLY <2>1, <2>4, <2>5
  <2>7. file[ch[r][j]].kind = "overflow"
    BY <2>6, ChainPages
  <2> QED BY ONLY <2>6, <2>7
<1>5. RootOwner(t, p) => TreePage(file, p) /\ p = Root
  BY ONLY <1>1 DEF RootOwner
<1>6. PromotionOwner(t, p) => op.kind = "promote" /\ TreePage(file, p) /\ p = op.right /\ p # Root
  BY ONLY <1>1 DEF PromotionOwner
<1> QED BY ONLY <1>2, <1>3, <1>4, <1>5, <1>6

\* The owners of an overflow page are one.
LEMMA OverflowOwnerOnce ==
  ASSUME Inv, NEW ch, RowsFiled(LeafCells(file), rows, ch), ChainsLaid(file, rows, ch), NEW p \in PageId, NEW t, NEW u,
         ChainOwner(t, p, ch) \/ RowOwner(t, p, ch), ChainOwner(u, p, ch) \/ RowOwner(u, p, ch)
  PROVE  t = u
<1> DEFINE InChain(x, r, j, k) == j >= 1 /\ k = j + 1 /\ k <= Len(ch[r]) /\ p = ch[r][k] /\ x = <<ch[r][j], 1, p>>
           OfRow(x, a, i, c) == LeafCell(file, a, i, c) /\ c.over = p /\ Len(ch[c.key]) >= 1 /\ p = ch[c.key][1] /\ x = <<a, i, p>>
<1>1. \A x : ChainOwner(x, p, ch) => \E r \in DOMAIN rows, j, k \in Nat : InChain(x, r, j, k)
  BY DEF ChainOwner
<1>2. \A x : RowOwner(x, p, ch) => \E a \in PageId, i \in Nat, c \in LeafCells(file) : OfRow(x, a, i, c)
  BY DEF RowOwner
<1>3. ASSUME NEW r \in DOMAIN rows, NEW j \in Nat, NEW k \in Nat, NEW x, InChain(x, r, j, k)
      PROVE  k \in 1 .. Len(ch[r]) /\ k # 1
  <2>1. ch[r] \in Seq(PageId)
    BY DEF ChainsLaid
  <2> QED BY ONLY <1>3, <2>1, j \in Nat, k \in Nat DEF InChain
<1>4. ASSUME NEW a \in PageId, NEW i \in Nat, NEW c \in LeafCells(file), NEW x, OfRow(x, a, i, c)
      PROVE  c.key \in DOMAIN rows /\ 1 \in 1 .. Len(ch[c.key])
  <2>1. c.key \in DOMAIN rows
    BY DEF RowsFiled
  <2>2. ch[c.key] \in Seq(PageId)
    BY <2>1 DEF ChainsLaid
  <2>3. 1 \in 1 .. Len(ch[c.key])
    BY ONLY <1>4, <2>2 DEF OfRow
  <2> QED BY <2>1, <2>3
<1>5. ASSUME ChainOwner(t, p, ch), ChainOwner(u, p, ch) PROVE t = u
  <2>1. PICK r \in DOMAIN rows, j, k \in Nat : InChain(t, r, j, k)
    BY <1>1, <1>5
  <2>2. PICK q \in DOMAIN rows, m, n \in Nat : InChain(u, q, m, n)
    BY <1>1, <1>5
  <2>3. k \in 1 .. Len(ch[r]) /\ n \in 1 .. Len(ch[q])
    BY <1>3, <2>1, <2>2
  <2>4. ch[r][k] = ch[q][n]
    BY ONLY <2>1, <2>2 DEF InChain
  <2>5. r = q /\ k = n
    BY <2>3, <2>4, ChainPlaceOnce
  <2>6. j = m
    BY ONLY <2>1, <2>2, <2>5, j \in Nat, m \in Nat DEF InChain
  <2>7. t = <<ch[r][j], 1, p>> /\ u = <<ch[q][m], 1, p>>
    BY ONLY <2>1, <2>2 DEF InChain
  <2>8. ch[r][j] = ch[q][m]
    BY ONLY <2>5, <2>6
  <2> QED BY ONLY <2>7, <2>8
<1>6. ASSUME NEW x, NEW y, ChainOwner(x, p, ch), RowOwner(y, p, ch) PROVE FALSE
  <2>1. PICK r \in DOMAIN rows, j, k \in Nat : InChain(x, r, j, k)
    BY <1>1, <1>6
  <2>2. PICK a \in PageId, i \in Nat, c \in LeafCells(file) : OfRow(y, a, i, c)
    BY <1>2, <1>6
  <2>3. k \in 1 .. Len(ch[r]) /\ k # 1 /\ c.key \in DOMAIN rows /\ 1 \in 1 .. Len(ch[c.key])
    BY <1>3, <1>4, <2>1, <2>2
  <2>4. ch[r][k] = ch[c.key][1]
    BY ONLY <2>1, <2>2 DEF InChain, OfRow
  <2>5. k = 1
    BY <2>3, <2>4, ChainPlaceOnce
  <2> QED BY <2>3, <2>5
<1>7. ASSUME RowOwner(t, p, ch), RowOwner(u, p, ch) PROVE t = u
  <2>1. PICK a \in PageId, i \in Nat, c \in LeafCells(file) : OfRow(t, a, i, c)
    BY <1>2, <1>7
  <2>2. PICK b \in PageId, j \in Nat, d \in LeafCells(file) : OfRow(u, b, j, d)
    BY <1>2, <1>7
  <2>3. /\ c.key \in DOMAIN rows /\ 1 \in 1 .. Len(ch[c.key])
        /\ d.key \in DOMAIN rows /\ 1 \in 1 .. Len(ch[d.key])
    BY <1>4, <2>1, <2>2
  <2>4. ch[c.key][1] = ch[d.key][1] /\ LeafCell(file, a, i, c) /\ LeafCell(file, b, j, d)
    BY ONLY <2>1, <2>2 DEF OfRow
  <2>5. c.key = d.key
    BY <2>3, <2>4, ChainPlaceOnce
  <2>6. a = b /\ i = j
    BY <2>4, <2>5, RowPlaceOnce
  <2> QED BY ONLY <2>1, <2>2, <2>6 DEF OfRow
<1> QED BY <1>5, <1>6, <1>7

\* A page has at most one owner.
LEMMA OwnerOnce ==
  ASSUME Inv, NEW ch, RowsFiled(LeafCells(file), rows, ch), ChainsLaid(file, rows, ch), NEW p \in PageId, NEW t, NEW u,
         Owner(t, p, ch), Owner(u, p, ch)
  PROVE  t = u
<1> DEFINE Facts(x) ==
      /\ TreeOwner(x, p) => TreePage(file, p) /\ p # Root /\ (op.kind = "promote" => p # op.right)
      /\ ChainOwner(x, p, ch) => file[p].kind = "overflow"
      /\ RowOwner(x, p, ch) => file[p].kind = "overflow"
      /\ RootOwner(x, p) => TreePage(file, p) /\ p = Root
      /\ PromotionOwner(x, p) => op.kind = "promote" /\ TreePage(file, p) /\ p = op.right /\ p # Root
<1>1. Facts(t) /\ Facts(u)
  BY OwnerKinds
<1>2. TreePage(file, p) => file[p].kind # "overflow"
  BY DEF TreePage
<1>3. CASE file[p].kind = "overflow"
  <2>1. (ChainOwner(t, p, ch) \/ RowOwner(t, p, ch)) /\ (ChainOwner(u, p, ch) \/ RowOwner(u, p, ch))
    BY ONLY <1>1, <1>2, <1>3, Owner(t, p, ch), Owner(u, p, ch) DEF Owner, Facts
  <2> QED BY <2>1, OverflowOwnerOnce
<1>4. CASE TreePage(file, p)
  <2>1. \/ TreeOwner(t, p) /\ TreeOwner(u, p)
        \/ RootOwner(t, p) /\ RootOwner(u, p)
        \/ PromotionOwner(t, p) /\ PromotionOwner(u, p)
    BY ONLY <1>1, <1>2, <1>4, Owner(t, p, ch), Owner(u, p, ch) DEF Owner, Facts
  <2>2. ASSUME TreeOwner(t, p), TreeOwner(u, p) PROVE t = u
    <3>1. HangsOnce
      BY EdgeOwners
    <3> QED BY ONLY <2>2, <3>1, p \in PageId DEF TreeOwner, HangsOnce
  <2> QED BY ONLY <2>1, <2>2 DEF RootOwner, PromotionOwner
<1> QED BY ONLY <1>1, <1>3, <1>4, Owner(t, p, ch) DEF Owner, Facts

\* A page in use has an owner.
LEMMA OwnerExists ==
  ASSUME Inv, NEW ch, RowsFiled(LeafCells(file), rows, ch), ChainsLaid(file, rows, ch), NEW p \in PageId,
         file[p].kind # "free"
  PROVE  \E t : Owner(t, p, ch)
<1>1. RoomKept(file, p)
  BY DEF Inv, Sound, FilePages
<1>2. file[p].kind = "overflow" \/ TreePage(file, p)
  BY ONLY <1>1, file[p].kind # "free" DEF RoomKept, TreePage, FreePage
<1>3. CASE TreePage(file, p)
  <2>1. Hanging
    BY EdgeOwners
  <2>2. CASE p = Root
    BY ONLY <2>2 DEF Owner, RootOwner
  <2>3. CASE op.kind = "promote" /\ p = op.right
    BY ONLY <2>3 DEF Owner, PromotionOwner
  <2>4. CASE \E a \in PageId, i \in Nat : Edge(file, a, i, p)
    <3>1. PICK a \in PageId, i \in Nat : Edge(file, a, i, p)
      BY <2>4
    <3>2. TreeOwner(<<a, i, p>>, p)
      BY ONLY <3>1, a \in PageId, i \in Nat DEF TreeOwner
    <3> QED BY ONLY <3>2 DEF Owner
  <2> QED BY ONLY <1>3, <2>1, <2>2, <2>3, <2>4, p \in PageId DEF Hanging
<1>4. CASE file[p].kind = "overflow"
  <2>1. PICK r \in DOMAIN rows, j \in Nat : j \in 1 .. Len(ch[r]) /\ ch[r][j] = p
    BY <1>4 DEF ChainsLaid
  <2>2. ch[r] \in Seq(PageId)
    BY DEF ChainsLaid
  <2>3. Len(ch[r]) \in Nat
    BY ONLY <2>2
  <2>4. CASE j = 1
    <3>1. PICK c \in LeafCells(file) : c.key = r
      BY DEF RowsFiled
    <3>2. c.over = Start(ch[c.key])
      BY DEF RowsFiled
    <3>3. Len(ch[c.key]) >= 1 /\ p = ch[c.key][1] /\ c.over = p
      BY ONLY <2>1, <2>3, <2>4, <3>1, <3>2 DEF Start
    <3>4. PICK a \in PageId, i \in Nat : LeafCell(file, a, i, c)
      BY DEF LeafCells
    <3>5. RowOwner(<<a, i, p>>, p, ch)
      BY ONLY <3>3, <3>4, a \in PageId, i \in Nat, c \in LeafCells(file) DEF RowOwner
    <3> QED BY ONLY <3>5 DEF Owner
  <2>5. CASE j # 1
    <3>1. PICK m \in Nat : j = m + 1 /\ m >= 1
      BY ONLY <2>1, <2>3, <2>5, j \in Nat, j - 1 \in Nat
    <3>2. j <= Len(ch[r])
      BY ONLY <2>1
    <3>3. ChainOwner(<<ch[r][m], 1, p>>, p, ch)
      BY ONLY <2>1, <3>1, <3>2, r \in DOMAIN rows, j \in Nat, m \in Nat DEF ChainOwner
    <3> QED BY ONLY <3>3 DEF Owner
  <2> QED BY <2>4, <2>5
<1> QED BY <1>2, <1>3, <1>4

\* At every level of a split or an unlinking a page in use has one owner and a
\* free page has none: no page leaks and none is shared.
THEOREM TreeOwners == Spec => []PagesHaveOneOwner
<1>1. Inv => PagesHaveOneOwner
  <2> SUFFICES ASSUME Inv, NEW p \in PageId
               PROVE  Cardinality({t \in Pointers : t[3] = p}) = IF file[p].kind = "free" THEN 0 ELSE 1
    BY DEF PagesHaveOneOwner
  <2>1. PICK ch : RowsFiled(LeafCells(file), rows, ch) /\ ChainsLaid(file, rows, ch)
    BY DEF Inv, Sound, Stored
  <2> DEFINE LeadsHere(t) == t[3] = p
             owners == {t \in Pointers : LeadsHere(t)}
  <2>2. ASSUME NEW t PROVE t \in owners <=> Owner(t, p, ch)
    BY <2>1, PointerKinds DEF Owner
  <2> HIDE DEF owners
  <2>3. CASE file[p].kind = "free"
    <3>1. ASSUME NEW t, Owner(t, p, ch) PROVE FALSE
      <4>1. /\ TreeOwner(t, p) => TreePage(file, p)
            /\ ChainOwner(t, p, ch) => file[p].kind = "overflow"
            /\ RowOwner(t, p, ch) => file[p].kind = "overflow"
            /\ RootOwner(t, p) => TreePage(file, p)
            /\ PromotionOwner(t, p) => TreePage(file, p)
        BY <2>1, OwnerKinds
      <4> QED BY ONLY <2>3, <3>1, <4>1 DEF Owner, TreePage
    <3>2. owners = {}
      BY ONLY <2>2, <3>1
    <3>3. Cardinality(owners) = 0
      BY ONLY <3>2, FS_EmptySet
    <3> QED BY <2>3, <3>3 DEF owners
  <2>4. CASE file[p].kind # "free"
    <3>1. PICK t : Owner(t, p, ch)
      BY <2>1, <2>4, OwnerExists
    <3>2. ASSUME NEW u, Owner(u, p, ch) PROVE u = t
      BY <2>1, <3>1, <3>2, OwnerOnce
    <3>3. owners = {t}
      BY ONLY <2>2, <3>1, <3>2
    <3>4. Cardinality(owners) = 1
      BY ONLY <3>3, FS_Singleton
    <3> QED BY <2>4, <3>4 DEF owners
  <2> QED BY <2>3, <2>4
<1> QED BY <1>1, TreeInvariant, PTL


-----------------------------------------------------------------------------
(* The deleted row fits again *)

\* A cell that goes to either end of a full page leaves two halves that fit,
\* wherever the split falls.
LEMMA EndCut ==
  ASSUME NEW C, CellSet(C), NEW c \in Seq(C), NEW x \in C, Len(c) >= 1, NEW s, s = 1 \/ s = Len(c) + 1,
         NEW room \in Nat, Used(c) <= room, x.size <= room,
         NEW n, n = ClosestToHalf(WithCell(c, s, x)) \/ (s = Len(c) + 1 /\ n = Len(c))
  PROVE  /\ Used(SubSeq(WithCell(c, s, x), 1, n)) <= room
         /\ Used(SubSeq(WithCell(c, s, x), n + 1, Len(WithCell(c, s, x)))) <= room
<1> DEFINE w == WithCell(c, s, x)  e == IF s = 1 THEN 1 ELSE Len(c)
<1>1. Len(c) \in Nat /\ s \in 1 .. Len(c) + 1 /\ x.size \in Nat
  BY DEF CellSet
<1>2. w \in Seq(C) /\ Len(w) = Len(c) + 1 /\ IsInsert(c, s, x, w)
  BY ONLY <1>1, c \in Seq(C), x \in C, WithCellFacts
<1>3. Used(w) = Used(c) + x.size
  BY ONLY <1>1, c \in Seq(C), x \in C, CellSet(C), UsedInsert
<1>4. Used(c) \in Nat
  BY ONLY c \in Seq(C), CellSet(C), RunFacts
<1>5. /\ Run(w)[0] = 0
      /\ \A k \in 1 .. Len(w) : Run(w)[k] = Run(w)[k - 1] + w[k].size
      /\ Used(w) = Run(w)[Len(w)] /\ Run(w) \in [0 .. Len(w) -> Nat]
  BY ONLY <1>2, CellSet(C), RunFacts
<1>6. w[s] = x
  BY ONLY <1>1, <1>2 DEF IsInsert
<1> HIDE DEF w
<1>7. e \in 1 .. Len(c)
  BY ONLY <1>1, Len(c) >= 1 DEF e
<1>8. Run(w)[e] \in Nat /\ Run(w)[e] <= room /\ Used(w) - Run(w)[e] <= room
  <2>1. CASE s = 1
    <3>1. 1 \in 1 .. Len(w)
      BY ONLY <1>1, <1>2
    <3>2. Run(w)[1] = x.size
      <4>1. Run(w)[1] = Run(w)[1 - 1] + w[1].size
        BY ONLY <1>5, <3>1
      <4> QED BY ONLY <1>1, <1>5, <1>6, <2>1, <4>1, 1 - 1 = 0
    <3> QED BY ONLY <1>1, <1>3, <1>4, <2>1, <3>2, Used(c) <= room, x.size <= room, room \in Nat DEF e
  <2>2. CASE s # 1
    <3>1. s = Len(c) + 1 /\ e = Len(c) /\ s = Len(w) /\ s \in 1 .. Len(w) /\ s - 1 = e
      BY ONLY <1>1, <1>2, <2>2, s = 1 \/ s = Len(c) + 1 DEF e
    <3> HIDE DEF e
    <3>2. Run(w)[s] = Run(w)[e] + x.size
      BY ONLY <1>5, <1>6, <3>1
    <3>3. Run(w)[e] \in Nat
      <4>1. e \in 0 .. Len(w)
        BY ONLY <1>1, <1>2, <3>1
      <4> QED BY ONLY <1>5, <4>1
    <3>4. Run(w)[e] = Used(c)
      BY ONLY <1>1, <1>3, <1>4, <1>5, <3>1, <3>2, <3>3
    <3> QED BY ONLY <1>1, <1>3, <1>4, <3>3, <3>4, Used(c) <= room, x.size <= room, room \in Nat
  <2> QED BY <2>1, <2>2
<1>9. n \in 1 .. Len(c) /\ Run(w)[n] \in Nat /\ Run(w)[n] <= room /\ Used(w) - Run(w)[n] <= room
  <2>1. CASE s = Len(c) + 1 /\ n = Len(c)
    <3>1. n = e
      BY ONLY <1>1, <2>1, Len(c) >= 1 DEF e
    <3> QED BY ONLY <1>7, <1>8, <3>1
  <2>2. CASE n = ClosestToHalf(w)
    <3>1. Len(w) >= 2 /\ Len(w) - 1 = Len(c)
      BY ONLY <1>1, <1>2, Len(c) >= 1
    <3>2. /\ n \in 1 .. Len(c)
          /\ \A k \in 1 .. Len(c) : Distance(2 * Run(w)[n], Used(w)) <= Distance(2 * Run(w)[k], Used(w))
      <4>1. /\ ClosestToHalf(w) \in 1 .. Len(w) - 1
            /\ \A k \in 1 .. Len(w) - 1 :
                  Distance(2 * Run(w)[ClosestToHalf(w)], Used(w)) <= Distance(2 * Run(w)[k], Used(w))
        BY ONLY <1>2, <3>1, CellSet(C), ClosestToHalfFacts
      <4> QED BY ONLY <2>2, <3>1, <4>1
    <3>3. Run(w)[n] \in Nat
      <4>1. n \in 0 .. Len(w)
        BY ONLY <1>1, <1>2, <3>2
      <4> QED BY ONLY <1>5, <4>1
    <3>4. PICK a, b, u \in Nat : a = Run(w)[n] /\ b = Run(w)[e] /\ u = Used(w)
      BY ONLY <1>1, <1>3, <1>4, <1>8, <3>3
    <3>5. Distance(2 * a, u) <= Distance(2 * b, u)
      BY ONLY <1>7, <3>2, <3>4
    <3>6. b <= room /\ u - b <= room
      BY ONLY <1>8, <3>4
    <3>7. a <= room /\ u - a <= room
      BY ONLY <3>5, <3>6, room \in Nat, a \in Nat, b \in Nat, u \in Nat DEF Distance
    <3> QED BY ONLY <3>2, <3>3, <3>4, <3>7
  <2> QED BY <2>1, <2>2 DEF w
<1>10. n \in 0 .. Len(w)
  BY ONLY <1>1, <1>2, <1>9
<1>11. /\ Used(SubSeq(w, 1, n)) = Run(w)[n]
       /\ Used(SubSeq(w, n + 1, Len(w))) = Used(w) - Run(w)[n]
  BY ONLY <1>2, <1>10, CellSet(C), UsedParts
<1> QED BY ONLY <1>9, <1>11 DEF w

\* A key between two of a leaf's keys belongs to that leaf.
LEMMA KeyBetween ==
  ASSUME NEW C, CellSet(C), NEW V, NEW root, NEW hole, NEW ht, NEW span,
         Structure(C, V, root, hole, ht, span),
         NEW p \in DOMAIN V, NEW q \in DOMAIN V, V[p].kind = "leaf", V[q].kind = "leaf",
         NEW i \in 1 .. Len(V[p].cells), NEW j \in 1 .. Len(V[p].cells), NEW m \in 1 .. Len(V[q].cells),
         V[p].cells[i].key < V[q].cells[m].key, V[q].cells[m].key < V[p].cells[j].key
  PROVE  p = q
<1> DEFINE a == V[p].cells[i].key  b == V[p].cells[j].key  r == V[q].cells[m].key
           wide == [y \in DOMAIN V |-> IF a \in span[y] /\ b \in span[y] THEN span[y] \cup {r} ELSE span[y]]
<1>1. WellFormed(C, V, hole) /\ Heights(V, root, ht) /\ Parents(V, root) /\ Spans(V, span)
  BY DEF Structure
<1>2. TreePage(V, p) /\ TreePage(V, q)
  BY DEF TreePage
<1>3. /\ span \in [DOMAIN V -> SUBSET Nat]
      /\ \A x \in DOMAIN V : TreePage(V, x) => \A k \in 1 .. Len(V[x].cells) : V[x].cells[k].key \in span[x]
      /\ \A x, y \in DOMAIN V, k \in Nat : Edge(V, x, k, y) =>
            \A z \in span[y] : z \in span[x] /\ Routes(V[x].cells, k, z)
  BY ONLY <1>1 DEF Spans
<1>4. a \in span[p] /\ b \in span[p] /\ r \in span[q] /\ span[p] \in SUBSET Nat /\ span[q] \in SUBSET Nat
  BY ONLY <1>2, <1>3, p \in DOMAIN V, q \in DOMAIN V, i \in 1 .. Len(V[p].cells), j \in 1 .. Len(V[p].cells),
     m \in 1 .. Len(V[q].cells)
<1>5. a \in Nat /\ b \in Nat /\ r \in Nat /\ a < r /\ r < b
  BY ONLY <1>4, V[p].cells[i].key < V[q].cells[m].key, V[q].cells[m].key < V[p].cells[j].key
<1> HIDE DEF a, b, r
<1>6. \A y \in DOMAIN V : \A z : z \in wide[y] <=> z \in span[y] \/ (z = r /\ a \in span[y] /\ b \in span[y])
  BY ONLY <1>3 DEF wide
<1>7. wide \in [DOMAIN V -> SUBSET Nat]
  BY ONLY <1>3, <1>5 DEF wide
<1> HIDE DEF wide
<1>8. ASSUME NEW x \in DOMAIN V, NEW y \in DOMAIN V, NEW k \in Nat, Edge(V, x, k, y), NEW z \in wide[y]
      PROVE  z \in wide[x] /\ Routes(V[x].cells, k, z)
  <2>1. CASE z \in span[y]
    BY ONLY <1>3, <1>6, <1>8, <2>1
  <2>2. CASE z = r /\ a \in span[y] /\ b \in span[y]
    <3>1. a \in span[x] /\ b \in span[x] /\ Routes(V[x].cells, k, a) /\ Routes(V[x].cells, k, b)
      BY ONLY <1>3, <1>8, <2>2
    <3>2. Routes(V[x].cells, k, r)
      <4> SUFFICES ASSUME NEW l \in 1 .. Len(V[x].cells)
                   PROVE  IF l < k THEN V[x].cells[l].key < r ELSE r <= V[x].cells[l].key
        BY DEF Routes
      <4>1. IF l < k THEN V[x].cells[l].key < a ELSE b <= V[x].cells[l].key
        BY ONLY <3>1, l \in 1 .. Len(V[x].cells) DEF Routes
      <4>2. V[x].cells[l].key \in Nat
        <5>1. TreePage(V, x)
          BY ONLY <1>8 DEF Edge, TreePage
        <5>2. V[x].cells[l].key \in span[x] /\ span[x] \in SUBSET Nat
          BY ONLY <1>3, <5>1, x \in DOMAIN V, l \in 1 .. Len(V[x].cells)
        <5> QED BY ONLY <5>2
      <4> QED BY ONLY <1>5, <4>1, <4>2
    <3> QED BY ONLY <1>6, <2>2, <3>1, <3>2, x \in DOMAIN V
  <2> QED BY ONLY <1>6, <1>8, <2>1, <2>2
<1>9. Spans(V, wide)
  BY ONLY <1>3, <1>6, <1>7, <1>8 DEF Spans
<1>10. Structure(C, V, root, hole, ht, wide)
  BY ONLY <1>1, <1>9 DEF Structure
<1>11. ht[p] = ht[q]
  BY ONLY <1>1, p \in DOMAIN V, q \in DOMAIN V, V[p].kind = "leaf", V[q].kind = "leaf" DEF Heights
<1>12. r \in wide[p] /\ r \in wide[q]
  BY ONLY <1>4, <1>6, p \in DOMAIN V, q \in DOMAIN V
<1> QED BY ONLY <1>2, <1>5, <1>10, <1>11, <1>12, p \in DOMAIN V, q \in DOMAIN V, CellSet(C), SpansApart


\* No leaf has keys on both sides of r.
Apart(F, r) ==
  \A p \in PageId : F[p].kind = "leaf" =>
     \/ \A i \in 1 .. Len(F[p].cells) : F[p].cells[i].key < r
     \/ \A i \in 1 .. Len(F[p].cells) : r < F[p].cells[i].key
\* The leaf that a row would go to, and whether that leaf has the room.
HomeIn(F, r) == Last(Descent(F, Root, [p \in PageId |-> LowerBound(F[p].cells, r)]))[1]
TakesRow(F, r, payload) == Used(F[HomeIn(F, r)].cells) + payload.size <= LeafRoom

\* Either the row that was deleted left room in its leaf, or it was alone
\* there; and then, with its leaf gone, it would be at the end of another.
FitsAgain ==
  removed # Nothing =>
     /\ op.kind # "promote" /\ removed.rowid \in Rowid /\ removed.payload \in Payload
     /\ \/ Apart(file, removed.rowid)
        \/ op = Idle /\ TakesRow(file, removed.rowid, removed.payload)

\* A row that is at the end of its leaf can always be split in.
LEMMA EndSplits ==
  ASSUME Inv, op = Idle, NEW r \in Rowid, NEW pl \in Payload, Apart(file, r), NeedsSplit(r, pl)
  PROVE  ~CannotSplit(r, pl)
<1> DEFINE c == file[Home(r)].cells  s == HomeAt(r)  x == RowCell(r, pl, NoPage)  w == WithCell(c, s, x)
           n == LeftSize(w, (Len(FindLeaf(r)) = 1
                                \/ ParentOf(r)[2] = Len(file[ParentOf(r)[1]].kids)) /\ s = Len(c) + 1)
<1>1. /\ Home(r) \in PageId /\ file[Home(r)].kind = "leaf" /\ c \in Seq(Cells) /\ Sorted(c)
      /\ s \in 1 .. Len(c) + 1 /\ Routes(c, s, r)
  BY HomeFacts
<1>2. x \in Cells /\ x.size = pl.size /\ x.size <= LeafRoom /\ CellSet(Cells) /\ LeafRoom \in Nat /\ x.size \in Nat
  <2>1. pl.size \in 1 .. LeafRoom /\ LeafRoom \in Nat /\ CellSet(Cells) /\ pl.size \in Nat
    BY Constants
  <2>2. x \in Cells /\ x.size = pl.size
    BY ONLY <2>1, r \in Rowid DEF RowCell, Cells
  <2> QED BY ONLY <2>1, <2>2
<1>3. Used(c) + x.size > LeafRoom
  <2>1. ~(Used(c) + x.size <= LeafRoom)
    BY NeedsSplit(r, pl) DEF NeedsSplit, Fits, Home
  <2>2. Used(c) \in Nat
    BY ONLY <1>1, <1>2, RunFacts
  <2> QED BY ONLY <1>2, <2>1, <2>2
<1>4. Used(c) <= LeafRoom
  <2>1. RoomKept(file, Home(r))
    BY <1>1, AtRest
  <2> QED BY ONLY <1>1, <2>1 DEF RoomKept, FreePage
<1>5. SplitOf(r, pl).left = SubSeq(w, 1, n) /\ SplitOf(r, pl).right = SubSeq(w, n + 1, Len(w))
  BY DEF SplitOf, Home, HomeAt, ParentOf
<1>6. CannotSplit(r, pl) <=> Used(SubSeq(w, 1, n)) > LeafRoom \/ Used(SubSeq(w, n + 1, Len(w))) > LeafRoom
  BY ONLY <1>5 DEF CannotSplit
<1>7. Len(c) \in Nat /\ Used(c) \in Nat /\ (Len(c) = 0 => Used(c) = 0)
  BY ONLY <1>1, <1>2, RunFacts
<1>8. Len(c) >= 1
  BY ONLY <1>2, <1>3, <1>7
<1>9. \/ \A i \in 1 .. Len(c) : c[i].key < r
      \/ \A i \in 1 .. Len(c) : r < c[i].key
  BY ONLY <1>1, Apart(file, r) DEF Apart
<1>10. n = ClosestToHalf(w) \/ (s = Len(c) + 1 /\ n = Len(w) - 1)
  BY DEF LeftSize
<1>11. Len(w) = Len(c) + 1
  BY ONLY <1>1, <1>2, WithCellFacts
<1>12. \A i \in 1 .. Len(c) : c[i].key \in Nat
  BY ONLY <1>1, <1>2 DEF CellSet
<1>13. r \in Nat
  BY Constants
<1> HIDE DEF n, w, c, s, x
<1>14. s = 1 \/ s = Len(c) + 1
  <2> SUFFICES ASSUME s # 1, s # Len(c) + 1 PROVE FALSE
    OBVIOUS
  <2>1. PICK k \in 1 .. Len(c) : k = s - 1
    BY ONLY <1>1, <1>7, s # 1, s # Len(c) + 1
  <2>2. s \in 1 .. Len(c) /\ k < s /\ ~(s < s)
    BY ONLY <1>1, <1>7, <2>1, s # Len(c) + 1
  <2>3. c[k].key < r /\ r <= c[s].key
    BY ONLY <1>1, <2>1, <2>2 DEF Routes
  <2> QED BY ONLY <1>9, <1>12, <1>13, <2>2, <2>3, k \in 1 .. Len(c)
<1>15. n = ClosestToHalf(w) \/ (s = Len(c) + 1 /\ n = Len(c))
  BY ONLY <1>7, <1>10, <1>11
<1>16. Used(SubSeq(w, 1, n)) <= LeafRoom /\ Used(SubSeq(w, n + 1, Len(w))) <= LeafRoom
  BY ONLY <1>1, <1>2, <1>4, <1>8, <1>14, <1>15, EndCut DEF w
<1>17. Used(SubSeq(w, 1, n)) \in Nat /\ Used(SubSeq(w, n + 1, Len(w))) \in Nat
  <2>1. w \in Seq(Cells)
    BY ONLY <1>1, <1>2, WithCellFacts DEF w
  <2>2. n \in 0 .. Len(w)
    <3>1. Len(w) >= 2
      BY ONLY <1>7, <1>8, <1>11
    <3>2. ClosestToHalf(w) \in 1 .. Len(w) - 1
      BY ONLY <1>2, <2>1, <3>1, ClosestToHalfFacts
    <3> QED BY ONLY <1>7, <1>8, <1>11, <1>15, <3>2
  <2>3. SubSeq(w, 1, n) \in Seq(Cells) /\ SubSeq(w, n + 1, Len(w)) \in Seq(Cells)
    BY ONLY <2>1, <2>2
  <2> QED BY ONLY <1>2, <2>3, RunFacts
<1> QED BY ONLY <1>2, <1>6, <1>16, <1>17

\* What the invariant says of the row is what the property asks for.
LEMMA FitsAgainSuffices ==
  ASSUME Inv, FitsAgain
  PROVE  DeletedRowFitsAgain
<1> SUFFICES ASSUME op = Idle, removed # Nothing, NeedsSplit(removed.rowid, removed.payload)
             PROVE  ~CannotSplit(removed.rowid, removed.payload)
  BY DEF DeletedRowFitsAgain
<1>1. removed.rowid \in Rowid /\ removed.payload \in Payload
  BY DEF FitsAgain
<1>2. ~TakesRow(file, removed.rowid, removed.payload)
  BY DEF NeedsSplit, Fits, TakesRow, HomeIn, FindLeaf, RowCell
<1>3. Apart(file, removed.rowid)
  BY <1>2 DEF FitsAgain
<1> QED BY <1>1, <1>3, EndSplits


\* The way down to a leaf does not depend on what the leaves hold.
LEMMA SameWay ==
  ASSUME NEW F, NEW G, DOMAIN F = PageId, DOMAIN G = PageId,
         \A p \in PageId : F[p].kind = "interior" <=> G[p].kind = "interior",
         \A p \in PageId : F[p].kind = "interior" => F[p] = G[p],
         NEW hole, hole \notin PageId, NEW hF, NEW sF, Structure(Cells, F, Root, hole, hF, sF),
         NEW hG, NEW sG, Structure(Cells, G, Root, hole, hG, sG), NEW r \in Nat
  PROVE  HomeIn(F, r) = HomeIn(G, r)
<1> DEFINE slots(H) == [p \in PageId |-> LowerBound(H[p].cells, r)]
           child(H) == [p \in PageId |-> IF H[p].kind = "interior" THEN H[p].kids[slots(H)[p]] ELSE 0]
           pages(H) == Follow(child(H), Root)
           path(H) == Descent(H, Root, slots(H))
<1>1. child(F) = child(G)
  <2>1. \A p \in PageId : (IF F[p].kind = "interior" THEN F[p].kids[LowerBound(F[p].cells, r)] ELSE 0)
                        = (IF G[p].kind = "interior" THEN G[p].kids[LowerBound(G[p].cells, r)] ELSE 0)
    OBVIOUS
  <2>2. \A p \in PageId : slots(F)[p] = LowerBound(F[p].cells, r) /\ slots(G)[p] = LowerBound(G[p].cells, r)
    OBVIOUS
  <2> HIDE DEF slots
  <2>3. \A p \in PageId : (IF F[p].kind = "interior" THEN F[p].kids[slots(F)[p]] ELSE 0)
                        = (IF G[p].kind = "interior" THEN G[p].kids[slots(G)[p]] ELSE 0)
    BY ONLY <2>1, <2>2
  <2> QED BY ONLY <2>3
<1>2. ASSUME NEW H, DOMAIN H = PageId PROVE path(H) = [n \in 1 .. Len(pages(H)) |-> <<pages(H)[n], slots(H)[pages(H)[n]]>>]
  BY ONLY <1>2 DEF Descent
<1>3. ASSUME NEW H, DOMAIN H = PageId, NEW ht, NEW span, Structure(Cells, H, Root, hole, ht, span)
      PROVE  Len(path(H)) \in Nat /\ Len(path(H)) >= 1 /\ DOMAIN path(H) = 1 .. Len(path(H))
             /\ HomeIn(H, r) = path(H)[Len(path(H))][1]
  <2>1. CellSet(Cells) /\ 0 \notin PageId
    BY Constants
  <2>2. Leads(Cells, H, Root, r, Descent(H, Root, [p \in DOMAIN H |-> LowerBound(H[p].cells, r)]))
    BY ONLY <1>3, <2>1, hole \notin PageId, r \in Nat, DescentLeads
  <2>3. Leads(Cells, H, Root, r, path(H))
    BY ONLY <1>3, <2>2
  <2>4. HomeIn(H, r) = Last(path(H))[1]
    BY DEF HomeIn
  <2> HIDE DEF path
  <2>5. Len(path(H)) \in Nat /\ Len(path(H)) >= 1 /\ Last(path(H)) = path(H)[Len(path(H))]
    BY ONLY <2>3, LeadsFacts
  <2>6. path(H) \in Seq((DOMAIN H) \X Nat)
    BY ONLY <2>3 DEF Leads
  <2>7. DOMAIN path(H) = 1 .. Len(path(H))
    BY ONLY <2>6
  <2> QED BY ONLY <2>4, <2>5, <2>7
<1>4. pages(F) = pages(G)
  BY ONLY <1>1
<1> HIDE DEF path, pages, slots
<1>5. /\ path(F) = [n \in 1 .. Len(pages(F)) |-> <<pages(F)[n], slots(F)[pages(F)[n]]>>]
      /\ path(G) = [n \in 1 .. Len(pages(G)) |-> <<pages(G)[n], slots(G)[pages(G)[n]]>>]
  BY <1>2
<1>6. /\ Len(path(F)) \in Nat /\ Len(path(F)) >= 1 /\ DOMAIN path(F) = 1 .. Len(path(F))
      /\ HomeIn(F, r) = path(F)[Len(path(F))][1]
      /\ Len(path(G)) \in Nat /\ Len(path(G)) >= 1 /\ DOMAIN path(G) = 1 .. Len(path(G))
      /\ HomeIn(G, r) = path(G)[Len(path(G))][1]
  BY <1>3
<1>7. DOMAIN path(F) = DOMAIN path(G)
  BY ONLY <1>4, <1>5
<1>8. Len(path(F)) = Len(path(G))
  <2>1. PICK m, n \in Nat : m = Len(path(F)) /\ n = Len(path(G))
    BY <1>6
  <2>2. 1 .. m = 1 .. n /\ m >= 1 /\ n >= 1
    BY ONLY <1>6, <1>7, <2>1
  <2>3. m \in 1 .. n /\ n \in 1 .. m
    BY ONLY <2>2, m \in Nat, n \in Nat
  <2> QED BY ONLY <2>1, <2>3, m \in Nat, n \in Nat
<1>9. \A n \in DOMAIN path(F) : path(F)[n][1] = pages(F)[n]
  BY ONLY <1>5
<1>10. \A n \in DOMAIN path(G) : path(G)[n][1] = pages(G)[n]
  BY ONLY <1>5
<1>11. Len(path(F)) \in DOMAIN path(F)
  BY ONLY <1>6
<1> QED BY ONLY <1>4, <1>6, <1>7, <1>8, <1>9, <1>10, <1>11

\* What a deletion leaves behind.
LEMMA DeleteFits ==
  ASSUME Inv, NEW r \in Rowid, Delete(r)
  PROVE  FitsAgain'
<1> DEFINE W == Gone(r)  h == Home(r)  c == file[h].cells  s == HomeAt(r)  left == Left(r)
<1>1. op = Idle /\ Search(r)
  BY DEF Delete
<1>2. file' = W /\ removed' = [rowid |-> r, payload |-> rows[r]]
  BY DEF Delete, Gone, Home, HomeAt, Left
<1>3. op'.kind # "promote" /\ (left # <<>> => op' = Idle)
  <2>1. op' = IF left = <<>> /\ h # Root
              THEN [Idle EXCEPT !.kind = "unlink", !.path = FindLeaf(r), !.level = Len(FindLeaf(r)) - 1, !.left = h]
              ELSE Idle
    BY DEF Delete, Home, HomeAt, Left
  <2> HIDE DEF left, h
  <2>2. PICK a, b : a = FindLeaf(r) /\ b = Len(FindLeaf(r)) - 1
    OBVIOUS
  <2>3. op' = IF left = <<>> /\ h # Root
              THEN [Idle EXCEPT !.kind = "unlink", !.path = a, !.level = b, !.left = h] ELSE Idle
    BY ONLY <2>1, <2>2
  <2> QED BY ONLY <2>3 DEF Idle
<1>4. /\ r \in DOMAIN rows /\ s \in 1 .. Len(c) /\ c[s].key = r /\ c[s] \in LeafCells(file)
      /\ left \in Seq(Cells)
  BY <1>1, LeftFacts
<1>5. h \in PageId /\ file[h].kind = "leaf" /\ c \in Seq(Cells)
  BY <1>1, HomeFacts
<1>6. RowsTyped(rows) /\ Stored(file, rows) /\ DOMAIN file = PageId /\ RoomKept(file, h)
  BY <1>1, <1>5, AtRest
<1>7. PICK ch : RowsFiled(LeafCells(file), rows, ch) /\ ChainsLaid(file, rows, ch)
  BY <1>6 DEF Stored
<1>8. rows[r] \in Payload /\ c[s].size = rows[r].size
  BY ONLY <1>4, <1>6, <1>7 DEF RowsTyped, RowsFiled
<1>9. /\ W = [p \in PageId |-> W[p]] /\ W[h] = Leaf(left)
      /\ \A p \in PageId \ {h} : W[p] = file[p] \/ (file[p].kind = "overflow" /\ W[p] = FreePage)
  BY <1>1, <1>7, GoneFacts
<1> HIDE DEF W, h, c, s, left
<1>10. CASE left = <<>>
  <2>1. Apart(W, r)
    <3> SUFFICES ASSUME NEW p \in PageId, W[p].kind = "leaf", NEW i \in 1 .. Len(W[p].cells), ~(W[p].cells[i].key < r),
                        NEW j \in 1 .. Len(W[p].cells), ~(r < W[p].cells[j].key)
                 PROVE  FALSE
      BY DEF Apart
    <3>1. p # h
      <4> SUFFICES ASSUME p = h PROVE FALSE
        OBVIOUS
      <4>1. W[p].cells = <<>>
        BY ONLY <1>9, <1>10, p = h DEF Leaf
      <4> QED BY ONLY <4>1, i \in 1 .. Len(W[p].cells)
    <3>2. W[p] = file[p]
      BY ONLY <1>9, <3>1, p \in PageId, W[p].kind = "leaf" DEF FreePage
    <3>3. file[p].cells \in Seq(Cells) /\ file[p].kind = "leaf"
      BY <3>2, PagesTyped
    <3>4. PICK ht, span : Structure(Cells, file, Root, NoPage, ht, span)
      BY <1>1, AtRest
    <3>5. CellSet(Cells) /\ r \in Nat
      BY Constants
    <3>6. PICK a, b \in Nat : a = file[p].cells[i].key /\ b = file[p].cells[j].key
      BY ONLY <3>2, <3>3, <3>5, i \in 1 .. Len(W[p].cells), j \in 1 .. Len(W[p].cells) DEF CellSet
    <3>7. b <= r /\ r <= a
      BY ONLY <3>2, <3>5, <3>6, ~(W[p].cells[i].key < r), ~(r < W[p].cells[j].key)
    <3>8. /\ i \in 1 .. Len(file[p].cells) /\ j \in 1 .. Len(file[p].cells)
          /\ p \in DOMAIN file /\ h \in DOMAIN file /\ file[h].kind = "leaf"
          /\ s \in 1 .. Len(file[h].cells) /\ file[h].cells[s].key = r
      BY ONLY <1>4, <1>5, <1>6, <3>2, p \in PageId, i \in 1 .. Len(W[p].cells), j \in 1 .. Len(W[p].cells) DEF c
    <3>9. a # r /\ b # r
      <4>1. CASE a = r
        BY ONLY <3>1, <3>3, <3>4, <3>5, <3>6, <3>8, <4>1, RowOnce
      <4>2. CASE b = r
        BY ONLY <3>1, <3>3, <3>4, <3>5, <3>6, <3>8, <4>2, RowOnce
      <4> QED BY <4>1, <4>2
    <3>10. file[p].cells[j].key < file[h].cells[s].key /\ file[h].cells[s].key < file[p].cells[i].key
      BY ONLY <3>5, <3>6, <3>7, <3>8, <3>9
    <3>11. p = h
      BY ONLY <3>3, <3>4, <3>5, <3>8, <3>10, KeyBetween
    <3> QED BY ONLY <3>1, <3>11
  <2> QED BY ONLY <1>2, <1>3, <1>8, <2>1, r \in Rowid DEF FitsAgain
<1>11. CASE left # <<>>
  <2>1. PICK hF, sF : Structure(Cells, file, Root, NoPage, hF, sF)
    BY <1>1, AtRest
  <2>2. \E ht, span : Structure(Cells, Gone(r), Root, NoPage, ht, span)
    BY <1>1, GoneKeeps
  <2>3. PICK hG, sG : Structure(Cells, W, Root, NoPage, hG, sG)
    BY ONLY <2>2 DEF W
  <2>4. DOMAIN W = PageId
    BY ONLY <1>9
  <2>5. ASSUME NEW p \in PageId
        PROVE  (file[p].kind = "interior" <=> W[p].kind = "interior") /\ (file[p].kind = "interior" => file[p] = W[p])
    <3>1. CASE p = h
      BY ONLY <1>5, <1>9, <3>1 DEF Leaf
    <3>2. CASE p # h
      BY ONLY <1>9, <3>2, p \in PageId DEF FreePage
    <3> QED BY <3>1, <3>2
  <2>6. r \in Nat /\ NoPage \notin PageId /\ CellSet(Cells) /\ LeafRoom \in Nat
    BY Constants
  <2>7. HomeIn(file, r) = HomeIn(W, r)
    BY ONLY <1>6, <2>1, <2>3, <2>4, <2>5, <2>6, SameWay
  <2>8. HomeIn(file, r) = h
    BY DEF HomeIn, h, Home, FindLeaf
  <2>9. Used(c) = Used(left) + c[s].size
    <3>1. Used(c) = Used(WithoutCell(c, s)) + c[s].size
      BY ONLY <1>4, <1>5, <2>6, UsedRemove
    <3>2. left = WithoutCell(c, s)
      BY DEF left, Left, c, s, h
    <3> QED BY ONLY <3>1, <3>2
  <2>10. Used(c) <= LeafRoom
    BY ONLY <1>5, <1>6 DEF RoomKept, FreePage, c
  <2>11. W[HomeIn(W, r)].cells = left
    BY ONLY <1>9, <2>7, <2>8 DEF Leaf
  <2>12. TakesRow(W, r, rows[r])
    BY ONLY <1>8, <2>9, <2>10, <2>11 DEF TakesRow
  <2> QED BY ONLY <1>2, <1>3, <1>8, <1>11, <2>12, r \in Rowid DEF FitsAgain
<1> QED BY <1>10, <1>11

\* Unlinking takes pages away that hold no row.
LEMMA UnlinkFits ==
  ASSUME Inv, FitsAgain, Unlink
  PROVE  FitsAgain'
<1> DEFINE x == IF op.level = 1 /\ WithoutChild(file[Here], SlotAt(op)).kids = <<>> THEN Leaf(<<>>)
                ELSE WithoutChild(file[Here], SlotAt(op))
           W == [file EXCEPT ![Here] = x, ![op.left] = FreePage]
<1>1. op.kind = "unlink" /\ removed' = removed /\ file' = W
  BY DEF Unlink, SlotAt
<1>2. op'.kind # "promote"
  <2>1. op' = Idle \/ op' = [op EXCEPT !.level = @ - 1, !.left = Here]
    BY DEF Unlink
  <2>2. op \in OpType
    BY <1>1, UnlinkFacts
  <2>3. [op EXCEPT !.level = @ - 1, !.left = Here].kind = op.kind
    BY ONLY <2>2 DEF OpType
  <2>4. PICK k : k = [op EXCEPT !.level = @ - 1, !.left = Here]
    OBVIOUS
  <2>5. k.kind = "unlink"
    BY ONLY <1>1, <2>3, <2>4
  <2>6. op' = Idle \/ op' = k
    BY ONLY <2>1, <2>4
  <2> QED BY ONLY <2>5, <2>6 DEF Idle
<1>3. /\ Here \in PageId /\ op.left \in PageId /\ op.left # Here /\ DOMAIN file = PageId
  BY <1>1, UnlinkFacts
<1>4. x.kind = "leaf" => x.cells = <<>>
  BY DEF Leaf, WithoutChild, Interior
<1> HIDE DEF x
<1>5. W[op.left] = FreePage /\ W[Here] = x /\ \A p \in PageId \ {Here, op.left} : W[p] = file[p]
  BY ONLY <1>3
<1> HIDE DEF W
<1>6. ASSUME removed # Nothing PROVE Apart(W, removed.rowid)
  <2>1. Apart(file, removed.rowid)
    BY <1>1, <1>6 DEF FitsAgain, Idle
  <2> SUFFICES ASSUME NEW p \in PageId, W[p].kind = "leaf"
               PROVE  \/ \A i \in 1 .. Len(W[p].cells) : W[p].cells[i].key < removed.rowid
                      \/ \A i \in 1 .. Len(W[p].cells) : removed.rowid < W[p].cells[i].key
    BY DEF Apart
  <2>2. CASE p = op.left
    BY ONLY <1>5, <2>2, W[p].kind = "leaf" DEF FreePage
  <2>3. CASE p = Here
    <3>1. W[p].cells = <<>>
      BY ONLY <1>4, <1>5, <2>3, W[p].kind = "leaf"
    <3> QED BY ONLY <3>1
  <2>4. CASE p \notin {Here, op.left}
    BY ONLY <1>5, <2>1, <2>4, p \in PageId, W[p].kind = "leaf" DEF Apart
  <2> QED BY <2>2, <2>3, <2>4
<1> QED BY <1>1, <1>2, <1>6 DEF FitsAgain

\* Deleting a row never makes it impossible to put it back: an update that does
\* not fit can restore what it removed.
THEOREM DeletedRowFits == Spec => []DeletedRowFitsAgain
<1>1. Init => FitsAgain
  BY DEF Init, FitsAgain
<1>2. Inv /\ FitsAgain /\ [Next]_vars => FitsAgain'
  <2> SUFFICES ASSUME Inv, FitsAgain, [Next]_vars PROVE FitsAgain'
    OBVIOUS
  <2>1. CASE UNCHANGED vars
    BY <2>1 DEF vars, FitsAgain
  <2>2. ASSUME NEW r \in Rowid, NEW p \in Payload,
               Insert(r, p) \/ SplitRootLeaf(r, p) \/ SplitLeaf(r, p)
        PROVE  FitsAgain'
    <3>1. removed' = Nothing
      BY <2>2 DEF Insert, SplitRootLeaf, SplitLeaf, Accepted
    <3> QED BY <3>1 DEF FitsAgain, Nothing
  <2>3. ASSUME NEW r \in Rowid, NEW p \in Payload, InsertFails(r, p) PROVE FitsAgain'
    BY <2>1, <2>3 DEF InsertFails
  <2>4. ASSUME NEW r \in Rowid, Delete(r) PROVE FitsAgain'
    BY <2>4, DeleteFits
  <2>5. ASSUME NEW r \in Rowid, DeleteAbsent(r) PROVE FitsAgain'
    BY <2>1, <2>5 DEF DeleteAbsent
  <2>6. CASE PromoteFits \/ PromoteSplits \/ PromoteSplitsRoot
    <3>1. removed' = removed /\ op.kind = "promote"
      BY <2>6 DEF PromoteFits, PromoteSplits, PromoteSplitsRoot
    <3>2. removed' = Nothing
      BY <3>1 DEF FitsAgain
    <3> QED BY <3>2 DEF FitsAgain, Nothing
  <2>7. CASE Unlink
    BY <2>7, UnlinkFits
  <2> QED BY ONLY <2>1, <2>2, <2>3, <2>4, <2>5, <2>6, <2>7, [Next]_vars DEF Next
<1>3. Inv /\ FitsAgain => DeletedRowFitsAgain
  BY FitsAgainSuffices
<1> QED BY <1>1, <1>2, <1>3, TreeInvariant, PTL DEF Spec

=============================================================================
