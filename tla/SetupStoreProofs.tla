--------------------------- MODULE SetupStoreProofs ---------------------------
(***************************************************************************)
(* Proofs about SetupStore: whatever setups there are, however often they  *)
(* are loaded, changed, refused and saved, and wherever a save fails, the  *)
(* copies of the setups agree as far as the module claims.                 *)
(***************************************************************************)
EXTENDS SetupStore, TLAPS

\* Elements of a list or tree have different names.
Unique(l) == \A i, j \in 1..Len(l) : i # j => l[i].name # l[j].name

AllParse(t) == \A i \in 1..Len(t) : Parses(t[i].doc)

\* What a setup in gs_setups always is: writing it and reading it again
\* gives the same setup.
Canonical(s) ==
    /\ s \in Setup /\ Rendered(s) \in Doc
    /\ Parses(Rendered(s)) /\ Parsed(Rendered(s)) = s

Element == [name : SetupName, setup : Setup]

IsList(l) ==
    /\ l \in Seq(Element) /\ Unique(l)
    /\ \A i \in 1..Len(l) : Canonical(l[i].setup)

-----------------------------------------------------------------------------
(***************************************************************************)
(* Reading and writing a setup.                                            *)
(***************************************************************************)
\* The name a step gets is a label or none.
LEMMA ParsedNameType ==
    ASSUME NEW step \in DocStep
    PROVE  ParsedName(step) \in Label \cup {None}
BY DEF ParsedName, DocStep

\* The steps of a setup that was parsed, and of its rendering.
LEMMA ParsedSteps ==
    ASSUME NEW doc \in Doc
    PROVE  /\ Parsed(doc) \in Setup
           /\ Rendered(Parsed(doc)) \in Doc
           /\ Len(Parsed(doc).steps) = Len(doc.steps)
           /\ Len(Rendered(Parsed(doc)).steps) = Len(doc.steps)
           /\ \A i \in 1..Len(doc.steps) :
                Rendered(Parsed(doc)).steps[i]
                  = [name |-> ParsedName(doc.steps[i]), text |-> None,
                     textLast |-> TRUE, meas |-> doc.steps[i].meas]
<1>1. doc.steps \in Seq(DocStep) /\ doc.rows \in 1..2 /\ doc.cols \in 1..2
  BY DEF Doc
<1>2. \A i \in 1..Len(doc.steps) : doc.steps[i] \in DocStep
  BY <1>1
<1>3. \A i \in 1..Len(doc.steps) : ParsedStep(doc.steps[i]) \in ParsedStepType
  BY <1>2, ParsedNameType DEF ParsedStep, ParsedStepType, DocStep
<1>4. Parsed(doc).steps = [i \in 1..Len(doc.steps) |-> ParsedStep(doc.steps[i])]
  BY DEF Parsed
<1>5. Parsed(doc).steps \in Seq(ParsedStepType) /\ Len(Parsed(doc).steps) = Len(doc.steps)
  BY <1>1, <1>3, <1>4
<1>6. Parsed(doc) \in Setup
  BY <1>1, <1>5 DEF Parsed, Setup
<1>7. Rendered(Parsed(doc)).steps
        = [i \in 1..Len(doc.steps) |-> RenderedStep(ParsedStep(doc.steps[i]))]
  BY <1>4, <1>5 DEF Rendered
<1>8. \A i \in 1..Len(doc.steps) :
        RenderedStep(ParsedStep(doc.steps[i]))
          = [name |-> ParsedName(doc.steps[i]), text |-> None,
             textLast |-> TRUE, meas |-> doc.steps[i].meas]
  BY DEF RenderedStep, ParsedStep
<1>9. \A i \in 1..Len(doc.steps) : RenderedStep(ParsedStep(doc.steps[i])) \in DocStep
  <2> SUFFICES ASSUME NEW i \in 1..Len(doc.steps)
               PROVE  RenderedStep(ParsedStep(doc.steps[i])) \in DocStep
    OBVIOUS
  <2>1. ParsedName(doc.steps[i]) \in Label \cup {None}
    BY <1>2, ParsedNameType
  <2>2. doc.steps[i].meas \in Seq(Measurement)
    BY <1>2 DEF DocStep
  <2>3. [name |-> ParsedName(doc.steps[i]), text |-> None, textLast |-> TRUE,
         meas |-> doc.steps[i].meas] \in DocStep
    BY <2>1, <2>2 DEF DocStep
  <2> QED
    BY <1>8, <2>3
<1>10. /\ Rendered(Parsed(doc)).steps \in Seq(DocStep)
       /\ Len(Rendered(Parsed(doc)).steps) = Len(doc.steps)
  BY <1>1, <1>7, <1>9
<1>11. Rendered(Parsed(doc)) \in Doc
  BY <1>1, <1>10 DEF Rendered, Parsed, Doc
<1> QED
  BY <1>5, <1>6, <1>7, <1>8, <1>10, <1>11

\* What parse_setup made of a document survives being written and read.
LEMMA RoundTrip ==
    ASSUME NEW doc \in Doc, Parses(doc)
    PROVE  Canonical(Parsed(doc))
<1> DEFINE r == Rendered(Parsed(doc))
           n == Len(doc.steps)
<1>1. /\ Parsed(doc) \in Setup /\ r \in Doc /\ Len(r.steps) = n
      /\ \A i \in 1..n : r.steps[i] = [name |-> ParsedName(doc.steps[i]), text |-> None,
                                       textLast |-> TRUE, meas |-> doc.steps[i].meas]
  BY ParsedSteps
<1>2. r.rows = doc.rows /\ r.cols = doc.cols /\ r.broken = FALSE
  BY DEF Rendered, Parsed
<1> HIDE DEF r
<1>3. \A i \in 1..n : /\ ParsedName(r.steps[i]) = ParsedName(doc.steps[i])
                      /\ r.steps[i].meas = doc.steps[i].meas
  <2> SUFFICES ASSUME NEW i \in 1..n
               PROVE  /\ ParsedName(r.steps[i]) = ParsedName(doc.steps[i])
                      /\ r.steps[i].meas = doc.steps[i].meas
    OBVIOUS
  <2>1. /\ r.steps[i].text = None /\ r.steps[i].meas = doc.steps[i].meas
        /\ r.steps[i].name = ParsedName(doc.steps[i])
    <3>1. r.steps[i] = [name |-> ParsedName(doc.steps[i]), text |-> None,
                        textLast |-> TRUE, meas |-> doc.steps[i].meas]
      BY <1>1
    <3> QED
      BY <3>1
  <2>2. ParsedName(r.steps[i]) = r.steps[i].name
    BY <2>1 DEF ParsedName
  <2> QED
    BY <2>1, <2>2
<1>4. Abstracted(r) = Abstracted(doc)
  BY <1>1, <1>2, <1>3 DEF Abstracted
<1>5. DistinctNames(r)
  BY <1>1, <1>3 DEF Parses, DistinctNames
<1>6. Parses(r)
  BY <1>2, <1>4, <1>5 DEF Parses
<1>7. Parsed(r) = Parsed(doc)
  BY <1>1, <1>2, <1>3 DEF Parsed, ParsedStep
<1> QED
  BY <1>1, <1>6, <1>7 DEF Canonical, r

-----------------------------------------------------------------------------
(***************************************************************************)
(* Lists and trees.                                                        *)
(***************************************************************************)
\* A name is found where it is.
LEMMA PositionIs ==
    ASSUME NEW l, Unique(l), NEW i \in 1..Len(l)
    PROVE  Has(l, l[i].name) /\ Position(l, l[i].name) = i
<1>1. Has(l, l[i].name)
  BY DEF Has
<1>2. \A j \in 1..Len(l) : l[j].name = l[i].name <=> j = i
  BY DEF Unique
<1>3. Position(l, l[i].name) = CHOOSE j \in 1..Len(l) : l[j].name = l[i].name
  BY DEF Position
<1>4. (CHOOSE j \in 1..Len(l) : l[j].name = l[i].name) = i
  BY <1>2
<1> QED
  BY <1>1, <1>3, <1>4

\* A name that is there has a position.
LEMMA PositionType ==
    ASSUME NEW l, NEW name, Has(l, name)
    PROVE  Position(l, name) \in 1..Len(l) /\ l[Position(l, name)].name = name
BY DEF Has, Position

\* setup_update keeps the names different and adds at most one.
LEMMA UpdateIs ==
    ASSUME NEW T, NEW l \in Seq(T), Unique(l), NEW e \in T
    PROVE  /\ Update(l, e) \in Seq(T) /\ Unique(Update(l, e))
           /\ \A j \in 1..Len(Update(l, e)) :
                \/ Update(l, e)[j] = e
                \/ j \in 1..Len(l) /\ Update(l, e)[j] = l[j]
           /\ NamesIn(Update(l, e)) = NamesIn(l) \cup {e.name}
<1>1. CASE Has(l, e.name)
  <2> DEFINE p == Position(l, e.name)
             u == [l EXCEPT ![p] = e]
  <2>1. p \in 1..Len(l) /\ l[p].name = e.name
    BY <1>1, PositionType
  <2>2. Update(l, e) = u
    BY <1>1 DEF Update
  <2> HIDE DEF p
  <2>3. u \in Seq(T) /\ Len(u) = Len(l)
    BY <2>1
  <2>4. \A j \in 1..Len(l) : u[j] = IF j = p THEN e ELSE l[j]
    BY <2>1
  <2> HIDE DEF u
  <2>5. \A j \in 1..Len(l) : u[j].name = l[j].name
    BY <2>1, <2>4
  <2>6. Unique(u)
    BY <2>3, <2>5 DEF Unique
  <2>7. NamesIn(u) = NamesIn(l) /\ e.name \in NamesIn(l)
    BY <2>1, <2>3, <2>5 DEF NamesIn
  <2> QED
    BY <2>2, <2>3, <2>4, <2>6, <2>7
<1>2. CASE ~Has(l, e.name)
  <2> DEFINE u == Append(l, e)
             n == Len(l)
  <2>1. Update(l, e) = u
    BY <1>2 DEF Update
  <2>2. u \in Seq(T) /\ Len(u) = n + 1 /\ n \in Nat
    OBVIOUS
  <2>3. \A j \in 1..n + 1 : u[j] = IF j = n + 1 THEN e ELSE l[j]
    OBVIOUS
  <2> HIDE DEF u
  <2>4. \A j \in 1..n : l[j].name # e.name
    BY <1>2 DEF Has
  <2>5. Unique(u)
    BY <2>2, <2>3, <2>4 DEF Unique
  <2>6. NamesIn(u) = NamesIn(l) \cup {e.name}
    <3>1. \A j \in 1..n : u[j] = l[j]
      BY <2>2, <2>3
    <3>2. u[n + 1] = e
      BY <2>2, <2>3
    <3>3. 1..n + 1 = (1..n) \cup {n + 1}
      BY <2>2
    <3> QED
      BY <2>2, <3>1, <3>2, <3>3 DEF NamesIn
  <2> QED
    BY <2>1, <2>2, <2>3, <2>5, <2>6
<1> QED
  BY <1>1, <1>2

\* What replacing one element of a list leaves as it was.
LEMMA ReplaceIs ==
    ASSUME NEW S, NEW s \in Seq(S), NEW p \in 1..Len(s), NEW x
    PROVE  /\ Len([s EXCEPT ![p] = x]) = Len(s)
           /\ [s EXCEPT ![p] = x][p] = x
           /\ \A j \in 1..Len(s) : j # p => [s EXCEPT ![p] = x][j] = s[j]
  OBVIOUS

\* Updating a tree and the list it loads as by the same setup.
LEMMA UpdateLoads ==
    ASSUME NEW t, NEW l, IsTree(t), IsList(l), LoadsAs(t, l),
           NEW e \in Entry, Parses(e.doc)
    PROVE  LoadsAs(Update(t, e), Update(l, [name |-> e.name, setup |-> Parsed(e.doc)]))
<1> DEFINE f == [name |-> e.name, setup |-> Parsed(e.doc)]
<1>1. f.name = e.name /\ f.setup = Parsed(e.doc)
  OBVIOUS
<1> HIDE DEF f
<1>2. /\ t \in Seq(Entry) /\ l \in Seq(Element) /\ Len(t) = Len(l)
      /\ \A i \in 1..Len(t) : t[i].name = l[i].name /\ Parses(t[i].doc)
                              /\ Parsed(t[i].doc) = l[i].setup
  BY DEF IsTree, IsList, LoadsAs
<1>3. Has(t, e.name) <=> Has(l, e.name)
  BY <1>2 DEF Has
<1>4. CASE Has(t, e.name)
  <2> DEFINE p == Position(t, e.name)
  <2>1. p \in 1..Len(t) /\ t[p].name = e.name
    BY <1>4, PositionType
  <2>2. Position(l, e.name) = p
    <3>1. p \in 1..Len(l) /\ l[p].name = e.name /\ Unique(l)
      BY <1>2, <2>1 DEF IsList
    <3> QED
      BY <3>1, PositionIs
  <2>3. Update(t, e) = [t EXCEPT ![p] = e] /\ Update(l, f) = [l EXCEPT ![p] = f]
    BY <1>1, <1>3, <1>4, <2>2 DEF Update
  <2> DEFINE tt == [t EXCEPT ![p] = e]
             ll == [l EXCEPT ![p] = f]
  <2> HIDE DEF p
  <2>4. /\ Len(tt) = Len(t) /\ tt[p] = e
        /\ \A j \in 1..Len(t) : j # p => tt[j] = t[j]
    BY <1>2, <2>1, ReplaceIs
  <2>5. /\ Len(ll) = Len(l) /\ ll[p] = f
        /\ \A j \in 1..Len(l) : j # p => ll[j] = l[j]
    BY <1>2, <2>1, ReplaceIs
  <2> HIDE DEF tt, ll
  <2>6. ASSUME NEW j \in 1..Len(t)
        PROVE  tt[j].name = ll[j].name /\ Parses(tt[j].doc)
               /\ Parsed(tt[j].doc) = ll[j].setup
    <3>1. CASE j = p
      <4>1. tt[j] = e /\ ll[j] = f
        BY <2>4, <2>5, <3>1
      <4> QED
        BY <1>1, <4>1
    <3>2. CASE j # p
      <4>1. tt[j] = t[j] /\ ll[j] = l[j]
        BY <1>2, <2>4, <2>5, <3>2
      <4> QED
        BY <1>2, <4>1
    <3> QED
      BY <3>1, <3>2
  <2>7. LoadsAs(tt, ll)
    BY <1>2, <2>4, <2>5, <2>6 DEF LoadsAs
  <2> QED
    BY <2>3, <2>7 DEF tt, ll, f
<1>5. CASE ~Has(t, e.name)
  <2>1. Update(t, e) = Append(t, e) /\ Update(l, f) = Append(l, f)
    BY <1>1, <1>3, <1>5 DEF Update
  <2>2. /\ Len(Append(t, e)) = Len(t) + 1 /\ Len(Append(l, f)) = Len(t) + 1
        /\ \A j \in 1..Len(t) + 1 :
             /\ Append(t, e)[j] = IF j = Len(t) + 1 THEN e ELSE t[j]
             /\ Append(l, f)[j] = IF j = Len(t) + 1 THEN f ELSE l[j]
    BY <1>2
  <2>3. \A j \in 1..Len(t) + 1 : j = Len(t) + 1 \/ j \in 1..Len(t)
    BY <1>2
  <2> QED
    BY <1>1, <1>2, <2>1, <2>2, <2>3 DEF LoadsAs, f
<1> QED
  BY <1>4, <1>5

\* A list loads as itself when it has been written.
LEMMA RenderedLoads ==
    ASSUME NEW l, IsList(l)
    PROVE  /\ RenderedList(l) \in Seq(Entry) /\ Len(RenderedList(l)) = Len(l)
           /\ IsTree(RenderedList(l)) /\ LoadsAs(RenderedList(l), l)
           /\ AllParse(RenderedList(l)) /\ NamesIn(RenderedList(l)) = NamesIn(l)
<1> DEFINE r == RenderedList(l)
<1>1. l \in Seq(Element) /\ Unique(l) /\ \A i \in 1..Len(l) : Canonical(l[i].setup)
  BY DEF IsList
<1>2. /\ Len(r) = Len(l)
      /\ \A i \in 1..Len(l) : r[i] = [name |-> l[i].name, doc |-> Rendered(l[i].setup)]
  BY <1>1 DEF RenderedList
<1>3. \A i \in 1..Len(l) :
        /\ l[i].name \in SetupName /\ Rendered(l[i].setup) \in Doc
        /\ Parses(Rendered(l[i].setup)) /\ Parsed(Rendered(l[i].setup)) = l[i].setup
  <2> SUFFICES ASSUME NEW i \in 1..Len(l)
               PROVE  /\ l[i].name \in SetupName /\ Rendered(l[i].setup) \in Doc
                      /\ Parses(Rendered(l[i].setup))
                      /\ Parsed(Rendered(l[i].setup)) = l[i].setup
    OBVIOUS
  <2>1. l[i] \in Element /\ Canonical(l[i].setup)
    BY <1>1
  <2>2. l[i].name \in SetupName
    BY <2>1 DEF Element
  <2> QED
    BY <2>1, <2>2 DEF Canonical
<1>4. r \in Seq(Entry)
  BY <1>1, <1>3 DEF RenderedList, Entry
<1> HIDE DEF r
<1>5. \A i \in 1..Len(l) : r[i].name = l[i].name /\ r[i].doc = Rendered(l[i].setup)
  <2> SUFFICES ASSUME NEW i \in 1..Len(l)
               PROVE  r[i].name = l[i].name /\ r[i].doc = Rendered(l[i].setup)
    OBVIOUS
  <2>1. r[i] = [name |-> l[i].name, doc |-> Rendered(l[i].setup)]
    BY <1>2
  <2> QED
    BY <2>1
<1>6. Unique(r) /\ NamesIn(r) = NamesIn(l)
  BY <1>1, <1>2, <1>5 DEF Unique, NamesIn
<1>7. LoadsAs(r, l) /\ AllParse(r)
  BY <1>2, <1>3, <1>5 DEF LoadsAs, AllParse
<1>8. IsTree(r)
  BY <1>4, <1>6 DEF IsTree, Unique
<1> QED
  BY <1>2, <1>4, <1>6, <1>7, <1>8 DEF r

\* What is left of a tree when a save fails in the middle is a tree with no
\* name that was not in the list.
LEMMA TornIsTree ==
    ASSUME NEW l, IsList(l), NEW t \in TornTrees(l)
    PROVE  IsTree(t) /\ NamesIn(t) \subseteq NamesIn(l)
<1> DEFINE r == RenderedList(l)
<1>1. /\ r \in Seq(Entry) /\ Len(r) = Len(l) /\ Unique(r) /\ NamesIn(r) = NamesIn(l)
      /\ \A i \in 1..Len(l) : r[i].name = l[i].name
  <2>1. IsTree(r) /\ Len(r) = Len(l) /\ NamesIn(r) = NamesIn(l)
    BY RenderedLoads
  <2>2. \A i \in 1..Len(l) : r[i].name = l[i].name
    BY DEF RenderedList
  <2> QED
    BY <2>1, <2>2 DEF IsTree, Unique
<1> HIDE DEF r
<1>2. ASSUME NEW u \in Seq(Entry), Len(u) <= Len(r),
             \A i \in 1..Len(u) : u[i].name = r[i].name
      PROVE  IsTree(u) /\ NamesIn(u) \subseteq NamesIn(r)
  <2>1. 1..Len(u) \subseteq 1..Len(r)
    BY <1>1, <1>2
  <2> QED
    BY <1>2, <2>1, <1>1 DEF IsTree, Unique, NamesIn
<1>3. CASE \E n \in 0..Len(l) : t = SubSeq(r, 1, n)
  <2> PICK n \in 0..Len(l) : t = SubSeq(r, 1, n)
    BY <1>3
  <2>1. t \in Seq(Entry) /\ Len(t) = n /\ \A i \in 1..n : t[i] = r[i]
    BY <1>1
  <2>2. Len(t) <= Len(r) /\ \A i \in 1..Len(t) : t[i].name = r[i].name
    BY <1>1, <2>1
  <2>3. IsTree(t) /\ NamesIn(t) \subseteq NamesIn(r)
    BY <1>2, <2>1, <2>2
  <2> QED
    BY <1>1, <2>3
<1>4. CASE \E n \in 1..Len(l), d \in Doc :
             t = Append(SubSeq(r, 1, n - 1), [name |-> l[n].name, doc |-> d])
  <2> PICK n \in 1..Len(l), d \in Doc :
             t = Append(SubSeq(r, 1, n - 1), [name |-> l[n].name, doc |-> d])
    BY <1>4
  <2> DEFINE s == SubSeq(r, 1, n - 1)
             e == [name |-> l[n].name, doc |-> d]
  <2>1. s \in Seq(Entry) /\ Len(s) = n - 1 /\ \A i \in 1..n - 1 : s[i] = r[i]
    BY <1>1
  <2>2. e \in Entry /\ e.name = r[n].name
    <3>1. l[n].name \in SetupName
      <4>1. l[n] \in Element
        BY DEF IsList
      <4> QED
        BY <4>1 DEF Element
    <3> QED
      BY <1>1, <3>1 DEF Entry
  <2> HIDE DEF s, e
  <2>3. t = Append(s, e)
    BY DEF s, e
  <2>4. t \in Seq(Entry) /\ Len(t) = n
    BY <2>1, <2>2, <2>3
  <2>5. \A i \in 1..n : t[i].name = r[i].name
    <3>1. \A i \in 1..n - 1 : t[i] = s[i]
      BY <2>1, <2>2, <2>3
    <3>2. t[n] = e
      BY <2>1, <2>2, <2>3
    <3>3. \A i \in 1..n : i = n \/ i \in 1..n - 1
      OBVIOUS
    <3> QED
      BY <3>1, <3>2, <3>3, <2>1, <2>2
  <2>6. Len(t) <= Len(r) /\ \A i \in 1..Len(t) : t[i].name = r[i].name
    BY <1>1, <2>4, <2>5
  <2>7. IsTree(t) /\ NamesIn(t) \subseteq NamesIn(r)
    BY <1>2, <2>4, <2>6
  <2> QED
    BY <1>1, <2>7
<1>5. \A n \in 1..Len(l) : Torn(Rendered(l[n].setup)) \subseteq Doc
  <2>1. ASSUME NEW doc \in Doc, NEW m \in 0..Len(doc.steps), NEW b \in BOOLEAN
        PROVE  [rows |-> doc.rows, cols |-> doc.cols, steps |-> SubSeq(doc.steps, 1, m),
                broken |-> b] \in Doc
    <3>1. SubSeq(doc.steps, 1, m) \in Seq(DocStep)
      BY DEF Doc
    <3> QED
      BY <3>1 DEF Doc
  <2>2. ASSUME NEW doc \in Doc, NEW x \in Torn(doc)
        PROVE  x \in Doc
    <3>1. PICK m \in 0..Len(doc.steps), b \in BOOLEAN :
             x = [rows |-> doc.rows, cols |-> doc.cols,
                  steps |-> SubSeq(doc.steps, 1, m), broken |-> b]
      BY DEF Torn
    <3> QED
      BY <2>1, <3>1
  <2>3. \A n \in 1..Len(l) : Rendered(l[n].setup) \in Doc
    BY DEF IsList, Canonical
  <2> QED
    BY <2>2, <2>3
<1>6. \/ \E n \in 0..Len(l) : t = SubSeq(r, 1, n)
      \/ \E n \in 1..Len(l), d \in Doc :
             t = Append(SubSeq(r, 1, n - 1), [name |-> l[n].name, doc |-> d])
  BY <1>5 DEF TornTrees, r
<1> QED
  BY <1>1, <1>3, <1>4, <1>6

-----------------------------------------------------------------------------
(***************************************************************************)
(* The inductive invariant.  While the program starts, the list is what    *)
(* the documents read so far parse to (StartInv).  Later (RunInv) the      *)
(* copies agree, and still do while a yload has not changed the list; a    *)
(* yload of the GUI changes the list as the GUI will change its own; the   *)
(* documents of a tree that is not torn parse, and no name has been lost   *)
(* on the way from the file over the tree to the list.                     *)
(***************************************************************************)
Started == pc \in {"ready", "loading"}

\* What the first k - 1 documents of the input parse to is the list.
StartInv ==
    pc = "opening" =>
        /\ input = file /\ tree = file
        /\ Len(setups) = k - 1
        /\ \A i \in 1..k - 1 : /\ setups[i].name = input[i].name
                              /\ Parses(input[i].doc)
                              /\ setups[i].setup = Parsed(input[i].doc)

GuiInv ==
    driver = "gui" =>
        /\ pc = "loading" => Len(input) = 1
        /\ (pc = "ready" \/ (pc = "loading" /\ k = 1)) /\ guiIs = "setups"
              => LoadsAs(gui, setups)
        /\ pc = "loading" /\ k = 2 /\ guiIs = "setups"
              => LoadsAs(Update(gui, input[1]), setups)

RunInv ==
    Started =>
        /\ (pc = "ready" \/ k = 1) /\ treeIs = "setups" => LoadsAs(tree, setups)
        /\ fileIs = "tree" => file = tree
        /\ treeIs # "torn" => /\ AllParse(tree)
                              /\ NamesIn(file) \subseteq NamesIn(tree)
        /\ NamesIn(tree) \subseteq NamesIn(setups)
        /\ NamesIn(file) \subseteq NamesIn(setups)

FileInv ==
    /\ writer = "program" => AllParse(file)
    /\ NeverLockedOut

Inv ==
    /\ TypeOK /\ IsList(setups)
    /\ StartInv /\ GuiInv /\ RunInv /\ FileInv /\ MeasuresAsCalibrated

\* The empty list.
LEMMA EmptyList ==
    /\ IsTree(<<>>) /\ IsList(<<>>) /\ NamesIn(<<>>) = {}
BY DEF IsTree, IsList, Unique, NamesIn

\* What the type invariant says of the trees, the list and the calibration.
LEMMA TypeParts ==
    ASSUME Inv
    PROVE  /\ IsTree(file) /\ IsTree(tree) /\ IsTree(gui) /\ IsTree(input)
           /\ k \in Nat /\ k >= 1 /\ k <= Len(input) + 1 /\ Len(input) \in Nat
<1>1. IsTree(input) /\ k \in 1..Len(input) + 1
  BY DEF Inv, TypeOK
<1>2. Len(input) \in Nat
  BY <1>1 DEF IsTree
<1> QED
  BY <1>1, <1>2 DEF Inv, TypeOK

\* TypeOK from the parts a step changes.
TreesType == \A t \in {file, tree, gui, input} : IsTree(t)
FlagsType ==
    /\ pc \in {"down", "opening", "ready", "loading", "refused"}
    /\ driver \in {"gui", "operator"}
    /\ treeIs \in {"setups", "older", "torn"} /\ fileIs \in {"tree", "older"}
    /\ guiIs \in {"setups", "older"} /\ writer \in {"operator", "program", "torn"}
CalType ==
    /\ cal \in [used : Setup, stored : Doc \cup {NoDoc},
               from : {"setups", "older", "torn"}] \cup {NoCal}
    /\ used \in Setup \cup {NoSetup, DefaultRB}

LEMMA TypeFrom ==
    IsList(setups) /\ TreesType /\ FlagsType /\ CalType /\ k \in 1..Len(input) + 1
      => TypeOK
<1> SUFFICES ASSUME IsList(setups), TreesType, FlagsType, CalType,
                    k \in 1..Len(input) + 1
             PROVE  TypeOK
  OBVIOUS
<1>1. /\ setups \in Seq([name : SetupName, setup : Setup])
      /\ \A i, j \in 1..Len(setups) : i # j => setups[i].name # setups[j].name
      /\ \A i \in 1..Len(setups) : Parses(Rendered(setups[i].setup))
  BY DEF IsList, Element, Unique, Canonical
<1> QED
  BY <1>1 DEF TypeOK, TreesType, FlagsType, CalType

LEMMA TypeHas ==
    TypeOK => TreesType /\ FlagsType /\ CalType
BY DEF TypeOK, TreesType, FlagsType, CalType

-----------------------------------------------------------------------------
LEMMA InitInv == Init => Inv
<1> SUFFICES ASSUME Init PROVE Inv
  OBVIOUS
<1>1. IsTree(file)
  BY ContentsAssumption DEF Init
<1>2. IsList(setups) /\ TreesType /\ k \in 1..Len(input) + 1
  BY <1>1, EmptyList DEF Init, TreesType
<1>3. FlagsType /\ CalType
  BY DEF Init, FlagsType, CalType
<1>4. TypeOK
  BY <1>2, <1>3, TypeFrom
<1>5. StartInv /\ GuiInv /\ RunInv /\ FileInv /\ MeasuresAsCalibrated
  BY DEF Init, StartInv, GuiInv, RunInv, Started, FileInv, NeverLockedOut,
         MeasuresAsCalibrated, NoCal
<1> QED
  BY <1>2, <1>4, <1>5 DEF Inv

\* The program starts: the list is empty and the tree is the file.
LEMMA OpenInv ==
    ASSUME Inv, NEW who \in {"gui", "operator"}, Open(who)
    PROVE  Inv'
<1> USE DEF history, memory
<1>1. IsList(setups)' /\ TreesType' /\ (k \in 1..Len(input) + 1)'
  <2>1. Len(file) \in Nat /\ IsTree(file)
    BY TypeParts DEF IsTree
  <2> QED
    BY <2>1, EmptyList DEF Open, TreesType
<1>2. FlagsType' /\ CalType'
  BY TypeHas DEF Open, Inv, FlagsType, CalType
<1>3. TypeOK'
  BY <1>1, <1>2, TypeFrom, PTL
<1>4. StartInv'
  BY DEF Open, StartInv
<1>5. GuiInv' /\ RunInv'
  BY DEF Open, GuiInv, RunInv, Started
<1>6. FileInv' /\ MeasuresAsCalibrated'
  BY DEF Open, Inv, FileInv, NeverLockedOut, MeasuresAsCalibrated
<1> QED
  BY <1>1, <1>3, <1>4, <1>5, <1>6 DEF Inv

\* The program ends: nothing is claimed but of the file and of calibrations.
LEMMA ExitInv ==
    ASSUME Inv, Exit
    PROVE  Inv'
<1> USE DEF history, memory
<1>1. IsList(setups)' /\ TreesType' /\ (k \in 1..Len(input) + 1)'
  BY TypeParts, EmptyList DEF Exit, TreesType, LoopEnds
<1>2. FlagsType' /\ CalType'
  BY TypeHas DEF Exit, Inv, FlagsType, CalType
<1>3. TypeOK'
  BY <1>1, <1>2, TypeFrom, PTL
<1>4. StartInv' /\ GuiInv' /\ RunInv'
  BY DEF Exit, StartInv, GuiInv, RunInv, Started
<1>5. FileInv' /\ MeasuresAsCalibrated'
  BY DEF Exit, Inv, FileInv, NeverLockedOut, MeasuresAsCalibrated
<1> QED
  BY <1>1, <1>3, <1>4, <1>5 DEF Inv

LEMMA EditInv ==
    ASSUME Inv, NEW contents \in HandFiles, Edit(contents)
    PROVE  Inv'
<1> USE DEF history, memory
<1>1. IsList(setups)' /\ TreesType' /\ (k \in 1..Len(input) + 1)'
  BY TypeParts, ContentsAssumption DEF Edit, TreesType, Inv, TypeOK
<1>2. FlagsType' /\ CalType'
  BY TypeHas DEF Edit, Inv, FlagsType, CalType
<1>3. TypeOK'
  BY <1>1, <1>2, TypeFrom, PTL
<1>4. StartInv' /\ GuiInv' /\ RunInv'
  BY DEF Edit, StartInv, GuiInv, RunInv, Started
<1>5. FileInv' /\ MeasuresAsCalibrated'
  BY DEF Edit, Inv, FileInv, NeverLockedOut, MeasuresAsCalibrated
<1> QED
  BY <1>1, <1>3, <1>4, <1>5 DEF Inv

\* What loading as a list means for the documents and the names.
LEMMA LoadsFacts ==
    ASSUME NEW t, NEW l, LoadsAs(t, l)
    PROVE  AllParse(t) /\ NamesIn(t) = NamesIn(l)
BY DEF LoadsAs, AllParse, NamesIn

\* A good setup put into a list of good setups.
LEMMA UpdateList ==
    ASSUME NEW l, IsList(l), NEW e \in Entry, Parses(e.doc)
    PROVE  LET f == [name |-> e.name, setup |-> Parsed(e.doc)]
           IN  /\ f \in Element /\ IsList(Update(l, f))
               /\ NamesIn(Update(l, f)) = NamesIn(l) \cup {e.name}
<1> DEFINE f == [name |-> e.name, setup |-> Parsed(e.doc)]
<1>1. e.doc \in Doc /\ e.name \in SetupName
  BY DEF Entry
<1>2. Canonical(Parsed(e.doc))
  BY <1>1, RoundTrip
<1>3. f \in Element /\ f.name = e.name /\ Canonical(f.setup)
  BY <1>1, <1>2 DEF Element, Canonical
<1> HIDE DEF f
<1>4. l \in Seq(Element) /\ Unique(l) /\ \A i \in 1..Len(l) : Canonical(l[i].setup)
  BY DEF IsList
<1>5. /\ Update(l, f) \in Seq(Element) /\ Unique(Update(l, f))
      /\ \A j \in 1..Len(Update(l, f)) :
           \/ Update(l, f)[j] = f
           \/ j \in 1..Len(l) /\ Update(l, f)[j] = l[j]
      /\ NamesIn(Update(l, f)) = NamesIn(l) \cup {f.name}
  <2>1. \A x \in Element :
          /\ Update(l, x) \in Seq(Element) /\ Unique(Update(l, x))
          /\ \A j \in 1..Len(Update(l, x)) :
               \/ Update(l, x)[j] = x
               \/ j \in 1..Len(l) /\ Update(l, x)[j] = l[j]
          /\ NamesIn(Update(l, x)) = NamesIn(l) \cup {x.name}
    <3>1. l \in Seq(Element) /\ Unique(l)
      BY <1>4
    <3> QED
      BY ONLY <3>1, UpdateIs
  <2> QED
    BY <1>3, <2>1
<1>6. \A j \in 1..Len(Update(l, f)) : Canonical(Update(l, f)[j].setup)
  BY <1>3, <1>4, <1>5
<1>7. IsList(Update(l, f))
  BY <1>5, <1>6 DEF IsList
<1>8. f \in Element /\ IsList(Update(l, f))
      /\ NamesIn(Update(l, f)) = NamesIn(l) \cup {e.name}
  BY <1>3, <1>5, <1>7
<1> QED
  BY <1>8 DEF f

\* One more setup is read into the list.
LEMMA ParseNextInv ==
    ASSUME Inv, ParseNext
    PROVE  Inv'
<1> USE DEF history, memory
<1> DEFINE e == input[k]
           f == [name |-> e.name, setup |-> Parsed(e.doc)]
<1>1. /\ pc \in {"opening", "loading"} /\ k <= Len(input) /\ Parses(e.doc)
      /\ setups' = Update(setups, f) /\ k' = k + 1
      /\ UNCHANGED <<pc, driver, file, tree, gui, input, cal, used>>
      /\ UNCHANGED <<treeIs, fileIs, guiIs, writer>>
  BY DEF ParseNext
<1>2. /\ IsList(setups) /\ IsTree(gui) /\ IsTree(input)
      /\ k \in Nat /\ k >= 1 /\ Len(input) \in Nat
  BY TypeParts DEF Inv
<1>3. e \in Entry /\ k \in 1..Len(input)
  BY <1>1, <1>2 DEF IsTree
<1>4. f \in Element /\ IsList(setups') /\ NamesIn(setups') = NamesIn(setups) \cup {e.name}
  BY <1>1, <1>2, <1>3, UpdateList
<1>5. IsList(setups)' /\ TreesType' /\ (k \in 1..Len(input) + 1)'
  BY <1>1, <1>2, <1>4, TypeHas DEF Inv, TreesType
<1>6. FlagsType' /\ CalType'
  BY <1>1, TypeHas DEF Inv, FlagsType, CalType
<1>7. TypeOK'
  BY <1>5, <1>6, TypeFrom, PTL
<1>8. StartInv'
  <2> SUFFICES ASSUME pc = "opening" PROVE StartInv'
    BY <1>1 DEF StartInv
  <2>1. /\ input = file /\ tree = file /\ Len(setups) = k - 1
        /\ \A i \in 1..k - 1 : /\ setups[i].name = input[i].name
                              /\ Parses(input[i].doc)
                              /\ setups[i].setup = Parsed(input[i].doc)
    BY DEF Inv, StartInv
  <2>2. ~Has(setups, f.name)
    <3>1. \A i \in 1..k - 1 : input[i].name # e.name
      BY <1>2, <1>3 DEF IsTree
    <3>2. \A i \in 1..Len(setups) : setups[i].name # e.name
      BY <2>1, <3>1
    <3> QED
      BY <3>2 DEF Has
  <2>3. setups' = Append(setups, f)
    BY <1>1, <2>2 DEF Update
  <2> HIDE DEF f, e
  <2>4. setups \in Seq(Element) /\ f \in Element
    BY <1>2, <1>4 DEF IsList
  <2>5. /\ Len(setups') = k /\ setups'[k] = f
        /\ \A i \in 1..k - 1 : setups'[i] = setups[i]
    BY <1>2, <2>1, <2>3, <2>4
  <2>6. f.name = input[k].name /\ f.setup = Parsed(input[k].doc) /\ Parses(input[k].doc)
    BY <1>1 DEF f, e
  <2>7. \A i \in 1..k : i = k \/ i \in 1..k - 1
    BY <1>2
  <2>8. \A i \in 1..k : /\ setups'[i].name = input[i].name
                       /\ Parses(input[i].doc)
                       /\ setups'[i].setup = Parsed(input[i].doc)
    BY <2>1, <2>5, <2>6, <2>7
  <2>9. k' - 1 = k
    BY <1>1, <1>2
  <2> QED
    BY <1>1, <2>1, <2>5, <2>8, <2>9 DEF StartInv
<1>9. GuiInv'
  <2> SUFFICES ASSUME driver = "gui", pc = "loading"
               PROVE  GuiInv'
    BY <1>1 DEF GuiInv
  <2>1. Len(input) = 1 /\ k = 1
    <3>1. Len(input) = 1
      BY DEF Inv, GuiInv
    <3> QED
      BY <1>3, <3>1
  <2>2. guiIs = "setups" => LoadsAs(Update(gui, e), Update(setups, f))
    <3> SUFFICES ASSUME guiIs = "setups"
                 PROVE  LoadsAs(Update(gui, e), Update(setups, f))
      OBVIOUS
    <3>1. LoadsAs(gui, setups)
      BY <2>1 DEF Inv, GuiInv
    <3> QED
      BY <1>1, <1>2, <1>3, <3>1, UpdateLoads
  <2> QED
    BY <1>1, <2>1, <2>2 DEF GuiInv
<1>10. RunInv'
  <2>1. k' # 1 /\ NamesIn(setups) \subseteq NamesIn(setups)'
    BY <1>1, <1>2, <1>4
  <2> QED
    BY <1>1, <2>1 DEF Inv, RunInv, Started
<1>11. FileInv' /\ MeasuresAsCalibrated'
  BY <1>1 DEF Inv, FileInv, NeverLockedOut, MeasuresAsCalibrated
<1> QED
  BY <1>4, <1>7, <1>8, <1>9, <1>10, <1>11 DEF Inv

\* All documents of the file have been read.
LEMMA OpenedInv ==
    ASSUME Inv, Opened
    PROVE  Inv'
<1> USE DEF history, memory
<1>1. /\ pc = "opening" /\ k > Len(input) /\ pc' = "ready"
      /\ gui' = (IF driver = "gui" THEN tree ELSE <<>>)
      /\ input' = <<>> /\ k' = 1
      /\ UNCHANGED <<driver, file, tree, setups, cal, used>>
      /\ UNCHANGED <<treeIs, fileIs, guiIs, writer>>
  BY DEF Opened, LoopEnds
<1>2. /\ IsList(setups) /\ IsTree(tree) /\ IsTree(file)
      /\ k = Len(input) + 1 /\ Len(input) \in Nat
  BY <1>1, TypeParts DEF Inv
<1>3. LoadsAs(tree, setups) /\ file = tree
  BY <1>1, <1>2 DEF Inv, StartInv, LoadsAs
<1>4. AllParse(tree) /\ NamesIn(tree) = NamesIn(setups)
  BY <1>3, LoadsFacts
<1>5. IsList(setups)' /\ TreesType' /\ (k \in 1..Len(input) + 1)'
  BY <1>1, <1>2, EmptyList DEF TreesType
<1>6. FlagsType' /\ CalType'
  BY <1>1, TypeHas DEF Inv, FlagsType, CalType
<1>7. TypeOK'
  BY <1>5, <1>6, TypeFrom, PTL
<1>8. StartInv' /\ GuiInv' /\ RunInv'
  BY <1>1, <1>3, <1>4 DEF StartInv, GuiInv, RunInv, Started
<1>9. FileInv' /\ MeasuresAsCalibrated'
  BY <1>1 DEF Inv, FileInv, NeverLockedOut, MeasuresAsCalibrated
<1> QED
  BY <1>5, <1>7, <1>8, <1>9 DEF Inv

\* The file has a document that does not parse: the program did not write it.
LEMMA RefuseInv ==
    ASSUME Inv, Refuse
    PROVE  Inv'
<1> USE DEF history, memory
<1>1. /\ pc = "opening" /\ k <= Len(input) /\ ~Parses(input[k].doc) /\ pc' = "refused"
      /\ input' = <<>> /\ k' = 1
      /\ UNCHANGED <<driver, file, tree, setups, gui, cal, used>>
      /\ UNCHANGED <<treeIs, fileIs, guiIs, writer>>
  BY DEF Refuse, LoopEnds
<1>2. k \in 1..Len(input) /\ input = file
  BY <1>1, TypeParts DEF Inv, StartInv
<1>3. writer # "program"
  BY <1>1, <1>2 DEF Inv, FileInv, AllParse
<1>4. IsList(setups)' /\ TreesType' /\ (k \in 1..Len(input) + 1)'
  BY <1>1, TypeHas, EmptyList DEF Inv, TreesType
<1>5. FlagsType' /\ CalType'
  BY <1>1, TypeHas DEF Inv, FlagsType, CalType
<1>6. TypeOK'
  BY <1>4, <1>5, TypeFrom, PTL
<1>7. StartInv' /\ GuiInv' /\ RunInv'
  BY <1>1 DEF StartInv, GuiInv, RunInv, Started
<1>8. FileInv' /\ MeasuresAsCalibrated'
  BY <1>1, <1>3 DEF Inv, FileInv, NeverLockedOut, MeasuresAsCalibrated
<1> QED
  BY <1>4, <1>6, <1>7, <1>8 DEF Inv

-----------------------------------------------------------------------------
(***************************************************************************)
(* setup yload.                                                            *)
(***************************************************************************)
\* A yload begins: the list has not changed yet.
LEMMA YLoadInv ==
    ASSUME Inv, NEW entries \in Inputs, YLoad(entries)
    PROVE  Inv'
<1> USE DEF history, memory
<1>1. /\ pc = "ready" /\ (driver = "gui" => Len(entries) = 1)
      /\ pc' = "loading" /\ input' = entries /\ k' = 1
      /\ UNCHANGED <<driver, file, tree, setups, gui, cal, used>>
      /\ UNCHANGED <<treeIs, fileIs, guiIs, writer>>
  BY DEF YLoad
<1>2. IsTree(entries) /\ Len(entries) \in Nat
  BY ContentsAssumption DEF IsTree
<1>3. IsList(setups)' /\ TreesType' /\ (k \in 1..Len(input) + 1)'
  BY <1>1, <1>2, TypeHas DEF Inv, TreesType
<1>4. FlagsType' /\ CalType'
  BY <1>1, TypeHas DEF Inv, FlagsType, CalType
<1>5. TypeOK'
  BY <1>3, <1>4, TypeFrom, PTL
<1>6. StartInv' /\ GuiInv'
  BY <1>1 DEF Inv, StartInv, GuiInv
<1>7. RunInv'
  BY <1>1 DEF Inv, RunInv, Started
<1>8. FileInv' /\ MeasuresAsCalibrated'
  BY <1>1 DEF Inv, FileInv, NeverLockedOut, MeasuresAsCalibrated
<1> QED
  BY <1>3, <1>5, <1>6, <1>7, <1>8 DEF Inv

\* A yload is refused: either nothing has changed, or the copies are known
\* to differ.
LEMMA YLoadRefusedInv ==
    ASSUME Inv, YLoadRefused
    PROVE  Inv'
<1> USE DEF history, memory
<1>1. /\ pc = "loading" /\ pc' = "ready" /\ input' = <<>> /\ k' = 1
      /\ UNCHANGED <<driver, file, tree, setups, gui, cal, used>>
      /\ UNCHANGED <<fileIs, writer>>
      /\ \/ k = 1 /\ UNCHANGED <<treeIs, guiIs>>
         \/ guiIs' = "older" /\ treeIs' = IF treeIs = "torn" THEN "torn" ELSE "older"
  BY DEF YLoadRefused, LoopEnds
<1>2. IsList(setups)' /\ TreesType' /\ (k \in 1..Len(input) + 1)'
  BY <1>1, TypeHas, EmptyList DEF Inv, TreesType
<1>3. FlagsType' /\ CalType'
  BY <1>1, TypeHas DEF Inv, FlagsType, CalType
<1>4. TypeOK'
  BY <1>2, <1>3, TypeFrom, PTL
<1>5. StartInv' /\ GuiInv'
  BY <1>1 DEF Inv, StartInv, GuiInv
<1>6. RunInv'
  BY <1>1 DEF Inv, RunInv, Started
<1>7. FileInv' /\ MeasuresAsCalibrated'
  BY <1>1 DEF Inv, FileInv, NeverLockedOut, MeasuresAsCalibrated
<1> QED
  BY <1>2, <1>4, <1>5, <1>6, <1>7 DEF Inv

\* The list has been written into the tree and the file.
LEMMA SaveInv ==
    ASSUME Inv, Save
    PROVE  Inv'
<1> USE DEF history, memory
<1>1. /\ pc = "loading" /\ k > Len(input)
      /\ tree' = RenderedList(setups) /\ file' = RenderedList(setups)
      /\ pc' = "ready" /\ input' = <<>> /\ k' = 1
      /\ gui' = (IF driver = "gui" THEN Update(gui, input[1]) ELSE gui)
      /\ treeIs' = "setups" /\ fileIs' = "tree" /\ writer' = "program"
      /\ UNCHANGED <<driver, setups, cal, used, guiIs>>
  BY DEF Save, LoopEnds, ReadyToSave
<1>2. /\ IsList(setups) /\ IsTree(gui) /\ IsTree(input)
      /\ k = Len(input) + 1 /\ Len(input) \in Nat
  BY <1>1, TypeParts DEF Inv
<1>3. /\ IsTree(RenderedList(setups)) /\ LoadsAs(RenderedList(setups), setups)
      /\ AllParse(RenderedList(setups)) /\ NamesIn(RenderedList(setups)) = NamesIn(setups)
  BY <1>2, RenderedLoads
<1>4. driver = "gui" => k = 2 /\ input[1] \in Entry
  <2> SUFFICES ASSUME driver = "gui" PROVE k = 2 /\ input[1] \in Entry
    OBVIOUS
  <2>1. Len(input) = 1
    BY <1>1 DEF Inv, GuiInv
  <2> QED
    BY <1>2, <2>1 DEF IsTree
<1>5. driver = "gui" => IsTree(Update(gui, input[1]))
  <2> SUFFICES ASSUME driver = "gui" PROVE IsTree(Update(gui, input[1]))
    OBVIOUS
  <2>1. gui \in Seq(Entry) /\ Unique(gui) /\ input[1] \in Entry
    BY <1>2, <1>4 DEF IsTree, Unique
  <2>2. Update(gui, input[1]) \in Seq(Entry) /\ Unique(Update(gui, input[1]))
    BY ONLY <2>1, UpdateIs
  <2> QED
    BY <2>2 DEF IsTree, Unique
<1>6. IsTree(gui')
  BY <1>1, <1>2, <1>5
<1>7. IsList(setups)' /\ TreesType' /\ (k \in 1..Len(input) + 1)'
  BY <1>1, <1>2, <1>3, <1>6, EmptyList DEF TreesType
<1>8. FlagsType' /\ CalType'
  BY <1>1, TypeHas DEF Inv, FlagsType, CalType
<1>9. TypeOK'
  BY <1>7, <1>8, TypeFrom, PTL
<1>10. StartInv' /\ GuiInv'
  BY <1>1, <1>4 DEF Inv, StartInv, GuiInv
<1>11. RunInv'
  BY <1>1, <1>3 DEF RunInv, Started
<1>12. FileInv' /\ MeasuresAsCalibrated'
  BY <1>1, <1>3 DEF Inv, FileInv, NeverLockedOut, MeasuresAsCalibrated
<1> QED
  BY <1>7, <1>9, <1>10, <1>11, <1>12 DEF Inv

\* The tree is new and the file old.
LEMMA SaveFailsInv ==
    ASSUME Inv, SaveFails
    PROVE  Inv'
<1> USE DEF history, memory
<1>1. /\ pc = "loading" /\ tree' = RenderedList(setups)
      /\ pc' = "ready" /\ input' = <<>> /\ k' = 1
      /\ treeIs' = "setups" /\ fileIs' = "older" /\ guiIs' = "older"
      /\ UNCHANGED <<driver, file, setups, gui, cal, used, writer>>
  BY DEF SaveFails, LoopEnds, ReadyToSave
<1>2. IsList(setups)
  BY DEF Inv
<1>3. /\ IsTree(RenderedList(setups)) /\ LoadsAs(RenderedList(setups), setups)
      /\ AllParse(RenderedList(setups)) /\ NamesIn(RenderedList(setups)) = NamesIn(setups)
  BY <1>2, RenderedLoads
<1>4. IsList(setups)' /\ TreesType' /\ (k \in 1..Len(input) + 1)'
  BY <1>1, <1>2, <1>3, TypeHas, EmptyList DEF Inv, TreesType
<1>5. FlagsType' /\ CalType'
  BY <1>1, TypeHas DEF Inv, FlagsType, CalType
<1>6. TypeOK'
  BY <1>4, <1>5, TypeFrom, PTL
<1>7. StartInv' /\ GuiInv'
  BY <1>1 DEF StartInv, GuiInv
<1>8. RunInv'
  BY <1>1, <1>3 DEF Inv, RunInv, Started
<1>9. FileInv' /\ MeasuresAsCalibrated'
  BY <1>1 DEF Inv, FileInv, NeverLockedOut, MeasuresAsCalibrated
<1> QED
  BY <1>4, <1>6, <1>7, <1>8, <1>9 DEF Inv

\* The tree is torn, and the file old.
LEMMA BuildFailsInv ==
    ASSUME Inv, BuildFails
    PROVE  Inv'
<1> USE DEF history, memory
<1>1. /\ pc = "loading" /\ tree' \in TornTrees(setups) \cup {tree}
      /\ pc' = "ready" /\ input' = <<>> /\ k' = 1
      /\ treeIs' = "torn" /\ fileIs' = "older" /\ guiIs' = "older"
      /\ UNCHANGED <<driver, file, setups, gui, cal, used, writer>>
  BY DEF BuildFails, LoopEnds, ReadyToSave
<1>2. IsList(setups) /\ IsTree(tree) /\ NamesIn(tree) \subseteq NamesIn(setups)
  BY <1>1, TypeParts DEF Inv, RunInv, Started
<1>3. IsTree(tree') /\ NamesIn(tree') \subseteq NamesIn(setups)
  BY <1>1, <1>2, TornIsTree
<1>4. IsList(setups)' /\ TreesType' /\ (k \in 1..Len(input) + 1)'
  BY <1>1, <1>2, <1>3, TypeHas, EmptyList DEF Inv, TreesType
<1>5. FlagsType' /\ CalType'
  BY <1>1, TypeHas DEF Inv, FlagsType, CalType
<1>6. TypeOK'
  BY <1>4, <1>5, TypeFrom, PTL
<1>7. StartInv' /\ GuiInv'
  BY <1>1 DEF StartInv, GuiInv
<1>8. RunInv'
  <2>1. NamesIn(file) \subseteq NamesIn(setups)
    BY <1>1 DEF Inv, RunInv, Started
  <2>2. NamesIn(tree)' \subseteq NamesIn(setups)' /\ NamesIn(file)' \subseteq NamesIn(setups)'
    BY <1>1, <1>3, <2>1
  <2> QED
    BY <1>1, <2>2 DEF RunInv, Started
<1>9. FileInv' /\ MeasuresAsCalibrated'
  BY <1>1 DEF Inv, FileInv, NeverLockedOut, MeasuresAsCalibrated
<1> QED
  BY <1>4, <1>6, <1>7, <1>8, <1>9 DEF Inv

-----------------------------------------------------------------------------
(***************************************************************************)
(* cf, calibrate and measure.                                              *)
(***************************************************************************)
LEMMA CfInv ==
    ASSUME Inv, Cf
    PROVE  Inv'
<1> USE DEF history, memory
<1>1. /\ pc = "ready" /\ file' = tree /\ fileIs' = "tree"
      /\ writer' = (IF treeIs = "torn" THEN "torn" ELSE "program")
      /\ UNCHANGED <<pc, driver, tree, setups, gui, input, k, cal, used, treeIs, guiIs>>
  BY DEF Cf
<1>2. IsList(setups)' /\ TreesType' /\ (k \in 1..Len(input) + 1)'
  BY <1>1, TypeHas DEF Inv, TypeOK, TreesType
<1>3. FlagsType' /\ CalType'
  BY <1>1, TypeHas DEF Inv, FlagsType, CalType
<1>4. TypeOK'
  BY <1>2, <1>3, TypeFrom, PTL
<1>5. StartInv' /\ GuiInv'
  BY <1>1 DEF Inv, StartInv, GuiInv
<1>6. RunInv'
  BY <1>1 DEF Inv, RunInv, Started
<1>7. FileInv' /\ MeasuresAsCalibrated'
  BY <1>1 DEF Inv, RunInv, Started, FileInv, NeverLockedOut, MeasuresAsCalibrated
<1> QED
  BY <1>2, <1>4, <1>5, <1>6, <1>7 DEF Inv

\* The document that is found under the name of a setup is its own.
LEMMA LookupIs ==
    ASSUME NEW t, NEW l, Unique(t), LoadsAs(t, l), NEW i \in 1..Len(l)
    PROVE  Parses(Lookup(t, l[i].name)) /\ Parsed(Lookup(t, l[i].name)) = l[i].setup
<1>1. /\ i \in 1..Len(t) /\ t[i].name = l[i].name
      /\ Parses(t[i].doc) /\ Parsed(t[i].doc) = l[i].setup
  BY DEF LoadsAs
<1>2. Has(t, l[i].name) /\ Position(t, l[i].name) = i
  BY <1>1, PositionIs
<1> QED
  BY <1>1, <1>2 DEF Lookup

\* What is looked up in a tree is one of its documents or nothing.
LEMMA LookupType ==
    ASSUME NEW t, IsTree(t), NEW name
    PROVE  Lookup(t, name) \in Doc \cup {NoDoc}
<1>1. ASSUME Has(t, name) PROVE t[Position(t, name)].doc \in Doc
  <2>1. Position(t, name) \in 1..Len(t) /\ t \in Seq(Entry)
    BY <1>1, PositionType DEF IsTree
  <2>2. t[Position(t, name)] \in Entry
    BY <2>1
  <2> QED
    BY <2>2 DEF Entry
<1> QED
  BY <1>1 DEF Lookup

LEMMA CalibrateInv ==
    ASSUME Inv, NEW i \in 1..Len(setups), Calibrate(i)
    PROVE  Inv'
<1> USE DEF history, memory
<1> DEFINE d == Lookup(tree, setups[i].name)
<1>1. /\ pc = "ready" /\ used' = NoSetup
      /\ cal' = [used |-> setups[i].setup, stored |-> d, from |-> treeIs]
      /\ UNCHANGED <<pc, driver, file, tree, setups, gui, input, k>>
      /\ UNCHANGED <<treeIs, fileIs, guiIs, writer>>
  BY DEF Calibrate
<1>2. d \in Doc \cup {NoDoc} /\ setups[i].setup \in Setup
  BY TypeParts, LookupType DEF Inv, IsList, Canonical
<1>3. treeIs = "setups" => Parses(d) /\ Parsed(d) = setups[i].setup
  <2> SUFFICES ASSUME treeIs = "setups" PROVE Parses(d) /\ Parsed(d) = setups[i].setup
    OBVIOUS
  <2>1. LoadsAs(tree, setups)
    BY <1>1 DEF Inv, RunInv, Started
  <2>2. Unique(tree)
    BY TypeParts DEF IsTree, Unique
  <2> QED
    BY <2>1, <2>2, LookupIs
<1> HIDE DEF d
<1>4. IsList(setups)' /\ TreesType' /\ (k \in 1..Len(input) + 1)'
  BY <1>1, TypeHas DEF Inv, TypeOK, TreesType
<1>5. FlagsType' /\ CalType'
  BY <1>1, <1>2, TypeHas DEF Inv, FlagsType, CalType
<1>6. TypeOK'
  BY <1>4, <1>5, TypeFrom, PTL
<1>7. StartInv' /\ GuiInv' /\ RunInv' /\ FileInv'
  BY <1>1 DEF Inv, StartInv, GuiInv, RunInv, Started, FileInv, NeverLockedOut
<1>8. MeasuresAsCalibrated'
  BY <1>1, <1>3 DEF MeasuresAsCalibrated
<1> QED
  BY <1>4, <1>6, <1>7, <1>8 DEF Inv

LEMMA MeasureInv ==
    ASSUME Inv, Measure
    PROVE  Inv'
<1> USE DEF history, memory
<1>1. /\ pc = "ready" /\ cal # NoCal
      /\ IF cal.stored = NoDoc THEN used' = DefaultRB
         ELSE Parses(cal.stored) /\ used' = Parsed(cal.stored)
      /\ UNCHANGED <<pc, driver, file, tree, setups, gui, input, k, cal>>
      /\ UNCHANGED <<treeIs, fileIs, guiIs, writer>>
  BY DEF Measure
<1>2. cal.stored \in Doc \cup {NoDoc}
  BY <1>1, TypeHas DEF Inv, CalType
<1>3. used' \in Setup \cup {DefaultRB}
  BY <1>1, <1>2, ParsedSteps
<1>4. IsList(setups)' /\ TreesType' /\ (k \in 1..Len(input) + 1)'
  BY <1>1, TypeHas DEF Inv, TypeOK, TreesType
<1>5. FlagsType' /\ CalType'
  BY <1>1, <1>3, TypeHas DEF Inv, FlagsType, CalType
<1>6. TypeOK'
  BY <1>4, <1>5, TypeFrom, PTL
<1>7. StartInv' /\ GuiInv' /\ RunInv' /\ FileInv'
  BY <1>1 DEF Inv, StartInv, GuiInv, RunInv, Started, FileInv, NeverLockedOut
<1>8. MeasuresAsCalibrated'
  <2>1. ~Parses(NoDoc)
    BY DEF Parses, NoDoc
  <2> QED
    BY <1>1, <2>1 DEF Inv, MeasuresAsCalibrated
<1> QED
  BY <1>4, <1>6, <1>7, <1>8 DEF Inv

LEMMA StutterInv ==
    ASSUME Inv, UNCHANGED vars
    PROVE  Inv'
BY DEF Inv, TypeOK, vars, memory, history, StartInv, GuiInv, RunInv, Started, FileInv,
       NeverLockedOut, MeasuresAsCalibrated

-----------------------------------------------------------------------------
(***************************************************************************)
(* The theorems.                                                           *)
(***************************************************************************)
\* Every step of the program, of its driver and of the operator preserves
\* the invariant.
LEMMA NextInv == Inv /\ [Next]_vars => Inv'
<1> SUFFICES ASSUME Inv, [Next]_vars PROVE Inv'
  OBVIOUS
<1>1. ASSUME NEW who \in {"gui", "operator"}, Open(who) PROVE Inv'
  BY <1>1, OpenInv
<1>2. CASE ParseNext
  BY <1>2, ParseNextInv
<1>3. CASE Opened
  BY <1>3, OpenedInv
<1>4. CASE Refuse
  BY <1>4, RefuseInv
<1>5. ASSUME NEW entries \in Inputs, YLoad(entries) PROVE Inv'
  BY <1>5, YLoadInv
<1>6. CASE YLoadRefused
  BY <1>6, YLoadRefusedInv
<1>7. CASE Save
  BY <1>7, SaveInv
<1>8. CASE SaveFails
  BY <1>8, SaveFailsInv
<1>9. CASE BuildFails
  BY <1>9, BuildFailsInv
<1>10. CASE Cf
  BY <1>10, CfInv
<1>11. ASSUME NEW i \in 1..Len(setups), Calibrate(i) PROVE Inv'
  BY <1>11, CalibrateInv
<1>12. CASE Measure
  BY <1>12, MeasureInv
<1>13. CASE Exit
  BY <1>13, ExitInv
<1>14. ASSUME NEW contents \in HandFiles, Edit(contents) PROVE Inv'
  BY <1>14, EditInv
<1>15. CASE UNCHANGED vars
  BY <1>15, StutterInv
<1> QED
  BY <1>1, <1>2, <1>3, <1>4, <1>5, <1>6, <1>7, <1>8, <1>9, <1>10, <1>11, <1>12,
     <1>13, <1>14, <1>15 DEF Next

\* The invariant holds whatever setups there are.
THEOREM Invariance == Spec => []Inv
BY InitInv, NextInv, PTL DEF Spec

\* Every state has its type, and every setup in the list is one that can be
\* written and read again.
THEOREM TypeCorrect == Spec => []TypeOK
<1>1. Inv => TypeOK
  BY DEF Inv
<1> QED
  BY <1>1, Invariance, PTL

\* When the program waits for a command, the property tree, the file and
\* the list of the GUI load as the list of setups it uses, unless a yload
\* has failed.
THEOREM CopiesCorrect == Spec => []CopiesAgree
<1>1. Inv => CopiesAgree
  BY DEF Inv, GuiInv, RunInv, Started, CopiesAgree
<1> QED
  BY <1>1, Invariance, PTL

\* The program never refuses a configuration that it wrote itself from a
\* tree that was not torn.
THEOREM NeverLockedOutCorrect == Spec => []NeverLockedOut
<1>1. Inv => NeverLockedOut
  BY DEF Inv, FileInv
<1> QED
  BY <1>1, Invariance, PTL

\* measure uses the setup that calibrate measured with, although that took
\* the document from the tree and the setup from the list.
THEOREM MeasuresCorrect == Spec => []MeasuresAsCalibrated
<1>1. Inv => MeasuresAsCalibrated
  BY DEF Inv
<1> QED
  BY <1>1, Invariance, PTL

\* While the tree is not torn no step of the program takes a setup out of
\* the configuration file.
THEOREM SavesCorrect == Spec => SavesLoseNoSetup
<1>1. Inv /\ [Next]_vars =>
        (pc # "down" /\ treeIs # "torn" => NamesIn(file) \subseteq NamesIn(file'))
  <2> SUFFICES ASSUME Inv, [Next]_vars, pc # "down", treeIs # "torn"
               PROVE  NamesIn(file) \subseteq NamesIn(file')
    OBVIOUS
  <2>1. CASE Save
    <3>1. file' = RenderedList(setups) /\ pc = "loading"
      BY <2>1 DEF Save, ReadyToSave
    <3>2. NamesIn(RenderedList(setups)) = NamesIn(setups)
      BY RenderedLoads DEF Inv
    <3> QED
      BY <3>1, <3>2 DEF Inv, RunInv, Started
  <2>2. CASE Cf
    BY <2>2 DEF Cf, Inv, RunInv, Started
  <2>3. CASE UNCHANGED file
    BY <2>3
  <2>4. Save \/ Cf \/ UNCHANGED file
    BY DEF Next, vars, Open, ParseNext, Opened, Refuse, YLoad, YLoadRefused,
           SaveFails, BuildFails, Calibrate, Measure, Exit, Edit
  <2> QED
    BY <2>1, <2>2, <2>3, <2>4
<1>2. Inv /\ [Next]_vars =>
        [pc # "down" /\ treeIs # "torn" => NamesIn(file) \subseteq NamesIn(file')]_vars
  BY <1>1
<1> QED
  BY <1>2, Invariance, PTL DEF Spec, SavesLoseNoSetup

\* A setup survives being written and read again, whatever it is.
THEOREM WritingKeepsSetups ==
    \A doc \in Doc : Parses(doc) =>
        Parses(Rendered(Parsed(doc))) /\ Parsed(Rendered(Parsed(doc))) = Parsed(doc)
BY RoundTrip DEF Canonical
===============================================================================
