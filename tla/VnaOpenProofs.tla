----------------------------- MODULE VnaOpenProofs -----------------------------
(***************************************************************************)
(* Proofs about VnaOpen, for any processes, configurations and VNAs.       *)
(*                                                                         *)
(* The inductive invariant Inv says that a lock is held by exactly the     *)
(* process that works on the configuration, how far each of its files has  *)
(* got at each step of n2pkvna_save, that the copy of the holder is up to  *)
(* date, and that an unreadable configuration is never chosen.             *)
(***************************************************************************)
EXTENDS VnaOpen, TLAPS

\* A configuration is locked by the one process that works on it.
LockInv ==
    /\ \A p \in Proc : pc[p] \in Holding => lock[cfg[p]] = p
    /\ \A c \in Config : lock[c] # Nobody =>
           pc[lock[c]] \in Holding /\ cfg[lock[c]] = c

\* Where a save has got to shows in the files.
FileInv ==
    \A p \in Proc :
        /\ pc[p] \in {"unlink", "link", "rename"} => new[cfg[p]] = mem[p]
        /\ pc[p] = "rename" /\ cur[cfg[p]] # Missing => bak[cfg[p]] = cur[cfg[p]]

\* The copy has what the file has, and once a save has begun its model is
\* the model of the VNA.
MemInv ==
    \A p \in Proc :
        /\ pc[p] \in Holding \ {"locked"} /\ cur[cfg[p]] # Missing =>
            /\ cur[cfg[p]] \in Content
            /\ cur[cfg[p]].edits \subseteq mem[p].edits
            /\ Matches(cur[cfg[p]].model, dev[p])
        /\ pc[p] \in Saving \ {"write"} => mem[p].model = ModelOf[dev[p]]

\* A configuration considered or chosen was readable, and stays so.
ReadableInv ==
    \A p \in Proc :
        /\ pc[p] = "match" =>
            /\ \A c \in DOMAIN scope[p] : cur[c] # Bad
            /\ DOMAIN scope[p] = {} => \A c \in Config : cur[c] # Bad
        /\ pc[p] \in Holding \cup {"lock"} => cur[cfg[p]] # Bad

Inv == TypeOK /\ LockInv /\ FileInv /\ MemInv /\ ReadableInv

-----------------------------------------------------------------------------
(***************************************************************************)
(* The invariant holds at first, and every action preserves it.            *)
(***************************************************************************)
LEMMA NoScopeIsScope == NoScope \in Scopes
<1>1. NoScope \in [{} -> Model \cup {NoModel}]  BY DEF NoScope
<1>2. {} \in SUBSET Config  OBVIOUS
<1> QED  BY <1>1, <1>2 DEF Scopes

LEMMA EmptyIsContent == Empty \in Content
  BY DEF Empty, Content

LEMMA InitInv == Init => Inv
<1> SUFFICES ASSUME Init PROVE Inv
  OBVIOUS
<1>1. Empty \in Content /\ \A m \in Model \cup {NoModel} :
          [Empty EXCEPT !.model = m] \in Content
  BY DEF Empty, Content
<1>2. TypeOK
  BY <1>1, NoScopeIsScope DEF Init, TypeOK, Holding, Saving
<1>3. LockInv /\ FileInv /\ MemInv /\ ReadableInv
  BY DEF Init, LockInv, FileInv, MemInv, ReadableInv, Holding, Saving
<1> QED  BY <1>2, <1>3 DEF Inv

LEMMA LockPreserves == ASSUME NEW p \in Proc, Inv, Lock(p) PROVE Inv'
<1>1. TypeOK'
  BY DEF Lock, Inv, TypeOK, Goto, files, choice, Holding, Saving
<1>2. LockInv'
  BY OpenAssumption DEF Lock, Inv, TypeOK, LockInv, Goto, Gone, files, choice, Holding, Saving
<1>3. FileInv'
  BY OpenAssumption DEF Lock, Inv, TypeOK, LockInv, FileInv, Goto, Gone, files, choice, Holding, Saving
<1>4. MemInv'
  BY OpenAssumption DEF Lock, Inv, TypeOK, LockInv, FileInv, MemInv, ReadableInv, Matches,
     Goto, Gone, files, choice, Holding, Saving, Content, Empty, ContentsOf
<1>5. ReadableInv'
  BY DEF Lock, Inv, TypeOK, ReadableInv, Goto, Gone, files, choice, Holding, Saving
<1> QED  BY <1>1, <1>2, <1>3, <1>4, <1>5 DEF Inv

LEMMA ReparsePreserves == ASSUME NEW p \in Proc, Inv, Reparse(p) PROVE Inv'
<1>1. TypeOK'
  BY NoScopeIsScope, OpenAssumption DEF Reparse, Inv, TypeOK, LockInv, FileInv, MemInv, ReadableInv,
     Goto, Gone, files, choice, Holding, Saving, Content, Empty, ContentsOf, Matches
<1>2. LockInv'
  BY OpenAssumption DEF Reparse, Inv, TypeOK, LockInv, Goto, Gone, files, choice, Holding, Saving
<1>3. FileInv'
  BY OpenAssumption DEF Reparse, Inv, TypeOK, LockInv, FileInv, Goto, Gone, files, choice, Holding, Saving
<1>4. MemInv'
  BY OpenAssumption DEF Reparse, Inv, TypeOK, LockInv, FileInv, MemInv, ReadableInv, Matches,
     Goto, Gone, files, choice, Holding, Saving, Content, Empty, ContentsOf
<1>5. ReadableInv'
  BY DEF Reparse, Inv, TypeOK, ReadableInv, Goto, Gone, files, choice, Holding, Saving
<1> QED  BY <1>1, <1>2, <1>3, <1>4, <1>5 DEF Inv

LEMMA OpenUsbPreserves == ASSUME NEW p \in Proc, Inv, OpenUsb(p) PROVE Inv'
<1>1. TypeOK'
  BY DEF OpenUsb, Inv, TypeOK, Goto, files, choice, Holding, Saving
<1>2. LockInv'
  BY OpenAssumption DEF OpenUsb, Inv, TypeOK, LockInv, Goto, Gone, files, choice, Holding, Saving
<1>3. FileInv'
  BY OpenAssumption DEF OpenUsb, Inv, TypeOK, LockInv, FileInv, Goto, Gone, files, choice, Holding, Saving
<1>4. MemInv'
  BY OpenAssumption DEF OpenUsb, Inv, TypeOK, LockInv, FileInv, MemInv, ReadableInv, Matches,
     Goto, Gone, files, choice, Holding, Saving, Content, Empty, ContentsOf
<1>5. ReadableInv'
  BY DEF OpenUsb, Inv, TypeOK, ReadableInv, Goto, Gone, files, choice, Holding, Saving
<1> QED  BY <1>1, <1>2, <1>3, <1>4, <1>5 DEF Inv

LEMMA OpenFailsPreserves == ASSUME NEW p \in Proc, Inv, OpenFails(p) PROVE Inv'
<1>1. TypeOK'
  BY NoScopeIsScope, EmptyIsContent DEF OpenFails, Inv, TypeOK, Goto, Gone, files, choice, Holding, Saving
<1>2. LockInv'
  BY OpenAssumption DEF OpenFails, Inv, TypeOK, LockInv, Goto, Gone, files, choice, Holding, Saving
<1>3. FileInv'
  BY OpenAssumption DEF OpenFails, Inv, TypeOK, LockInv, FileInv, Goto, Gone, files, choice, Holding, Saving
<1>4. MemInv'
  BY OpenAssumption DEF OpenFails, Inv, TypeOK, LockInv, FileInv, MemInv, ReadableInv, Matches,
     Goto, Gone, files, choice, Holding, Saving, Content, Empty, ContentsOf
<1>5. ReadableInv'
  BY DEF OpenFails, Inv, TypeOK, ReadableInv, Goto, Gone, files, choice, Holding, Saving
<1> QED  BY <1>1, <1>2, <1>3, <1>4, <1>5 DEF Inv

LEMMA SaveWritePreserves == ASSUME NEW p \in Proc, Inv, SaveWrite(p) PROVE Inv'
<1>1. TypeOK'
  BY NoScopeIsScope, OpenAssumption DEF SaveWrite, Inv, TypeOK, LockInv, FileInv, MemInv, ReadableInv,
     Goto, Gone, files, choice, Holding, Saving, Content, Empty, ContentsOf, Matches
<1>2. LockInv'
  BY OpenAssumption DEF SaveWrite, Inv, TypeOK, LockInv, Goto, Gone, files, choice, Holding, Saving
<1>3. FileInv'
  BY OpenAssumption DEF SaveWrite, Inv, TypeOK, LockInv, FileInv, Goto, Gone, files, choice, Holding, Saving
<1>4. MemInv'
  BY OpenAssumption DEF SaveWrite, Inv, TypeOK, LockInv, FileInv, MemInv, ReadableInv, Matches,
     Goto, Gone, files, choice, Holding, Saving, Content, Empty, ContentsOf
<1>5. ReadableInv'
  BY DEF SaveWrite, Inv, TypeOK, ReadableInv, Goto, Gone, files, choice, Holding, Saving
<1> QED  BY <1>1, <1>2, <1>3, <1>4, <1>5 DEF Inv

LEMMA SaveSyncPreserves == ASSUME NEW p \in Proc, Inv, SaveSync(p) PROVE Inv'
<1>1. TypeOK'
  BY DEF SaveSync, Inv, TypeOK, Goto, files, choice, Holding, Saving
<1>2. LockInv'
  BY OpenAssumption DEF SaveSync, Inv, TypeOK, LockInv, Goto, Gone, files, choice, Holding, Saving
<1>3. FileInv'
  BY OpenAssumption DEF SaveSync, Inv, TypeOK, LockInv, FileInv, Goto, Gone, files, choice, Holding, Saving
<1>4. MemInv'
  BY OpenAssumption DEF SaveSync, Inv, TypeOK, LockInv, FileInv, MemInv, ReadableInv, Matches,
     Goto, Gone, files, choice, Holding, Saving, Content, Empty, ContentsOf
<1>5. ReadableInv'
  BY DEF SaveSync, Inv, TypeOK, ReadableInv, Goto, Gone, files, choice, Holding, Saving
<1> QED  BY <1>1, <1>2, <1>3, <1>4, <1>5 DEF Inv

LEMMA SaveUnlinkPreserves == ASSUME NEW p \in Proc, Inv, SaveUnlink(p) PROVE Inv'
<1>1. TypeOK'
  BY DEF SaveUnlink, Inv, TypeOK, Goto, files, choice, Holding, Saving
<1>2. LockInv'
  BY OpenAssumption DEF SaveUnlink, Inv, TypeOK, LockInv, Goto, Gone, files, choice, Holding, Saving
<1>3. FileInv'
  BY OpenAssumption DEF SaveUnlink, Inv, TypeOK, LockInv, FileInv, Goto, Gone, files, choice, Holding, Saving
<1>4. MemInv'
  BY OpenAssumption DEF SaveUnlink, Inv, TypeOK, LockInv, FileInv, MemInv, ReadableInv, Matches,
     Goto, Gone, files, choice, Holding, Saving, Content, Empty, ContentsOf
<1>5. ReadableInv'
  BY DEF SaveUnlink, Inv, TypeOK, ReadableInv, Goto, Gone, files, choice, Holding, Saving
<1> QED  BY <1>1, <1>2, <1>3, <1>4, <1>5 DEF Inv

LEMMA SaveLinkPreserves == ASSUME NEW p \in Proc, Inv, SaveLink(p) PROVE Inv'
<1>1. TypeOK'
  BY DEF SaveLink, Inv, TypeOK, Goto, files, choice, Holding, Saving
<1>2. LockInv'
  BY OpenAssumption DEF SaveLink, Inv, TypeOK, LockInv, Goto, Gone, files, choice, Holding, Saving
<1>3. FileInv'
  BY OpenAssumption DEF SaveLink, Inv, TypeOK, LockInv, FileInv, Goto, Gone, files, choice, Holding, Saving
<1>4. MemInv'
  BY OpenAssumption DEF SaveLink, Inv, TypeOK, LockInv, FileInv, MemInv, ReadableInv, Matches,
     Goto, Gone, files, choice, Holding, Saving, Content, Empty, ContentsOf
<1>5. ReadableInv'
  BY DEF SaveLink, Inv, TypeOK, ReadableInv, Goto, Gone, files, choice, Holding, Saving
<1> QED  BY <1>1, <1>2, <1>3, <1>4, <1>5 DEF Inv

LEMMA SaveRenamePreserves == ASSUME NEW p \in Proc, Inv, SaveRename(p) PROVE Inv'
<1>1. TypeOK'
  BY NoScopeIsScope, OpenAssumption DEF SaveRename, Inv, TypeOK, LockInv, FileInv, MemInv, ReadableInv,
     Goto, Gone, files, choice, Holding, Saving, Content, Empty, ContentsOf, Matches
<1>2. LockInv'
  BY OpenAssumption DEF SaveRename, Inv, TypeOK, LockInv, Goto, Gone, files, choice, Holding, Saving
<1>3. FileInv'
  BY OpenAssumption DEF SaveRename, Inv, TypeOK, LockInv, FileInv, Goto, Gone, files, choice, Holding, Saving
<1>4. MemInv'
  BY OpenAssumption DEF SaveRename, Inv, TypeOK, LockInv, FileInv, MemInv, ReadableInv, Matches,
     Goto, Gone, files, choice, Holding, Saving, Content, Empty, ContentsOf
<1>5. ReadableInv'
  <2>1. cur' = [cur EXCEPT ![cfg[p]] = mem[p]] /\ mem[p] # Bad
    BY OpenAssumption DEF SaveRename, Inv, TypeOK, FileInv
  <2> QED
    BY <2>1 DEF SaveRename, Inv, TypeOK, ReadableInv, Goto, choice, Holding, Saving
<1> QED  BY <1>1, <1>2, <1>3, <1>4, <1>5 DEF Inv

LEMMA SaveFailsPreserves == ASSUME NEW p \in Proc, Inv, SaveFails(p) PROVE Inv'
<1>1. TypeOK'
  <2>1. CASE Goto(p, "ready") /\ UNCHANGED <<lock, choice, mem>>
    BY <2>1 DEF SaveFails, Inv, TypeOK, Goto, files, choice, Holding, Saving
  <2>2. CASE Gone(p)
    BY <2>2, NoScopeIsScope, EmptyIsContent
    DEF SaveFails, Inv, TypeOK, Gone, files, Holding, Saving
  <2> QED  BY <2>1, <2>2 DEF SaveFails
<1>2. LockInv'
  BY OpenAssumption DEF SaveFails, Inv, TypeOK, LockInv, Goto, Gone, files, choice, Holding, Saving
<1>3. FileInv'
  BY OpenAssumption DEF SaveFails, Inv, TypeOK, LockInv, FileInv, Goto, Gone, files, choice, Holding, Saving
<1>4. MemInv'
  BY OpenAssumption DEF SaveFails, Inv, TypeOK, LockInv, FileInv, MemInv, ReadableInv, Matches,
     Goto, Gone, files, choice, Holding, Saving, Content, Empty, ContentsOf
<1>5. ReadableInv'
  BY DEF SaveFails, Inv, TypeOK, ReadableInv, Goto, Gone, files, choice, Holding, Saving
<1> QED  BY <1>1, <1>2, <1>3, <1>4, <1>5 DEF Inv

LEMMA EditPreserves == ASSUME NEW p \in Proc, Inv, Edit(p) PROVE Inv'
<1>1. TypeOK'
  <2>1. mem' \in [Proc -> Content]
    BY DEF Edit, Inv, TypeOK, Content
  <2> QED
    BY <2>1 DEF Edit, Inv, TypeOK, Goto, files, choice, Holding, Saving
<1>2. LockInv'
  BY OpenAssumption DEF Edit, Inv, TypeOK, LockInv, Goto, Gone, files, choice, Holding, Saving
<1>3. FileInv'
  BY OpenAssumption DEF Edit, Inv, TypeOK, LockInv, FileInv, Goto, Gone, files, choice, Holding, Saving
<1>4. MemInv'
  BY OpenAssumption DEF Edit, Inv, TypeOK, LockInv, FileInv, MemInv, ReadableInv, Matches,
     Goto, Gone, files, choice, Holding, Saving, Content, Empty, ContentsOf
<1>5. ReadableInv'
  BY DEF Edit, Inv, TypeOK, ReadableInv, Goto, Gone, files, choice, Holding, Saving
<1> QED  BY <1>1, <1>2, <1>3, <1>4, <1>5 DEF Inv

LEMMA ClosePreserves == ASSUME NEW p \in Proc, Inv, Close(p) PROVE Inv'
<1>1. TypeOK'
  BY NoScopeIsScope, EmptyIsContent DEF Close, Inv, TypeOK, Goto, Gone, files, choice, Holding, Saving
<1>2. LockInv'
  BY OpenAssumption DEF Close, Inv, TypeOK, LockInv, Goto, Gone, files, choice, Holding, Saving
<1>3. FileInv'
  BY OpenAssumption DEF Close, Inv, TypeOK, LockInv, FileInv, Goto, Gone, files, choice, Holding, Saving
<1>4. MemInv'
  BY OpenAssumption DEF Close, Inv, TypeOK, LockInv, FileInv, MemInv, ReadableInv, Matches,
     Goto, Gone, files, choice, Holding, Saving, Content, Empty, ContentsOf
<1>5. ReadableInv'
  BY DEF Close, Inv, TypeOK, ReadableInv, Goto, Gone, files, choice, Holding, Saving
<1> QED  BY <1>1, <1>2, <1>3, <1>4, <1>5 DEF Inv

LEMMA ParsePreserves ==
    ASSUME NEW p \in Proc, NEW name \in Config \cup {NoName}, NEW mk \in BOOLEAN,
           Inv, Parse(p, name, mk)
    PROVE  Inv'
<1> DEFINE sc == [c \in InScope(name) |-> ContentsOf(cur[c]).model]
<1>1. InScope(name) \subseteq Config
  BY DEF InScope
<1>2. \A c \in InScope(name) : ContentsOf(cur[c]) \in Content
  BY <1>1, EmptyIsContent DEF Parse, Inv, TypeOK, ContentsOf
<1>3. sc \in Scopes /\ DOMAIN sc = InScope(name)
  <2>1. \A c \in InScope(name) : ContentsOf(cur[c]).model \in Model \cup {NoModel}
    BY <1>2 DEF Content
  <2>2. sc \in [InScope(name) -> Model \cup {NoModel}]
    BY <2>1
  <2> QED  BY <1>1, <2>2 DEF Scopes
<1>4. scope' = [scope EXCEPT ![p] = sc]
  BY DEF Parse
<1> HIDE DEF sc
<1>5. TypeOK'
  BY <1>3, <1>4 DEF Parse, Inv, TypeOK, Goto, files, Holding, Saving
<1>6. LockInv' /\ FileInv' /\ MemInv'
  BY DEF Parse, Inv, TypeOK, LockInv, FileInv, MemInv, Goto, files, Holding, Saving
<1>7. ReadableInv'
  <2>1. \A c \in DOMAIN sc : cur[c] # Bad
    BY <1>3 DEF Parse
  <2>2. DOMAIN sc = {} => \A c \in Config : cur[c] # Bad
    BY <1>3, OpenAssumption DEF InScope
  <2> QED
    BY <1>4, <2>1, <2>2 DEF Parse, Inv, TypeOK, ReadableInv, Goto, files, Holding, Saving
<1> QED  BY <1>5, <1>6, <1>7 DEF Inv

LEMMA ParseCrashesPreserves ==
    ASSUME NEW p \in Proc, NEW name \in Config \cup {NoName},
           Inv, ParseCrashes(p, name)
    PROVE  Inv'
<1>1. TypeOK'
  BY DEF ParseCrashes, Inv, TypeOK, Goto, files, choice, Holding, Saving
<1>2. LockInv' /\ FileInv' /\ MemInv' /\ ReadableInv'
  BY DEF ParseCrashes, Inv, TypeOK, LockInv, FileInv, MemInv, ReadableInv, Goto, files,
     choice, Holding, Saving
<1> QED  BY <1>1, <1>2 DEF Inv

\* The default configuration is one, and if it comes into play no
\* configuration was unreadable.
LEMMA WithDefaultIsReadable ==
    ASSUME NEW p \in Proc, NEW seen \in SUBSET Device, Inv, pc[p] = "match"
    PROVE  LET sc == WithDefault(scope[p], create[p], seen)
           IN  sc \in Scopes /\ \A c \in DOMAIN sc : c \in Config /\ cur[c] # Bad
<1> DEFINE sc == WithDefault(scope[p], create[p], seen)
           S == {DefaultConfig[ModelOf[d]] : d \in seen}
<1>1. CASE sc = scope[p]
  BY <1>1 DEF Inv, TypeOK, ReadableInv, Scopes
<1>2. CASE DOMAIN scope[p] = {} /\ sc = [c \in S |-> NoModel]
  <2>1. S \subseteq Config
    BY OpenAssumption
  <2>2. sc \in [S -> Model \cup {NoModel}]
    BY <1>2
  <2>3. \A c \in Config : cur[c] # Bad
    BY <1>2 DEF Inv, ReadableInv
  <2> QED  BY <2>1, <2>2, <2>3 DEF Scopes
<1> QED  BY <1>1, <1>2 DEF WithDefault

LEMMA MatchPreserves ==
    ASSUME NEW p \in Proc, NEW seen \in SUBSET Device, Inv, Match(p, seen)
    PROVE  Inv'
<1> DEFINE sc == WithDefault(scope[p], create[p], seen)
           pairs == {pair \in (DOMAIN sc) \X seen : Matches(sc[pair[1]], pair[2])}
<1>1. sc \in Scopes /\ \A c \in DOMAIN sc : c \in Config /\ cur[c] # Bad
  BY WithDefaultIsReadable DEF Match
<1>2. \A pair \in pairs : pair[1] \in Config /\ cur[pair[1]] # Bad /\ pair[2] \in Device
  BY <1>1
<1>3. MkListing(sc, seen) \in SUBSET [config : Config, addresses : SUBSET Device]
  BY <1>1 DEF MkListing, Addresses
<1>4. /\ pc[p] = "match"
      /\ scope' = [scope EXCEPT ![p] = sc]
      /\ \/ /\ Goto(p, "many")
            /\ listing' = [listing EXCEPT ![p] = MkListing(sc, seen)]
            /\ UNCHANGED <<cfg, dev>>
         \/ \E pair \in pairs :
              /\ Goto(p, "lock")
              /\ cfg' = [cfg EXCEPT ![p] = pair[1]]
              /\ dev' = [dev EXCEPT ![p] = pair[2]]
              /\ UNCHANGED listing
      /\ UNCHANGED <<files, lock, create, mem>>
  BY DEF Match
<1> HIDE DEF sc, pairs
<1>5. TypeOK'
  BY <1>1, <1>2, <1>3, <1>4 DEF Inv, TypeOK, Goto, files, Holding, Saving
<1>6. LockInv'
  BY <1>4 DEF Inv, TypeOK, LockInv, Goto, files, Holding, Saving
<1>7. FileInv' /\ MemInv'
  BY <1>4 DEF Inv, TypeOK, FileInv, MemInv, Goto, files, Holding, Saving
<1>8. ReadableInv'
  BY <1>2, <1>4 DEF Inv, TypeOK, ReadableInv, Goto, files, Holding, Saving
<1> QED  BY <1>5, <1>6, <1>7, <1>8 DEF Inv

LEMMA NextPreserves == Inv /\ [Next]_vars => Inv'
<1> SUFFICES ASSUME Inv, [Next]_vars PROVE Inv'
  OBVIOUS
<1>1. ASSUME NEW p \in Proc, NEW name \in Config \cup {NoName}, NEW mk \in BOOLEAN,
             Parse(p, name, mk) \/ ParseCrashes(p, name)
      PROVE  Inv'
  BY <1>1, ParsePreserves, ParseCrashesPreserves
<1>2. ASSUME NEW p \in Proc, NEW seen \in SUBSET Device, Match(p, seen)
      PROVE  Inv'
  BY <1>2, MatchPreserves
<1>3. ASSUME NEW p \in Proc, Lock(p) \/ Reparse(p) \/ OpenUsb(p) \/ OpenFails(p)
      PROVE  Inv'
  BY <1>3, LockPreserves, ReparsePreserves, OpenUsbPreserves, OpenFailsPreserves
<1>4. ASSUME NEW p \in Proc,
             \/ SaveWrite(p) \/ SaveSync(p) \/ SaveUnlink(p) \/ SaveLink(p)
             \/ SaveRename(p) \/ SaveFails(p)
      PROVE  Inv'
  BY <1>4, SaveWritePreserves, SaveSyncPreserves, SaveUnlinkPreserves, SaveLinkPreserves,
     SaveRenamePreserves, SaveFailsPreserves
<1>5. ASSUME NEW p \in Proc, Edit(p) \/ Close(p) PROVE Inv'
  BY <1>5, EditPreserves, ClosePreserves
<1>6. CASE UNCHANGED vars
  BY <1>6 DEF vars, Inv, TypeOK, LockInv, FileInv, MemInv, ReadableInv
<1> QED  BY <1>1, <1>2, <1>3, <1>4, <1>5, <1>6 DEF Next

\* The invariant of open, lock, save and close holds for any processes, VNAs
\* and configurations.
THEOREM Invariance == Spec => []Inv
  BY InitInv, NextPreserves, PTL DEF Spec

-----------------------------------------------------------------------------
(***************************************************************************)
(* The properties of VnaOpen.                                              *)
(***************************************************************************)
\* The files hold whole configurations at every moment, and a process that
\* has chosen has chosen a configuration and a VNA.
THEOREM TypeCorrect == Spec => []TypeOK
  BY Invariance, PTL DEF Inv

\* Whoever holds a configuration has every change saved in it.
THEOREM CurrentCorrect == Spec => []CopyIsCurrent
<1>1. Inv => CopyIsCurrent
  BY DEF Inv, MemInv, CopyIsCurrent
<1> QED  BY <1>1, Invariance, PTL

\* No configuration is opened with a VNA of another model than its own.
THEOREM BoundCorrect == Spec => []BoundToModel
<1>1. Inv => BoundToModel
  BY DEF Inv, MemInv, BoundToModel
<1> QED  BY <1>1, Invariance, PTL

\* Only SaveRename changes a configuration, and it puts in its place a
\* whole one with all the changes of the old.
LEMMA OnlyRenameReplaces ==
    ASSUME Inv, Next
    PROVE  cur' = cur \/ \E p \in Proc : SaveRename(p)
BY DEF Next, Parse, ParseCrashes, Match, Lock, Reparse, OpenUsb, OpenFails, SaveWrite,
       SaveSync, SaveUnlink, SaveLink, SaveFails, Edit, Close, files

LEMMA RenameReplaces ==
    ASSUME NEW p \in Proc, Inv, SaveRename(p), NEW c \in Config, cur'[c] # cur[c]
    PROVE  /\ c = cfg[p]
           /\ cur'[c] = mem[p]
           /\ mem[p] \in Content
           /\ bak'[c] = bak[c]
<1>1. new[cfg[p]] = mem[p] /\ mem[p] \in Content /\ cfg[p] \in Config
  BY DEF Inv, TypeOK, FileInv, SaveRename, Holding, Saving
<1> QED  BY <1>1 DEF SaveRename, Inv, TypeOK

\* No saved change is lost, wherever the writers are interrupted.
THEOREM NothingLostCorrect == Spec => NothingLost
<1> DEFINE Kept ==
      \A c \in Config : cur'[c] # cur[c] =>
          /\ cur'[c] \in Content
          /\ cur[c] \in Content => cur[c].edits \subseteq cur'[c].edits
<1>1. Inv /\ [Next]_vars => [Kept]_vars
  <2> SUFFICES ASSUME Inv, Next, NEW c \in Config, cur'[c] # cur[c]
               PROVE  /\ cur'[c] \in Content
                      /\ cur[c] \in Content => cur[c].edits \subseteq cur'[c].edits
    OBVIOUS
  <2>1. PICK p \in Proc : SaveRename(p)
    BY OnlyRenameReplaces
  <2>2. c = cfg[p] /\ cur'[c] = mem[p] /\ mem[p] \in Content
    BY <2>1, RenameReplaces
  <2>3. cur[c] \in Content => cur[c].edits \subseteq mem[p].edits
    BY <2>1, <2>2, OpenAssumption DEF Inv, MemInv, SaveRename, Holding, Saving
  <2> QED  BY <2>2, <2>3
<1> QED  BY <1>1, Invariance, PTL DEF Spec, NothingLost

\* The replaced configuration is always in config.bak.
THEOREM BackupCorrect == Spec => BackupIsPrevious
<1> DEFINE Kept ==
      \A c \in Config : cur'[c] # cur[c] /\ cur[c] # Missing => bak'[c] = cur[c]
<1>1. Inv /\ [Next]_vars => [Kept]_vars
  <2> SUFFICES ASSUME Inv, Next, NEW c \in Config, cur'[c] # cur[c], cur[c] # Missing
               PROVE  bak'[c] = cur[c]
    OBVIOUS
  <2>1. PICK p \in Proc : SaveRename(p)
    BY OnlyRenameReplaces
  <2>2. c = cfg[p] /\ bak'[c] = bak[c]
    BY <2>1, RenameReplaces
  <2> QED  BY <2>1, <2>2 DEF Inv, FileInv, SaveRename
<1> QED  BY <1>1, Invariance, PTL DEF Spec, BackupIsPrevious

-----------------------------------------------------------------------------
(***************************************************************************)
(* VnaOpen implements ConfigStore.  Taking the lock is Acquire, a rename   *)
(* is Commit, giving the lock back is Release, what changes the copy of a  *)
(* holder is Work, and everything else is a stutter.                       *)
(***************************************************************************)
LEMMA SameCopies ==
    ASSUME NEW p \in Proc, Inv, pc[p] \notin Holding, UNCHANGED <<cur, lock, mem>>,
           \A q \in Proc \ {p} : pc'[q] = pc[q]
    PROVE  UNCHANGED Store!storeVars
<1>1. \A c \in Config : lock[c] # Nobody => lock[c] \in Proc \ {p}
  BY DEF Inv, TypeOK, LockInv
<1>2. HeldCopy' = HeldCopy
  BY <1>1 DEF HeldCopy, ContentsOf
<1> QED  BY <1>2 DEF Store!storeVars

\* Only the configuration of p is p's to give back.
LEMMA GoneReleases ==
    ASSUME NEW p \in Proc, Inv, pc[p] \in Holding, Gone(p), UNCHANGED files
    PROVE  Store!Release(cfg[p])
<1>1. cfg[p] \in Config /\ lock[cfg[p]] = p /\ p # Nobody
  BY OpenAssumption DEF Inv, TypeOK, LockInv
<1>2. \A c \in Config \ {cfg[p]} : lock[c] # p
  BY OpenAssumption DEF Inv, TypeOK, LockInv
<1>3. lock' = [lock EXCEPT ![cfg[p]] = Nobody]
  BY <1>1, <1>2 DEF Gone, Inv, TypeOK
<1>4. \A c \in Config \ {cfg[p]} :
          lock[c] # Nobody => pc'[lock[c]] = pc[lock[c]] /\ mem'[lock[c]] = mem[lock[c]]
  BY <1>2 DEF Gone, Inv, TypeOK
<1>5. HeldCopy' = [HeldCopy EXCEPT ![cfg[p]] = Empty]
  BY <1>1, <1>2, <1>3, <1>4 DEF HeldCopy, files, ContentsOf, Inv, TypeOK
<1> QED  BY <1>1, <1>3, <1>5 DEF Store!Release, files, Store!Empty, Empty

\* A step of the holder under the lock that may change its copy.
LEMMA HolderCopies ==
    ASSUME NEW p \in Proc, Inv, pc[p] \in Holding, pc'[p] \in Holding \ {"locked"},
           UNCHANGED <<lock, cfg>>, \A c \in Config \ {cfg[p]} : cur'[c] = cur[c],
           \A q \in Proc \ {p} : pc'[q] = pc[q] /\ mem'[q] = mem[q]
    PROVE  /\ cfg[p] \in Config
           /\ lock[cfg[p]] # Nobody
           /\ HeldCopy' = [HeldCopy EXCEPT ![cfg[p]] = mem'[p]]
<1>1. cfg[p] \in Config /\ lock[cfg[p]] = p /\ p # Nobody
  BY OpenAssumption DEF Inv, TypeOK, LockInv
<1>2. \A c \in Config \ {cfg[p]} : lock[c] # Nobody => lock[c] \in Proc \ {p}
  BY DEF Inv, TypeOK, LockInv
<1>3. HeldCopy'[cfg[p]] = mem'[p]
  BY <1>1 DEF HeldCopy
<1>4. \A c \in Config \ {cfg[p]} : HeldCopy'[c] = HeldCopy[c]
  BY <1>2 DEF HeldCopy, ContentsOf
<1>5. /\ HeldCopy = [c \in Config |-> HeldCopy[c]]
      /\ HeldCopy' = [c \in Config |-> HeldCopy'[c]]
  BY DEF HeldCopy
<1>6. HeldCopy' = [HeldCopy EXCEPT ![cfg[p]] = mem'[p]]
  BY <1>1, <1>3, <1>4, <1>5
<1> QED  BY <1>1, <1>6

\* Every step of the locked file is a step, or none, of the abstract store of
\* configurations.
THEOREM ImplementsStore == Spec => StoreSpec
<1>1. Init => Store!StoreInit
  <2> SUFFICES ASSUME Init PROVE Store!StoreInit
    OBVIOUS
  <2>1. cur \in [Config -> Store!Stored]
    BY DEF Init, Store!Stored, Store!Content, Empty
  <2>2. HeldCopy = [c \in Config |-> Empty]
    BY DEF Init, HeldCopy
  <2> QED  BY <2>1, <2>2 DEF Init, Store!StoreInit, Store!Empty, Empty
<1>2. Inv /\ Inv' /\ [Next]_vars => [Store!StoreNext]_(Store!storeVars)
  <2> SUFFICES ASSUME Inv, Inv', [Next]_vars
               PROVE  Store!StoreNext \/ UNCHANGED Store!storeVars
    OBVIOUS
  <2>1. ASSUME NEW p \in Proc, NEW name \in Config \cup {NoName}, NEW mk \in BOOLEAN,
               Parse(p, name, mk) \/ ParseCrashes(p, name)
        PROVE  UNCHANGED Store!storeVars
    <3>1. /\ pc[p] \notin Holding
          /\ UNCHANGED <<cur, lock, mem>>
          /\ \A q \in Proc \ {p} : pc'[q] = pc[q]
      BY <2>1 DEF Parse, ParseCrashes, Goto, files, Holding, Saving, Inv, TypeOK
    <3> QED  BY <3>1, SameCopies
  <2>2. ASSUME NEW p \in Proc, NEW seen \in SUBSET Device, Match(p, seen)
        PROVE  UNCHANGED Store!storeVars
    <3>1. /\ pc[p] \notin Holding
          /\ UNCHANGED <<cur, lock, mem>>
          /\ \A q \in Proc \ {p} : pc'[q] = pc[q]
      BY <2>2 DEF Match, Goto, files, Holding, Saving, Inv, TypeOK
    <3> QED  BY <3>1, SameCopies
  <2>3. ASSUME NEW p \in Proc, Lock(p) PROVE Store!Acquire(p, cfg[p]) /\ cfg[p] \in Config
    <3>1. cfg[p] \in Config /\ p # Nobody /\ cur[cfg[p]] # Bad
      BY <2>3, OpenAssumption DEF Inv, TypeOK, ReadableInv, Lock
    <3>2. \A c \in Config : lock[c] # Nobody => lock[c] \in Proc \ {p}
      BY <2>3 DEF Inv, TypeOK, LockInv, Lock, Holding, Saving
    <3>3. HeldCopy' = [HeldCopy EXCEPT ![cfg[p]] = ContentsOf(cur[cfg[p]])]
      BY <2>3, <3>1, <3>2 DEF Lock, HeldCopy, ContentsOf, files, Goto, Inv, TypeOK
    <3> QED
      BY <2>3, <3>1, <3>3 DEF Lock, Store!Acquire, Store!ContentsOf, ContentsOf, Store!Empty,
         Empty, files
  <2>4. ASSUME NEW p \in Proc, Reparse(p) \/ OpenUsb(p) \/ SaveSync(p) \/ SaveUnlink(p) \/ SaveLink(p)
        PROVE  UNCHANGED Store!storeVars
    <3>1. /\ pc[p] \in Holding /\ pc'[p] \in Holding \ {"locked"}
          /\ UNCHANGED <<cur, lock, cfg>>
          /\ \A q \in Proc \ {p} : pc'[q] = pc[q] /\ mem'[q] = mem[q]
      BY <2>4 DEF Reparse, OpenUsb, SaveSync, SaveUnlink, SaveLink, Goto, files, choice, Holding,
         Saving, Inv, TypeOK
    <3>2. cfg[p] \in Config /\ lock[cfg[p]] = p /\ p # Nobody
      BY <3>1, OpenAssumption DEF Inv, TypeOK, LockInv
    <3>3. HeldCopy[cfg[p]] = mem'[p]
      BY <2>4, <3>2 DEF HeldCopy, Reparse, OpenUsb, SaveSync, SaveUnlink, SaveLink, Inv, TypeOK
    <3>4. HeldCopy' = HeldCopy
      BY <3>1, <3>2, <3>3, HolderCopies DEF HeldCopy
    <3> QED  BY <3>1, <3>4 DEF Store!storeVars
  <2>5. ASSUME NEW p \in Proc, SaveWrite(p) \/ Edit(p)
        PROVE  Store!Work(cfg[p]) /\ cfg[p] \in Config
    <3>1. /\ pc[p] \in Holding \ {"locked"} /\ pc'[p] \in Holding \ {"locked"}
          /\ UNCHANGED <<cur, lock, cfg>>
          /\ \A q \in Proc \ {p} : pc'[q] = pc[q] /\ mem'[q] = mem[q]
      BY <2>5 DEF SaveWrite, Edit, Goto, files, choice, Holding, Saving, Inv, TypeOK
    <3>2. cfg[p] \in Config /\ lock[cfg[p]] = p /\ p # Nobody
      BY <3>1, OpenAssumption DEF Inv, TypeOK, LockInv
    <3>3. mem'[p] \in Content
      BY DEF Inv, TypeOK
    <3>4. mem[p].edits \subseteq mem'[p].edits
      <4>1. mem[p] \in Content
        BY DEF Inv, TypeOK
      <4>2. CASE SaveWrite(p)
        <5>1. mem'[p] = [mem[p] EXCEPT !.model = ModelOf[dev[p]]]
          BY <4>2 DEF SaveWrite, Inv, TypeOK
        <5> QED  BY <4>1, <5>1 DEF Content
      <4>3. CASE Edit(p)
        <5>1. mem'[p] = [mem[p] EXCEPT !.edits = mem[p].edits \cup {p}]
          BY <4>3 DEF Edit, Inv, TypeOK
        <5> QED  BY <4>1, <5>1 DEF Content
      <4> QED  BY <2>5, <4>2, <4>3
    <3>5. HeldCopy[cfg[p]] = mem[p]
      BY <3>1, <3>2 DEF HeldCopy
    <3>6. HeldCopy' = [HeldCopy EXCEPT ![cfg[p]] = mem'[p]]
      BY <3>1, HolderCopies
    <3>7. Store!Work(cfg[p])
      BY <3>1, <3>2, <3>3, <3>4, <3>5, <3>6 DEF Store!Work, Store!Content, Content
    <3> QED  BY <3>2, <3>7
  <2>6. ASSUME NEW p \in Proc, SaveRename(p)
        PROVE  Store!Commit(cfg[p]) /\ cfg[p] \in Config
    <3>1. /\ pc[p] \in Holding \ {"locked"} /\ pc'[p] \in Holding \ {"locked"}
          /\ UNCHANGED <<lock, cfg, mem>>
          /\ \A q \in Proc \ {p} : pc'[q] = pc[q] /\ mem'[q] = mem[q]
      BY <2>6 DEF SaveRename, Goto, choice, Holding, Saving, Inv, TypeOK
    <3>2. cfg[p] \in Config /\ lock[cfg[p]] = p /\ p # Nobody
      BY <3>1, OpenAssumption DEF Inv, TypeOK, LockInv
    <3>3. cur' = [cur EXCEPT ![cfg[p]] = mem[p]]
      BY <2>6 DEF SaveRename, Inv, FileInv
    <3>4. HeldCopy[cfg[p]] = mem[p]
      BY <3>1, <3>2 DEF HeldCopy
    <3>5. \A c \in Config \ {cfg[p]} : cur'[c] = cur[c]
      BY <3>3 DEF Inv, TypeOK
    <3>6. HeldCopy' = [HeldCopy EXCEPT ![cfg[p]] = mem[p]]
      BY <3>1, <3>5, HolderCopies
    <3>7. HeldCopy' = HeldCopy
      BY <3>4, <3>6 DEF HeldCopy
    <3> QED  BY <3>1, <3>2, <3>3, <3>4, <3>7 DEF Store!Commit
  <2>7. ASSUME NEW p \in Proc, OpenFails(p) \/ SaveFails(p) \/ Close(p)
        PROVE  \/ UNCHANGED Store!storeVars
               \/ Store!Release(cfg[p]) /\ cfg[p] \in Config
    <3>1. CASE Gone(p) /\ pc[p] \in Holding
      <4>1. UNCHANGED files
        BY <2>7 DEF OpenFails, SaveFails, Close
      <4>2. cfg[p] \in Config
        BY <3>1 DEF Inv, TypeOK
      <4> QED  BY <3>1, <4>1, <4>2, GoneReleases
    <3>2. CASE Gone(p) /\ pc[p] \notin Holding
      <4>1. UNCHANGED cur
        BY <2>7 DEF OpenFails, SaveFails, Close, files
      <4>2. \A c \in Config : lock[c] # Nobody => lock[c] \in Proc \ {p}
        BY <3>2 DEF Inv, TypeOK, LockInv
      <4>3. p # Nobody
        BY OpenAssumption
      <4>4. lock' = lock
        BY <3>2, <4>2, <4>3 DEF Gone, Inv, TypeOK
      <4>5. \A q \in Proc \ {p} : pc'[q] = pc[q] /\ mem'[q] = mem[q]
        BY <3>2 DEF Gone, Inv, TypeOK
      <4>6. HeldCopy' = HeldCopy
        BY <4>1, <4>2, <4>4, <4>5 DEF HeldCopy, ContentsOf
      <4> QED  BY <4>1, <4>4, <4>6 DEF Store!storeVars
    <3>3. CASE SaveFails(p) /\ Goto(p, "ready") /\ UNCHANGED <<lock, choice, mem>>
      <4>1. /\ pc[p] \in Holding \ {"locked"} /\ pc'[p] \in Holding \ {"locked"}
            /\ UNCHANGED <<cur, lock, cfg, mem>>
            /\ \A q \in Proc \ {p} : pc'[q] = pc[q] /\ mem'[q] = mem[q]
        BY <3>3 DEF SaveFails, Goto, choice, files, Holding, Saving, Inv, TypeOK
      <4>2. cfg[p] \in Config /\ lock[cfg[p]] = p /\ p # Nobody
        BY <4>1, OpenAssumption DEF Inv, TypeOK, LockInv
      <4>3. HeldCopy[cfg[p]] = mem[p]
        BY <4>1, <4>2 DEF HeldCopy
      <4>4. HeldCopy' = HeldCopy
        BY ZenonT(30), <4>1, <4>2, <4>3, HolderCopies DEF HeldCopy
      <4> QED  BY <4>1, <4>4 DEF Store!storeVars
    <3> QED  BY <2>7, <3>1, <3>2, <3>3 DEF OpenFails, SaveFails, Close
  <2>8. CASE UNCHANGED vars
    BY <2>8 DEF vars, Store!storeVars, HeldCopy, ContentsOf
  <2> QED
    BY <2>1, <2>2, <2>3, <2>4, <2>5, <2>6, <2>7, <2>8 DEF Next, Store!StoreNext
<1> QED  BY <1>1, <1>2, Invariance, PTL DEF Spec, StoreSpec, Store!StoreSpec
===============================================================================
