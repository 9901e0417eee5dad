-------------------------------- MODULE VnaOpen --------------------------------
(***************************************************************************)
(* n2pkvna_open, n2pkvna_save and n2pkvna_close (libn2pkvna), run by       *)
(* several processes on the same configuration directories and VNAs.       *)
(*                                                                         *)
(* open reads the configurations without a lock, matches them against the  *)
(* VNAs it sees on the bus, locks the one configuration chosen and reads   *)
(* it again.  save writes config.new, keeps the old file as config.bak and *)
(* renames.  A process may fail or be killed between any two steps; its    *)
(* lock goes and its files stay.                                           *)
(***************************************************************************)
EXTENDS Naturals, FiniteSets

CONSTANTS
    Proc, Config, Model, Nobody, NoModel, Missing, Bad,
    Device,         \* VNAs: physical devices
    ModelOf,        \* their USB vendor and product
    DefaultConfig,  \* the directory named after each standard model
    Partial,        \* contents of a file that is being written
    NoName          \* no -N option: look at all configurations

VARIABLES
    cur, new, bak,  \* config, config.new and config.bak of each directory
    lock,           \* the process that has each config.lck locked
    pc,             \* where each process is
    create,         \* its create flag
    scope,          \* the configurations it considers, and their models
    cfg, dev,       \* what it has chosen
    mem,            \* its copy of the configuration
    listing         \* the config_vector it returns

files == <<cur, new, bak>>
choice == <<create, scope, cfg, dev, listing>>
vars == <<cur, new, bak, lock, pc, create, scope, cfg, dev, mem, listing>>

Content == [model : Model \cup {NoModel}, edits : SUBSET Proc]
Empty == [model |-> NoModel, edits |-> {}]
ContentsOf(file) == IF file = Missing THEN Empty ELSE file

ASSUME OpenAssumption ==
    /\ ModelOf \in [Device -> Model]
    /\ DefaultConfig \in [Model -> Config]
    /\ Nobody \notin Proc \cup Device /\ NoModel \notin Model /\ NoName \notin Config
    /\ {Missing, Bad, Partial} \cap Content = {}
    /\ Missing # Bad /\ Missing # Partial /\ Bad # Partial

\* The steps of n2pkvna_save, in order.
Saving == {"write", "sync", "unlink", "link", "rename"}

\* Where a process has the lock.
Holding == {"locked", "usb", "ready"} \cup Saving

\* Some configurations, with their models.
Scopes == UNION {[S -> Model \cup {NoModel}] : S \in SUBSET Config}
NoScope == [c \in {} |-> NoModel]

TypeOK ==
    /\ cur \in [Config -> Content \cup {Missing, Bad}]
    /\ new \in [Config -> Content \cup {Missing, Partial}]
    /\ bak \in [Config -> Content \cup {Missing, Bad}]
    /\ lock \in [Config -> Proc \cup {Nobody}]
    /\ pc \in [Proc -> {"off", "match", "many", "lock", "crashed"} \cup Holding]
    /\ create \in [Proc -> BOOLEAN]
    /\ scope \in [Proc -> Scopes]
    /\ cfg \in [Proc -> Config \cup {NoName}]
    /\ dev \in [Proc -> Device \cup {Nobody}]
    /\ \A p \in Proc : pc[p] \in Holding \cup {"lock"} =>
           cfg[p] \in Config /\ dev[p] \in Device
    /\ listing \in [Proc -> SUBSET [config : Config, addresses : SUBSET Device]]
    /\ mem \in [Proc -> Content]

Init ==
    /\ cur \in [Config -> {[Empty EXCEPT !.model = m] : m \in Model \cup {NoModel}}
                             \cup {Missing, Bad}]
    /\ new = [c \in Config |-> Missing]
    /\ bak = [c \in Config |-> Missing]
    /\ lock = [c \in Config |-> Nobody]
    /\ pc = [p \in Proc |-> "off"]
    /\ create = [p \in Proc |-> FALSE]
    /\ scope = [p \in Proc |-> NoScope]
    /\ cfg = [p \in Proc |-> NoName]
    /\ dev = [p \in Proc |-> Nobody]
    /\ mem = [p \in Proc |-> Empty]
    /\ listing = [p \in Proc |-> {}]

Goto(p, label) == pc' = [pc EXCEPT ![p] = label]

\* The process is gone, and with it its lock and everything it knew.
Gone(p) ==
    /\ pc' = [pc EXCEPT ![p] = "off"]
    /\ lock' = [c \in Config |-> IF lock[c] = p THEN Nobody ELSE lock[c]]
    /\ create' = [create EXCEPT ![p] = FALSE]
    /\ scope' = [scope EXCEPT ![p] = NoScope]
    /\ cfg' = [cfg EXCEPT ![p] = NoName]
    /\ dev' = [dev EXCEPT ![p] = Nobody]
    /\ mem' = [mem EXCEPT ![p] = Empty]
    /\ listing' = [listing EXCEPT ![p] = {}]

-----------------------------------------------------------------------------
(***************************************************************************)
(* n2pkvna_open.                                                           *)
(***************************************************************************)
(***************************************************************************)
(* Read the named configuration, or all that have a config file.  A named  *)
(* one may be missing when it is to be created.  A bad one ends the        *)
(* process.                                                                *)
(***************************************************************************)
InScope(name) ==
    IF name = NoName THEN {c \in Config : cur[c] # Missing} ELSE {name}

Parse(p, name, mk) ==
    LET inScope == InScope(name)
    IN  /\ pc[p] = "off"
        /\ \A c \in inScope : cur[c] # Bad /\ (cur[c] = Missing => mk)
        /\ Goto(p, "match")
        /\ create' = [create EXCEPT ![p] = mk]
        /\ scope' = [scope EXCEPT ![p] =
                        [c \in inScope |-> ContentsOf(cur[c]).model]]
        /\ UNCHANGED <<files, lock, cfg, dev, mem, listing>>

\* A YAML error is to be reported by _n2pkvna_libvna_errfn, which
\* dereferences the null pointer it is registered with.
ParseCrashes(p, name) ==
    /\ pc[p] = "off"
    /\ \E c \in InScope(name) : cur[c] = Bad
    /\ Goto(p, "crashed")
    /\ UNCHANGED <<files, lock, choice, mem>>

\* A configuration without a USB address matches every VNA.
Matches(model, d) == model = NoModel \/ model = ModelOf[d]

\* The special case: nothing configured, one VNA, and leave to create.
WithDefault(sc, mk, seen) ==
    IF DOMAIN sc = {} /\ mk /\ Cardinality(seen) = 1
    THEN [c \in {DefaultConfig[ModelOf[d]] : d \in seen} |-> NoModel]
    ELSE sc

\* The nc_addresses of a configuration: every VNA seen, whether or not it
\* matches.
Addresses(sc, c, seen) == seen

MkListing(sc, seen) ==
    LET matched == {c \in DOMAIN sc : \E d \in seen : Matches(sc[c], d)}
    IN  {[config |-> c, addresses |-> Addresses(sc, c, seen)] : c \in matched}

(***************************************************************************)
(* Match the configurations with the VNAs seen: those on the bus that the  *)
(* unit address, if any, lets through.  There must be just one             *)
(* configuration, and just one VNA that matches it.                        *)
(***************************************************************************)
Match(p, seen) ==
    LET sc == WithDefault(scope[p], create[p], seen)
        pairs == {pair \in (DOMAIN sc) \X seen : Matches(sc[pair[1]], pair[2])}
    IN  /\ pc[p] = "match"
        /\ pairs # {}
        /\ scope' = [scope EXCEPT ![p] = sc]
        /\ IF Cardinality(DOMAIN sc) > 1 \/ Cardinality(pairs) > 1
           THEN /\ Goto(p, "many")
                /\ listing' = [listing EXCEPT ![p] = MkListing(sc, seen)]
                /\ UNCHANGED <<cfg, dev>>
           ELSE \E pair \in pairs :
                /\ Goto(p, "lock")
                /\ cfg' = [cfg EXCEPT ![p] = pair[1]]
                /\ dev' = [dev EXCEPT ![p] = pair[2]]
                /\ UNCHANGED listing
        /\ UNCHANGED <<files, lock, create, mem>>

\* Mutant: a lock that others may hold as well (F_RDLCK).
LockShared(p) ==
    /\ pc[p] = "lock"
    /\ lock' = [lock EXCEPT ![cfg[p]] = p]
    /\ Goto(p, "locked")
    /\ UNCHANGED <<files, choice, mem>>

\* fcntl(F_SETLK) on config.lck.
Lock(p) ==
    /\ pc[p] = "lock"
    /\ lock[cfg[p]] = Nobody
    /\ lock' = [lock EXCEPT ![cfg[p]] = p]
    /\ Goto(p, "locked")
    /\ UNCHANGED <<files, choice, mem>>

\* Mutant: keep what was read before the lock.
ReparseStale(p) ==
    LET found == [model |-> scope[p][cfg[p]], edits |-> {}]
    IN  /\ pc[p] = "locked"
        /\ mem' = [mem EXCEPT ![p] = found]
        /\ Goto(p, "usb")
        /\ UNCHANGED <<files, lock, choice>>

\* Mutant: do not compare what was read with the VNA.
ReparseUnchecked(p) ==
    LET found == ContentsOf(cur[cfg[p]])
    IN  /\ pc[p] = "locked"
        /\ cur[cfg[p]] = Missing => create[p]
        /\ mem' = [mem EXCEPT ![p] = found]
        /\ Goto(p, "usb")
        /\ UNCHANGED <<files, lock, choice>>

\* Read the configuration again; it must still match the VNA.
Reparse(p) ==
    LET found == ContentsOf(cur[cfg[p]])
    IN  /\ pc[p] = "locked"
        /\ cur[cfg[p]] = Missing => create[p]
        /\ Matches(found.model, dev[p])
        /\ mem' = [mem EXCEPT ![p] = found]
        /\ Goto(p, "usb")
        /\ UNCHANGED <<files, lock, choice>>

\* libusb_open; save at once when the configuration is to be created.
OpenUsb(p) ==
    /\ pc[p] = "usb"
    /\ Goto(p, IF create[p] THEN "write" ELSE "ready")
    /\ UNCHANGED <<files, lock, choice, mem>>

(***************************************************************************)
(* open fails, at any stage: no VNA matches, the configuration is locked,  *)
(* has changed, is unreadable, or a system call failed.                    *)
(***************************************************************************)
OpenFails(p) ==
    /\ pc[p] \in {"match", "many", "lock", "locked", "usb", "crashed"}
    /\ Gone(p)
    /\ UNCHANGED files

-----------------------------------------------------------------------------
(***************************************************************************)
(* n2pkvna_save.                                                           *)
(***************************************************************************)
\* fopen config.new, which empties it, and note the VNA's address.
SaveWrite(p) ==
    /\ pc[p] = "write"
    /\ new' = [new EXCEPT ![cfg[p]] = Partial]
    /\ mem' = [mem EXCEPT ![p].model = ModelOf[dev[p]]]
    /\ Goto(p, "sync")
    /\ UNCHANGED <<cur, bak, lock, choice>>

\* Mutant: go on without waiting for the contents.
SaveNoSync(p) ==
    /\ pc[p] = "sync"
    /\ Goto(p, "unlink")
    /\ UNCHANGED <<files, lock, choice, mem>>

\* Write the contents, fflush, fsync and fclose.
SaveSync(p) ==
    /\ pc[p] = "sync"
    /\ new' = [new EXCEPT ![cfg[p]] = mem[p]]
    /\ Goto(p, "unlink")
    /\ UNCHANGED <<cur, bak, lock, choice, mem>>

\* unlink config.bak; the result is not looked at.
SaveUnlink(p) ==
    /\ pc[p] = "unlink"
    /\ bak' \in {bak, [bak EXCEPT ![cfg[p]] = Missing]}
    /\ Goto(p, "link")
    /\ UNCHANGED <<cur, new, lock, choice, mem>>

\* Mutant: ignore that config.bak is still there.
SaveLinkAnyway(p) ==
    /\ pc[p] = "link"
    /\ bak' = [bak EXCEPT ![cfg[p]] = IF @ = Missing THEN cur[cfg[p]] ELSE @]
    /\ Goto(p, "rename")
    /\ UNCHANGED <<cur, new, lock, choice, mem>>

\* link config to config.bak.  There need not be a config file yet.
SaveLink(p) ==
    /\ pc[p] = "link"
    /\ \/ cur[cfg[p]] = Missing /\ UNCHANGED bak
       \/ /\ cur[cfg[p]] # Missing
          /\ bak[cfg[p]] = Missing
          /\ bak' = [bak EXCEPT ![cfg[p]] = cur[cfg[p]]]
    /\ Goto(p, "rename")
    /\ UNCHANGED <<cur, new, lock, choice, mem>>

\* rename config.new to config.
SaveRename(p) ==
    /\ pc[p] = "rename"
    /\ cur' = [cur EXCEPT ![cfg[p]] = new[cfg[p]]]
    /\ new' = [new EXCEPT ![cfg[p]] = Missing]
    /\ Goto(p, "ready")
    /\ UNCHANGED <<bak, lock, choice, mem>>

\* A step of n2pkvna_save fails.  The library closes the handle when it was
\* saving on behalf of n2pkvna_open; a later caller goes on with it.
SaveFails(p) ==
    /\ pc[p] \in Saving
    /\ \/ Goto(p, "ready") /\ UNCHANGED <<lock, choice, mem>>
       \/ Gone(p)
    /\ UNCHANGED files

-----------------------------------------------------------------------------
\* The caller changes the reference frequency or the properties and saves:
\* cf, calibrate, setup.
Edit(p) ==
    /\ pc[p] = "ready"
    /\ mem' = [mem EXCEPT ![p].edits = @ \cup {p}]
    /\ Goto(p, "write")
    /\ UNCHANGED <<files, lock, choice>>

\* n2pkvna_close, or the process is killed.
Close(p) ==
    /\ pc[p] \in Holding
    /\ Gone(p)
    /\ UNCHANGED files

Next ==
    \E p \in Proc :
        \/ \E name \in Config \cup {NoName}, mk \in BOOLEAN :
               Parse(p, name, mk) \/ ParseCrashes(p, name)
        \/ \E seen \in SUBSET Device : Match(p, seen)
        \/ Lock(p) \/ Reparse(p) \/ OpenUsb(p) \/ OpenFails(p)
        \/ SaveWrite(p) \/ SaveSync(p) \/ SaveUnlink(p) \/ SaveLink(p)
        \/ SaveRename(p) \/ SaveFails(p)
        \/ Edit(p) \/ Close(p)

Spec == Init /\ [][Next]_vars

-----------------------------------------------------------------------------
(***************************************************************************)
(* Properties.                                                             *)
(***************************************************************************)
\* Whoever works on a configuration under the lock has, in its copy, every
\* change that was ever saved in it: it re-reads after locking.
CopyIsCurrent ==
    \A p \in Proc : pc[p] \in Holding \ {"locked"} /\ cur[cfg[p]] # Missing =>
        cur[cfg[p]].edits \subseteq mem[p].edits

\* A saved change is never lost, and a configuration never disappears,
\* whoever is killed between whichever steps of n2pkvna_save.
NothingLost ==
    [][\A c \in Config : cur'[c] # cur[c] =>
          /\ cur'[c] \in Content
          /\ cur[c] \in Content => cur[c].edits \subseteq cur'[c].edits]_vars

\* When the new file takes its place the old one is in config.bak.
BackupIsPrevious ==
    [][\A c \in Config : cur'[c] # cur[c] /\ cur[c] # Missing =>
          bak'[c] = cur[c]]_vars

\* A configuration once bound to a model is never opened with another.
BoundToModel ==
    \A p \in Proc : pc[p] \in Holding \ {"locked"} =>
        cur[cfg[p]] = Missing \/ Matches(cur[cfg[p]].model, dev[p])

\* What the holder of a configuration works on: once it has the lock, the
\* file, then the copy it has read.
HeldCopy ==
    [c \in Config |->
        IF lock[c] = Nobody THEN Empty
        ELSE IF pc[lock[c]] = "locked" THEN ContentsOf(cur[c])
        ELSE mem[lock[c]]]

\* The processes share the configurations as ConfigStore promises.
Store == INSTANCE ConfigStore WITH store <- cur, holder <- lock, copy <- HeldCopy
StoreSpec == Store!StoreSpec

(***************************************************************************)
(* What comments and assertions say, and the code does not do.             *)
(***************************************************************************)
\* "Lock the device": no two processes have the same VNA open.
DeviceIsLocked ==
    \A p, q \in Proc : p # q /\ pc[p] = "ready" /\ pc[q] = "ready" =>
        dev[p] # dev[q]

===============================================================================
