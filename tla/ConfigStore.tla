------------------------------ MODULE ConfigStore ------------------------------
(***************************************************************************)
(* What libn2pkvna promises of the configurations under ~/.n2pkvna.  Each  *)
(* is a cell that one process at a time may hold.  The holder starts from  *)
(* the contents the cell has when it is acquired, adds to its own copy,    *)
(* and replaces the old contents by the new in a single step: nobody ever  *)
(* sees a part of a configuration, or loses what another process saved.    *)
(***************************************************************************)
EXTENDS Naturals

CONSTANTS
    Proc,    \* processes that use the library
    Config,  \* configuration directories
    Model,   \* USB vendor and product of the VNAs
    Nobody, NoModel, Missing, Bad

\* A configuration: the model of the VNA it is for, NoModel when it has no
\* USB address yet, and the changes saved in it, named after their authors.
Content == [model : Model \cup {NoModel}, edits : SUBSET Proc]
Empty == [model |-> NoModel, edits |-> {}]

\* What a configuration file can be: absent, or unreadable when someone has
\* edited it by hand.
Stored == Content \cup {Missing, Bad}

ContentsOf(file) == IF file = Missing THEN Empty ELSE file

VARIABLES
    store,   \* the configurations
    holder,  \* the process that holds each
    copy     \* the contents the holder of a configuration works on

storeVars == <<store, holder, copy>>

StoreInit ==
    /\ store \in [Config -> Stored]
    /\ holder = [c \in Config |-> Nobody]
    /\ copy = [c \in Config |-> Empty]

Acquire(p, c) ==
    /\ holder[c] = Nobody
    /\ store[c] # Bad
    /\ holder' = [holder EXCEPT ![c] = p]
    /\ copy' = [copy EXCEPT ![c] = ContentsOf(store[c])]
    /\ UNCHANGED store

Work(c) ==
    /\ holder[c] # Nobody
    /\ \E new \in Content :
        /\ copy[c].edits \subseteq new.edits
        /\ copy' = [copy EXCEPT ![c] = new]
    /\ UNCHANGED <<store, holder>>

Commit(c) ==
    /\ holder[c] # Nobody
    /\ store' = [store EXCEPT ![c] = copy[c]]
    /\ UNCHANGED <<holder, copy>>

\* The holder closes the configuration, or dies.
Release(c) ==
    /\ holder[c] # Nobody
    /\ holder' = [holder EXCEPT ![c] = Nobody]
    /\ copy' = [copy EXCEPT ![c] = Empty]
    /\ UNCHANGED store

StoreNext ==
    \E c \in Config :
        (\E p \in Proc : Acquire(p, c)) \/ Work(c) \/ Commit(c) \/ Release(c)

StoreSpec == StoreInit /\ [][StoreNext]_storeVars
===============================================================================
