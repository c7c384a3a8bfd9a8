------------------------------ MODULE PageStore ------------------------------
(***************************************************************************)
(* The page stores of crates/storage/src/store.rs: a page file that grows  *)
(* by appending zeroed pages, is read and written a page at a time and is  *)
(* made durable by sync.  Page bytes are abstracted to the version of the  *)
(* page they hold: 0 is the zeroed page, n the n-th complete write, Torn a *)
(* page whose bytes mix two versions.  The operating system below          *)
(* FilePageStore is external: what it may do on an I/O error and what it   *)
(* keeps over a crash is modelled from how store.rs uses it.               *)
(***************************************************************************)
EXTENDS Integers

CONSTANT MaxPages   \* size of the PageId address space (2^32 in the code)

ASSUME PageStoreAssumption == MaxPages \in Nat \ {0}

VARIABLES
    count,        \* allocated pages: the file length, in pages
    store,        \* the version of each page the store returns
    durableCount, \* the file length a crash is certain to keep
    durable       \* the version of each page as of the last sync

storeVars == <<count, store, durableCount, durable>>

Torn == -1
PageIds == 0 .. MaxPages - 1
Versions == Nat \union {Torn}

StoreTypeOK ==
    /\ count \in 0 .. MaxPages
    /\ durableCount \in 0 .. count
    /\ store \in [PageIds -> Versions]
    /\ durable \in [PageIds -> Versions]

(* An empty file, or a memory store with no page. *)
StoreInit ==
    /\ count = 0
    /\ durableCount = 0
    /\ store = [p \in PageIds |-> 0]
    /\ durable = [p \in PageIds |-> 0]

(* allocate_page: the new ID is the page count; the new page reads as zero. *)
allocate_page(p) ==
    /\ count < MaxPages
    /\ p = count
    /\ count' = count + 1
    /\ store' = [store EXCEPT ![p] = 0]
    /\ UNCHANGED <<durableCount, durable>>

(* An ID at or past the page count is an error of read_page and write_page. *)
allocated(p) == p < count

read_page(p) == store[p]

write_page(p, v) ==
    /\ allocated(p)
    /\ store' = [store EXCEPT ![p] = v]
    /\ UNCHANGED <<count, durableCount, durable>>

(* An I/O error of write_all, at its first byte or midway through the page; *)
(* part of a version over the same version changes nothing.                 *)
write_page_fails(p, v) ==
    /\ \/ UNCHANGED store
       \/ store[p] # v /\ store' = [store EXCEPT ![p] = Torn]
    /\ UNCHANGED <<count, durableCount, durable>>

sync ==
    /\ durable' = store
    /\ durableCount' = count
    /\ UNCHANGED <<count, store>>

(* What a page may hold after a crash: its synced version, its unsynced    *)
(* version, or, the page write not being crash-atomic, a mix of the two.   *)
Survivors(p) ==
    LET old == IF p < durableCount THEN durable[p] ELSE 0
    IN  {old, store[p]} \union (IF old = store[p] THEN {} ELSE {Torn})

(* The file is reopened after a crash that lost some unsynced changes. *)
CrashStore ==
    \E n \in durableCount .. count :
        /\ count' = n
        /\ durableCount' = n
        /\ \E s \in [PageIds -> {0} \union UNION {Survivors(p) : p \in PageIds}] :
              /\ \A p \in PageIds : s[p] \in IF p < n THEN Survivors(p) ELSE {0}
              /\ store' = s
              /\ durable' = s
=============================================================================
