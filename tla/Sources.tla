-------------------------------- MODULE Sources -------------------------------
(***************************************************************************)
(* The registered web sources: how prepare_sources of rag/corpus.py        *)
(* downloads them or takes them from disk, how freeze_sources binds a run  *)
(* to them, and what web_search then reads.  Several processes share the   *)
(* directory of snapshots without a lock, and any of them may die between  *)
(* two files.                                                              *)
(*                                                                         *)
(* A source has two files: the raw bytes, written in place, and the        *)
(* snapshot with the text and the hashes of both, replaced atomically.     *)
(* Bytes, text and hash of one download are known by its version.          *)
(***************************************************************************)
EXTENDS Integers, SequencesExt

CONSTANTS
    Process,
    Order,          \* the registered sources, as configured
    Version,        \* what a site may answer
    Undecodable,    \* answers that are not UTF-8
    MaxStarts       \* processes started

Web == Range(Order)

None == "none"

Torn == "torn"

Forged == "forged"

OrderAssumption == Order \in Seq(Web) /\ Order # <<>>

VersionAssumption ==
    /\ Undecodable \subseteq Version
    /\ {None, Torn, Forged} \cap Version = {}
    /\ MaxStarts \in Nat

VARIABLES
    raw,        \* the raw file of each source
    snapshot,   \* its snapshot file
    started,    \* processes started so far
    pc,         \* where each process is
    at,         \* the source it works on
    refresh,    \* whether it was told to refresh
    fetched,    \* what it has downloaded
    registry,   \* what it has registered
    frozen,     \* the texts it keeps
    seen        \* what its searches have returned

vars == <<raw, snapshot, started, pc, at, refresh, fetched, registry, frozen, seen>>

disk == <<raw, snapshot>>

NoSnapshot == [text |-> None, raw |-> None, verified |-> FALSE]

Snapshot ==
    {NoSnapshot}
    \cup [text : {Forged}, raw : Version \cup {None}, verified : {FALSE}]
    \cup UNION {[text : {v}, raw : {v, None}, verified : {TRUE}] : v \in Version \ Undecodable}

NoEntry == [origin |-> None, text |-> None, raw |-> None]

(* "stale" is cached_after_refresh_failure. *)
Entry ==
    {NoEntry, [origin |-> "unavailable", text |-> None, raw |-> None]}
    \cup [origin : {"cache", "download", "stale"}, text : {Forged}, raw : Version \cup {None}]
    \cup UNION {[origin : {"cache", "download", "stale"}, text : {v}, raw : {v, None}] : v \in Version}

Usable(entry) == entry.origin \in {"cache", "download", "stale"}

(* Before the first start: nothing, an earlier download, with or without   *)
(* its raw file (as older versions left it), or one that was edited.       *)
Init ==
    /\ \E v \in Version \ Undecodable :
          \/ /\ snapshot = [w \in Web |-> NoSnapshot]
             /\ raw = [w \in Web |-> None]
          \/ /\ snapshot = [w \in Web |-> [text |-> v, raw |-> v, verified |-> TRUE]]
             /\ raw = [w \in Web |-> v]
          \/ /\ snapshot = [w \in Web |-> [text |-> v, raw |-> None, verified |-> TRUE]]
             /\ raw = [w \in Web |-> None]
          \/ /\ snapshot = [w \in Web |-> [text |-> Forged, raw |-> v, verified |-> FALSE]]
             /\ raw = [w \in Web |-> v]
    /\ started = 0
    /\ pc = [p \in Process |-> "idle"]
    /\ at = [p \in Process |-> 1]
    /\ refresh = [p \in Process |-> FALSE]
    /\ fetched = [p \in Process |-> None]
    /\ registry = [p \in Process |-> [w \in Web |-> NoEntry]]
    /\ frozen = [p \in Process |-> [w \in Web |-> None]]
    /\ seen = [p \in Process |-> {}]

Goes(p, next) == pc' = [pc EXCEPT ![p] = next]

-------------------------------------------------------------------------------
(* prepare_sources *)

Start(p) ==
    /\ pc[p] = "idle"
    /\ started < MaxStarts
    /\ started' = started + 1
    /\ \E b \in BOOLEAN : refresh' = [refresh EXCEPT ![p] = b]
    /\ Goes(p, "prepare")
    /\ at' = [at EXCEPT ![p] = 1]
    /\ registry' = [registry EXCEPT ![p] = [w \in Web |-> NoEntry]]
    /\ frozen' = [frozen EXCEPT ![p] = [w \in Web |-> None]]
    /\ seen' = [seen EXCEPT ![p] = {}]
    /\ UNCHANGED <<disk, fetched>>

Here(p) == Order[at[p]]

(* The next source, or the end of the loop. *)
Advance(p, again, after) ==
    IF at[p] < Len(Order)
    THEN Goes(p, again) /\ at' = [at EXCEPT ![p] = @ + 1]
    ELSE Goes(p, after) /\ at' = [at EXCEPT ![p] = 1]

Register(p, entry) ==
    /\ registry' = [registry EXCEPT ![p][Here(p)] = entry]
    /\ Advance(p, "prepare", "prepared")

EntryOf(kept, origin) == [origin |-> origin, text |-> kept.text, raw |-> kept.raw]

(* What is on disk is used unless it is to be refreshed; a snapshot that   *)
(* does not have its own hash ends the run.                                *)
ReadCached(p) ==
    LET kept == snapshot[Here(p)]
    IN  /\ pc[p] = "prepare"
        /\ kept # NoSnapshot /\ ~refresh[p]
        /\ IF kept.verified
           THEN Register(p, EntryOf(kept, "cache"))
           ELSE Goes(p, "failed") /\ UNCHANGED <<at, registry>>
        /\ UNCHANGED <<disk, started, refresh, fetched, frozen, seen>>

Download(p) ==
    /\ pc[p] = "prepare"
    /\ snapshot[Here(p)] = NoSnapshot \/ refresh[p]
    /\ \/ \E v \in Version : fetched' = [fetched EXCEPT ![p] = v] /\ Goes(p, "downloaded")
       \/ UNCHANGED fetched /\ Goes(p, "fallback")
    /\ UNCHANGED <<disk, started, at, refresh, registry, frozen, seen>>

OpenRaw(p) ==
    /\ pc[p] = "downloaded"
    /\ raw' = [raw EXCEPT ![Here(p)] = Torn]
    /\ Goes(p, "writing")
    /\ UNCHANGED <<snapshot, started, at, refresh, fetched, registry, frozen, seen>>

Shared(p) ==
    \/ raw[Here(p)] # Torn
    \/ \E q \in Process \ {p} : pc[q] = "writing" /\ Here(q) = Here(p)

(* Two processes that write the same file may leave a mixture. *)
CloseRaw(p) ==
    /\ pc[p] = "writing"
    /\ \/ raw' = [raw EXCEPT ![Here(p)] = fetched[p]]
       \/ Shared(p) /\ raw' = [raw EXCEPT ![Here(p)] = Torn]
    /\ Goes(p, IF fetched[p] \in Undecodable THEN "fallback" ELSE "decoded")
    /\ UNCHANGED <<snapshot, started, at, refresh, fetched, registry, frozen, seen>>

SaveSnapshot(p) ==
    /\ pc[p] = "decoded"
    /\ snapshot' = [snapshot EXCEPT ![Here(p)] =
          [text |-> fetched[p], raw |-> fetched[p], verified |-> TRUE]]
    /\ Register(p, EntryOf(snapshot'[Here(p)], "download"))
    /\ UNCHANGED <<raw, started, refresh, fetched, frozen, seen>>

(* Whatever went wrong, a snapshot that verifies is kept. *)
FallBack(p) ==
    LET kept == snapshot[Here(p)]
    IN  /\ pc[p] = "fallback"
        /\ Register(p, IF kept.verified THEN EntryOf(kept, "stale")
                       ELSE [origin |-> "unavailable", text |-> None, raw |-> None])
        /\ UNCHANGED <<disk, started, refresh, fetched, frozen, seen>>

-------------------------------------------------------------------------------
(* freeze_sources, when a Pipeline is built, and web_search after it *)

(* The text must still be the registered one ... *)
FreezeText(p) ==
    LET entry == registry[p][Here(p)]
        kept  == snapshot[Here(p)]
    IN  /\ pc[p] \in {"prepared", "freeze"}
        /\ IF ~Usable(entry) THEN Advance(p, "freeze", "generating") /\ UNCHANGED frozen
           ELSE IF kept.text # entry.text THEN Goes(p, "rejected") /\ UNCHANGED <<at, frozen>>
           ELSE /\ frozen' = [frozen EXCEPT ![p][Here(p)] = kept.text]
                /\ IF entry.raw = None THEN Advance(p, "freeze", "generating")
                   ELSE Goes(p, "compare") /\ UNCHANGED at
        /\ UNCHANGED <<disk, started, refresh, fetched, registry, seen>>

(* ... and the raw file the one it was extracted from. *)
FreezeRaw(p) ==
    /\ pc[p] = "compare"
    /\ IF raw[Here(p)] = registry[p][Here(p)].raw THEN Advance(p, "freeze", "generating")
       ELSE Goes(p, "rejected") /\ UNCHANGED at
    /\ UNCHANGED <<disk, started, refresh, fetched, registry, frozen, seen>>

(* Variant: the snapshot is read again. *)
SearchDisk(p) ==
    /\ pc[p] = "generating"
    /\ \E w \in Web :
          /\ Usable(registry[p][w])
          /\ seen' = [seen EXCEPT ![p] = @ \cup {<<w, snapshot[w].text>>}]
    /\ UNCHANGED <<disk, started, pc, at, refresh, fetched, registry, frozen>>

(* Text comes from memory, and is held against its registered hash again. *)
Search(p) ==
    /\ pc[p] = "generating"
    /\ \E w \in Web :
          /\ Usable(registry[p][w])
          /\ frozen[p][w] = registry[p][w].text
          /\ seen' = [seen EXCEPT ![p] = @ \cup {<<w, frozen[p][w]>>}]
    /\ UNCHANGED <<disk, started, pc, at, refresh, fetched, registry, frozen>>

(* The process ends or dies; all it leaves are its files. *)
Exit(p) ==
    /\ pc[p] # "idle"
    /\ Goes(p, "idle")
    /\ UNCHANGED <<disk, started, at, refresh, fetched, registry, frozen, seen>>

Next ==
    \E p \in Process :
        \/ Start(p) \/ ReadCached(p) \/ Download(p) \/ OpenRaw(p) \/ CloseRaw(p)
        \/ SaveSnapshot(p) \/ FallBack(p) \/ FreezeText(p) \/ FreezeRaw(p)
        \/ Search(p) \/ Exit(p)

Spec == Init /\ [][Next]_vars

-------------------------------------------------------------------------------
(* Properties. *)

(* Every variable has its type; in particular no text is recorded or       *)
(* registered with the raw file of another download.                       *)
TypeOK ==
    /\ raw \in [Web -> Version \cup {None, Torn}]
    /\ snapshot \in [Web -> Snapshot]
    /\ started \in 0 .. MaxStarts
    /\ pc \in [Process -> {"idle", "prepare", "downloaded", "writing", "decoded", "fallback",
                           "prepared", "freeze", "compare", "generating", "failed", "rejected"}]
    /\ at \in [Process -> 1 .. Len(Order)]
    /\ refresh \in [Process -> BOOLEAN]
    /\ fetched \in [Process -> Version \cup {None}]
    /\ registry \in [Process -> [Web -> Entry]]
    /\ frozen \in [Process -> [Web -> Version \cup {None, Forged}]]
    /\ seen \in [Process -> SUBSET (Web \X (Version \cup {None, Forged}))]

(* "Generation cannot observe later disk edits": all a run reads of a      *)
(* source is the one text its identity names, whatever other processes do  *)
(* to the files meanwhile.                                                 *)
ReadsItsIdentity ==
    \A p \in Process : \A hit \in seen[p] : hit[2] = registry[p][hit[1]].text

(* An edited snapshot is never used, not even when the refresh that would  *)
(* replace it fails.                                                       *)
ForgedIsNeverUsed ==
    \A p \in Process : \A w \in Web : registry[p][w].text # Forged

(* What a run reads of its sources.                                        *)
SourcesAreSound == TypeOK /\ ReadsItsIdentity /\ ForgedIsNeverUsed

===============================================================================
