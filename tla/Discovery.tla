------------------------------- MODULE Discovery ------------------------------
(***************************************************************************)
(* Collection of official pages, rag/source_discovery.py: from each        *)
(* registered start page the links within its scope are followed once,     *)
(* under limits for links and bytes.  collect() runs again and again over  *)
(* the files of earlier collections, which may have died between the raw   *)
(* bytes of a page (written in place) and its record (replaced whole).     *)
(*                                                                         *)
(* A page stands for its bytes, their hash and their text.  Start files    *)
(* are known by their source, link files by their URL.                     *)
(***************************************************************************)
EXTENDS Integers, FiniteSetsExt, SequencesExt

CONSTANTS
    Order,          \* the sources, as configured
    Home,           \* the start URL of each
    Scope,          \* the URLs each may use
    Url,
    Page,
    Size,           \* bytes of a page
    Blank,          \* pages without text, or that cannot be decoded
    Links,          \* of a page, when it was served under a URL
    Answer,         \* what may be served for a URL: page and final URL
    PerSource, Total, FileLimit, Aggregate,
    MaxCollects

Source == Range(Order)

None == "none"

Torn == "torn"

SizeOf(page) == IF page = Torn THEN 0 ELSE Size[page]

Known(page, final) == [page |-> page, final |-> final]

Unknown == Known(None, None)

(* A source is configured once, and its start page is one it may use.     *)
RootsAssumption ==
    /\ Order \in Seq(Source) /\ Order # <<>>
    /\ \A i, j \in DOMAIN Order : Order[i] = Order[j] => i = j
    /\ Home \in [Source -> Url] /\ Scope \in [Source -> SUBSET Url]
    /\ \A s \in Source : Home[s] \in Scope[s]
    /\ {PerSource, Total, FileLimit, Aggregate, MaxCollects} \subseteq Nat \ {0}

PagesAssumption ==
    /\ Size \in [Page -> Nat] /\ Blank \subseteq Page
    /\ {None, Torn} \cap (Page \cup Url) = {} /\ None \notin Source /\ Source \cap Url = {}
    /\ Links \in [Page -> [Url -> Seq(Url)]]
    /\ Answer \in [Url -> SUBSET [page : Page, final : Url]]

VARIABLES
    registered, \* of each source: its raw file, and the page and final URL on record
    raw, meta,  \* the files of discovery
    collects,   \* collections begun
    pc, at, refresh,
    used,       \* bytes counted against Aggregate
    attempts, count,
    visited,    \* `seen`
    todo,       \* candidates left
    item,       \* what is being fetched or written
    fetched,
    found,      \* self.sources
    moved,      \* history: bytes this collection has really read
    steady,     \* history: no page it came to has failed
    kept        \* history: what the next collection has to find again

disk == <<registered, raw, meta>>

history == <<steady, kept>>

vars == <<disk, collects, pc, at, refresh, used, attempts, count, visited, todo, item,
          fetched, found, moved, history>>

NotFound == [page |-> None, final |-> None, from |-> None]

(* A source may come with raw bytes: without a final URL, as               *)
(* prepare_sources keeps them, with one, or not fitting their record.      *)
Init ==
    /\ \E given \in [Source -> {"nothing", "legacy", "final", "spoilt"}], page \in Page :
          registered = [s \in Source |->
              CASE given[s] = "nothing" -> [raw |-> None, record |-> Unknown]
                [] given[s] = "legacy"  -> [raw |-> page, record |-> Known(page, None)]
                [] given[s] = "final"   -> [raw |-> page, record |-> Known(page, Home[s])]
                [] given[s] = "spoilt"  -> [raw |-> Torn, record |-> Known(page, None)]]
    /\ raw = [f \in Source \cup Url |-> None]
    /\ meta = [f \in Source \cup Url |-> Unknown]
    /\ collects = 0 /\ pc = "idle" /\ at = 1 /\ refresh = FALSE
    /\ used = 0 /\ moved = 0 /\ attempts = 0 /\ count = 0
    /\ visited = {} /\ todo = <<>> /\ item = None /\ fetched = Unknown
    /\ found = [u \in Url |-> NotFound]
    /\ steady = TRUE /\ kept = {}

Here == Order[at]

Found == {u \in Url : found[u] # NotFound}

-------------------------------------------------------------------------------
(* collect: its loop over the sources *)

Collect ==
    /\ pc = "idle" /\ collects < MaxCollects
    /\ collects' = collects + 1
    /\ refresh' \in BOOLEAN
    /\ pc' = "start" /\ at' = 1
    /\ used' = 0 /\ moved' = 0 /\ attempts' = 0 /\ count' = 0
    /\ visited' = {Home[s] : s \in Source} /\ todo' = <<>>
    /\ item' = None /\ fetched' = Unknown /\ found' = [u \in Url |-> NotFound]
    /\ steady' = TRUE /\ kept' = (IF refresh' THEN {} ELSE kept)
    /\ UNCHANGED disk

NextSource ==
    /\ IF at < Len(Order) /\ attempts < Total
       THEN pc' = "start" /\ at' = at + 1
       ELSE pc' = "done" /\ UNCHANGED at
    /\ count' = 0 /\ todo' = <<>> /\ item' = None /\ fetched' = Unknown

(* The source is given up; what it has collected stays. *)
SourceFails == NextSource /\ steady' = FALSE

(* Candidates to follow; a page without any is downloaded. *)
Follow(links) ==
    /\ pc' = "links"
    /\ todo' = links
    /\ steady' = (steady /\ links # <<>>)

(* _cached_raw *)
FitsBudget(page) == SizeOf(page) <= Min({FileLimit, Aggregate - used})

Count(page) == used' = used + SizeOf(page) /\ moved' = moved + SizeOf(page)

OwnsStart(s) == raw[s] # None /\ meta[s] # Unknown

StartFile(s) ==
    IF ~OwnsStart(s) /\ registered[s].raw # None THEN registered[s].raw ELSE raw[s]

StartRecord(s) == IF OwnsStart(s) THEN meta[s] ELSE registered[s].record

(* The start page on disk: bytes that do not fit their record fail, bytes  *)
(* whose final URL is not known are downloaded again.                      *)
ReadStart ==
    LET file   == StartFile(Here)
        record == StartRecord(Here)
    IN  /\ pc = "start"
        /\ file # None /\ FitsBudget(file)
        /\ Count(file)
        /\ IF record.page # file \/ (record.final # None /\ record.final \notin Scope[Here])
           THEN SourceFails
           ELSE /\ IF record.final = None \/ refresh \/ Links[file][record.final] = <<>>
                   THEN pc' = "fetch" /\ item' = Here /\ UNCHANGED <<todo, steady>>
                   ELSE Follow(Links[file][record.final]) /\ UNCHANGED item
                /\ UNCHANGED <<at, count, fetched>>
        /\ UNCHANGED <<disk, collects, refresh, attempts, visited, found, kept>>

StartTooLarge ==
    /\ pc = "start"
    /\ StartFile(Here) # None /\ ~FitsBudget(StartFile(Here))
    /\ SourceFails
    /\ UNCHANGED <<disk, collects, refresh, used, attempts, visited, found, moved, kept>>

NoStart ==
    /\ pc = "start"
    /\ StartFile(Here) = None
    /\ pc' = "fetch" /\ item' = Here
    /\ UNCHANGED <<disk, collects, at, refresh, used, attempts, count, visited, todo, fetched,
                   found, moved, history>>

(* A link within scope, not visited yet, is one attempt. *)
TakeLink ==
    /\ pc = "links"
    /\ todo # <<>> /\ count < PerSource /\ attempts < Total
    /\ todo' = Tail(todo)
    /\ IF Head(todo) \in Scope[Here] \ visited
       THEN /\ visited' = visited \cup {Head(todo)}
            /\ count' = count + 1 /\ attempts' = attempts + 1
            /\ pc' = "link" /\ item' = Head(todo)
       ELSE UNCHANGED <<visited, count, attempts, pc, item>>
    /\ UNCHANGED <<disk, collects, at, refresh, used, fetched, found, moved, history>>

EndLinks ==
    /\ pc = "links"
    /\ todo = <<>> \/ count >= PerSource \/ attempts >= Total
    /\ NextSource
    /\ UNCHANGED <<disk, collects, refresh, used, attempts, visited, found, moved, history>>

-------------------------------------------------------------------------------
(* _fetch: the largest answer is reserved before it is asked for, with the *)
(* byte that would be too many; a failed read keeps its reservation        *)

Allowance == Min({Aggregate - used, FileLimit + 1})

(* Variant: a failed read costs what was read of a whole page, nothing. *)
FetchFailsFree ==
    \E bytes \in {0, Allowance} :
        /\ Aggregate - used > 1
        /\ used' = used
        /\ moved' = moved + bytes

(* Refused, cut off, too large or led out of scope, after at most the      *)
(* reserved bytes.                                                         *)
FetchFails ==
    \E bytes \in {0, Allowance} :
        /\ Aggregate - used > 1
        /\ used' = used + Allowance
        /\ moved' = moved + bytes

FetchExhausted == Aggregate - used <= 1 /\ UNCHANGED <<used, moved>>

Fetched(url, answer) ==
    /\ Aggregate - used > 1
    /\ answer \in Answer[url]
    /\ Size[answer.page] <= Allowance - 1 /\ answer.final \in Scope[Here]
    /\ Count(answer.page)

FetchStart ==
    /\ pc = "fetch" /\ item \in Source
    /\ \/ /\ FetchFails \/ FetchExhausted
          /\ SourceFails
       \/ /\ \E answer \in Answer[Home[Here]] : Fetched(Home[Here], answer) /\ fetched' = answer
          /\ pc' = "open"
          /\ UNCHANGED <<at, count, todo, item, steady>>
    /\ UNCHANGED <<disk, collects, refresh, attempts, visited, found, kept>>

-------------------------------------------------------------------------------
(* _collect_one *)

Cached(u) == raw[u] # None /\ meta[u] # Unknown /\ ~refresh

LinkFails == pc' = "links" /\ item' = None /\ fetched' = Unknown /\ steady' = FALSE

Finds(answer) ==
    /\ found' = [found EXCEPT ![item] =
                    [page |-> answer.page, final |-> answer.final, from |-> Here]]
    /\ pc' = "links" /\ item' = None /\ fetched' = Unknown /\ UNCHANGED steady

ReadLink ==
    /\ pc = "link" /\ Cached(item)
    /\ IF FitsBudget(raw[item]) THEN Count(raw[item]) ELSE UNCHANGED <<used, moved>>
    /\ IF FitsBudget(raw[item]) /\ meta[item].page = raw[item] /\ meta[item].final \in Scope[Here]
       THEN Finds(meta[item])
       ELSE LinkFails /\ UNCHANGED found
    /\ UNCHANGED <<disk, collects, at, refresh, attempts, count, visited, todo, kept>>

FetchLink ==
    /\ pc = "link" /\ ~Cached(item)
    /\ \/ /\ FetchFails \/ FetchExhausted
          /\ LinkFails
       \/ \E answer \in Answer[item] :
             /\ Fetched(item, answer)
             /\ IF answer.page \in Blank THEN LinkFails
                ELSE fetched' = answer /\ pc' = "open" /\ UNCHANGED <<item, steady>>
    /\ UNCHANGED <<disk, collects, at, refresh, attempts, count, visited, todo, found, kept>>

-------------------------------------------------------------------------------
(* The two files of a page, for start pages and links alike *)

OpenRaw ==
    /\ pc = "open"
    /\ raw' = [raw EXCEPT ![item] = Torn]
    /\ pc' = "write"
    /\ UNCHANGED <<registered, meta, collects, at, refresh, used, attempts, count, visited,
                   todo, item, fetched, found, moved, history>>

WriteRaw ==
    /\ pc = "write"
    /\ raw' = [raw EXCEPT ![item] = fetched.page]
    /\ pc' = "record"
    /\ UNCHANGED <<registered, meta, collects, at, refresh, used, attempts, count, visited,
                   todo, item, fetched, found, moved, history>>

WriteRecord ==
    /\ pc = "record"
    /\ meta' = [meta EXCEPT ![item] = fetched]
    /\ IF item \in Source
       THEN /\ Follow(Links[fetched.page][fetched.final])
            /\ item' = None /\ fetched' = Unknown /\ UNCHANGED found
       ELSE Finds(fetched) /\ UNCHANGED todo
    /\ UNCHANGED <<registered, raw, collects, at, refresh, used, attempts, count, visited,
                   moved, kept>>

Finish ==
    /\ pc = "done"
    /\ pc' = "idle"
    /\ kept' = (IF steady THEN Found ELSE kept)
    /\ UNCHANGED <<disk, collects, at, refresh, used, attempts, count, visited, todo, item,
                   fetched, found, moved, steady>>

(* The process dies. *)
Crash ==
    /\ pc \notin {"idle", "done"}
    /\ pc' = "idle"
    /\ UNCHANGED <<disk, collects, at, refresh, used, attempts, count, visited, todo, item,
                   fetched, found, moved, history>>

Next ==
    \/ Collect \/ ReadStart \/ StartTooLarge \/ NoStart \/ FetchStart \/ TakeLink \/ EndLinks
    \/ ReadLink \/ FetchLink \/ OpenRaw \/ WriteRaw \/ WriteRecord \/ Finish \/ Crash

Spec == Init /\ [][Next]_vars

-------------------------------------------------------------------------------
(* Properties. *)

(* Every variable has its type, and the limits on links hold. *)
TypeOK ==
    /\ raw \in [Source \cup Url -> Page \cup {None, Torn}]
    /\ meta \in [Source \cup Url -> [page : Page, final : Url] \cup {Unknown}]
    /\ collects \in 0 .. MaxCollects /\ at \in 1 .. Len(Order) /\ refresh \in BOOLEAN
    /\ pc \in {"idle", "start", "fetch", "links", "link", "open", "write", "record", "done"}
    /\ attempts \in 0 .. Total /\ count \in 0 .. PerSource
    /\ visited \subseteq Url /\ item \in Source \cup Url \cup {None}
    /\ found \in [Url -> [page : Page, final : Url, from : Source] \cup {NotFound}]
    /\ kept \subseteq Url

(* What a collection reads, from disk and from the network, with every     *)
(* read that failed half-way, stays within its byte limit.                 *)
BytesWithinBudget == moved <= used /\ used <= Aggregate

(* Every page collected, in this collection or an earlier one for another  *)
(* source, was asked for and served within the scope of the source that    *)
(* leads to it now.                                                        *)
OfficialOnly ==
    \A u \in Found : {u, found[u].final} \subseteq Scope[found[u].from]

(* A collected page is backed by its two files, which agree, whatever an   *)
(* earlier collection that died has left of them.                          *)
CollectedIsWhole ==
    pc # "idle" => \A u \in Found :
        raw[u] = found[u].page /\ meta[u] = Known(found[u].page, found[u].final)

(* What a collection without failures has found, the next one finds again, *)
(* whatever the sites serve by then: links are resolved as they were, and  *)
(* no limit is met earlier.                                                *)
FoundAgain == pc = "done" => kept \subseteq Found

(* What a collection reads, finds and leaves.                              *)
DiscoveryIsSound ==
    /\ TypeOK
    /\ BytesWithinBudget
    /\ OfficialOnly
    /\ CollectedIsWhole
    /\ FoundAgain

===============================================================================
