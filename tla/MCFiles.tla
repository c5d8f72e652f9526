------------------------------- MODULE MCFiles --------------------------------
(* What is read from disk and from the network: the chunks of a prompt,    *)
(* the registered sources, and the collection of sources; and what is      *)
(* written: publications and renderings of a directory.  The configuration *)
(* gives them small values: six chunks on three pages, cheap or dear, one  *)
(* of them a setup; one source, whose site answers one of two texts or     *)
(* bytes that cannot be decoded, and two processes; two start pages and    *)
(* their links; the Supervisor and two request files with two ids; four    *)
(* renderings.                                                             *)
EXTENDS Naturals, SequencesExt, TLC

CONSTANTS
    Chunks,         \* Context: the chunks of a source,
    Strangers,      \* ids of chunks it does not have,
    ChunkOrders,    \* the orders in which they may be offered,
    ChunkPages,     \* the page of each,
    Prices,         \* what one may cost,
    Setups,         \* the ones that describe a setup,
    Tokens,         \* the budget of a prompt,
    NeighbourShare, \* the part of it for neighbours,
    HitsShown,      \* ranked hits
    Processes,      \* Sources: those that share its directory,
    Sites,          \* the registered sources,
    Versions,       \* what a site may answer,
    Undecodable,    \* answers that are no text,
    Starts,         \* processes started
    Roots,          \* Discovery: the sources it starts from, in order,
    Homes,          \* the start URL of each,
    Scopes,         \* the URLs each may use,
    Urls,           \* all URLs,
    Bodies,         \* pages that may be served,
    Sizes,          \* their bytes,
    Blanks,         \* the ones without text,
    LinksOf,        \* the links of a page served under a URL,
    Answers,        \* what may be served for a URL,
    LinksPerRoot,   \* links followed from one source,
    LinksInAll,     \* and in all,
    FileBytes,      \* bytes of a file,
    AllBytes,       \* and of a collection,
    Collections,    \* collections begun
    Requests,       \* Publisher: processes publishing a request file,
    Ids,            \* request ids,
    OwnId,          \* the one of the Supervisor,
    Reports,        \* reports the writer is allowed
    Renderings      \* Renderer: times the directory is rendered

VARIABLES
    part, cost, mode, pc, hits, cited, adjacent, baseline, companions, retained,
    context, raw, snapshot, started, at, refresh, fetched, registry, frozen,
    seen, registered, meta, collects, used, attempts, count, visited, todo,
    item, found, moved, steady, kept, request, staging, destination, reply,
    status, current, file, record, answer

all == <<part, cost, mode, pc, hits, cited, adjacent, baseline, companions, retained,
          context, raw, snapshot, started, at, refresh, fetched, registry,
          frozen, seen, registered, meta, collects, used, attempts, count,
          visited, todo, item, found, moved, steady, kept, request, staging,
          destination, reply, status, current, file, record, answer>>

Commands == Permutations(Processes)
MCSites == <<"w1">>

(* Context: four cheap neighbours fill the reserve, one dear chunk takes   *)
(* all their room.                                                         *)
MCChunks == <<"c1", "c2", "c3", "c4", "c5", "c6">>
MCChunkOrders == {MCChunks, Reverse(MCChunks),
                  <<"c3", "c1", "c6", "c2", "c4", "c5">>, <<"c5", "c2", "c6", "c1", "c4", "c3">>}
MCChunkPages == [c \in Range(MCChunks) |-> CASE c = "c1" -> 1 [] c = "c6" -> 3 [] OTHER -> 2]

(* Discovery: the first source moves between two places, from which its    *)
(* link leads to different pages; the second shares a link with it, and    *)
(* what is served for that may lie in the scope of one of them only.       *)
MCRoots == <<"S1", "S2">>
MCUrls == {"home1", "moved1", "a", "b", "home2", "c", "d"}
MCHomes == [s \in {"S1", "S2"} |-> IF s = "S1" THEN "home1" ELSE "home2"]
MCScopes == [s \in {"S1", "S2"} |->
    IF s = "S1" THEN {"home1", "moved1", "a", "b", "c"} ELSE {"home2", "b", "d"}]
MCSizes == [p \in {"index", "note", "blank"} |-> IF p = "index" THEN 2 ELSE 1]
MCLinksOf == [p \in {"index", "note", "blank"} |-> [u \in MCUrls |->
    IF p # "index" THEN <<>>
    ELSE CASE u = "home1"  -> <<"b", "c">>
           [] u = "moved1" -> <<"a", "a">>
           [] OTHER        -> <<"b", "d">>]]
MCAnswers == [u \in MCUrls |->
    CASE u = "home1" -> {[page |-> "index", final |-> "home1"], [page |-> "index", final |-> "moved1"]}
      [] u = "home2" -> {[page |-> "index", final |-> "home2"]}
      [] u = "b"     -> {[page |-> "note", final |-> "b"], [page |-> "note", final |-> "c"]}
      [] OTHER       -> {[page |-> "note", final |-> u], [page |-> "blank", final |-> u]}]

-------------------------------------------------------------------------------

Context == INSTANCE Context WITH
    Source <- Chunks, Foreign <- Strangers, Orders <- ChunkOrders, Page <- ChunkPages,
    Cost <- Prices, Strong <- Setups, Budget <- Tokens, Reserve <- NeighbourShare, MaxHits <- HitsShown

ASSUME ContextAssumption == Context!ChunksAssumption /\ Context!BudgetAssumption

BesideContext == <<raw, snapshot, started, at, refresh, fetched, registry,
                   frozen, seen, registered, meta, collects, used, attempts,
                   count, visited, todo, item, found, moved, steady, kept,
                   request, staging, destination, reply, status, current,
                   file, record, answer>>

Sources == INSTANCE Sources WITH
    Process <- Processes, Order <- Sites, Version <- Versions, MaxStarts <- Starts

ASSUME SourcesAssumption == Sources!OrderAssumption /\ Sources!VersionAssumption

BesideSources == <<cost, mode, hits, cited, adjacent, baseline, companions, retained,
                   context, registered, meta, collects, used, attempts, count,
                   visited, todo, item, found, moved, steady, kept, request,
                   staging, destination, reply, status, current, file, record,
                   answer>>

Discovery == INSTANCE Discovery WITH
    Order <- Roots, Home <- Homes, Scope <- Scopes, Url <- Urls,
    Page <- Bodies, Size <- Sizes, Blank <- Blanks, Links <- LinksOf, Answer <- Answers,
    PerSource <- LinksPerRoot, Total <- LinksInAll, FileLimit <- FileBytes,
    Aggregate <- AllBytes, MaxCollects <- Collections

ASSUME DiscoveryAssumption == Discovery!RootsAssumption /\ Discovery!PagesAssumption

BesideDiscovery == <<cost, mode, hits, cited, adjacent, baseline, companions,
                     retained, context, snapshot, started, registry, frozen,
                     seen, request, staging, destination, reply, status,
                     current, file, record, answer>>

Publisher == INSTANCE Publisher WITH
    Command <- Requests, Id <- Ids, SupervisorId <- OwnId, MaxReport <- Reports

ASSUME PublisherAssumption == Publisher!IdsAssumption

BesidePublisher == <<cost, mode, hits, cited, adjacent, baseline, companions,
                     retained, context, raw, started, at, refresh, fetched,
                     registry, frozen, seen, registered, meta, collects, used,
                     attempts, count, visited, todo, item, found, moved,
                     steady, kept, current, file, record, answer>>

Renderer == INSTANCE Renderer

ASSUME RendererAssumption == Renderer!RenderingsAssumption

BesideRenderer == <<cost, mode, hits, cited, adjacent, baseline, companions,
                    retained, context, raw, snapshot, started, at, refresh,
                    fetched, registry, frozen, seen, registered, meta,
                    collects, used, attempts, count, visited, todo, item,
                    found, moved, steady, kept, request, staging, destination,
                    reply, status>>

-------------------------------------------------------------------------------

(* The parts share no state: a behaviour is one of one part, beside which  *)
(* the variables of the others are unused.                                 *)
Unused == "unused"

Init ==
    \/ /\ part = "context" /\ Context!Init
       /\ raw = Unused /\ snapshot = Unused /\ started = Unused
       /\ at = Unused /\ refresh = Unused /\ fetched = Unused
       /\ registry = Unused /\ frozen = Unused /\ seen = Unused
       /\ registered = Unused /\ meta = Unused /\ collects = Unused
       /\ used = Unused /\ attempts = Unused /\ count = Unused
       /\ visited = Unused /\ todo = Unused /\ item = Unused
       /\ found = Unused /\ moved = Unused /\ steady = Unused
       /\ kept = Unused /\ request = Unused /\ staging = Unused
       /\ destination = Unused /\ reply = Unused /\ status = Unused
       /\ current = Unused /\ file = Unused /\ record = Unused
       /\ answer = Unused
    \/ /\ part = "sources" /\ Sources!Init
       /\ cost = Unused /\ mode = Unused /\ hits = Unused /\ cited = Unused
       /\ adjacent = Unused /\ baseline = Unused /\ companions = Unused
       /\ retained = Unused /\ context = Unused /\ registered = Unused
       /\ meta = Unused /\ collects = Unused /\ used = Unused
       /\ attempts = Unused /\ count = Unused /\ visited = Unused
       /\ todo = Unused /\ item = Unused /\ found = Unused
       /\ moved = Unused /\ steady = Unused /\ kept = Unused
       /\ request = Unused /\ staging = Unused /\ destination = Unused
       /\ reply = Unused /\ status = Unused /\ current = Unused
       /\ file = Unused /\ record = Unused /\ answer = Unused
    \/ /\ part = "discovery" /\ Discovery!Init
       /\ cost = Unused /\ mode = Unused /\ hits = Unused /\ cited = Unused
       /\ adjacent = Unused /\ baseline = Unused /\ companions = Unused
       /\ retained = Unused /\ context = Unused /\ snapshot = Unused
       /\ started = Unused /\ registry = Unused /\ frozen = Unused
       /\ seen = Unused /\ request = Unused /\ staging = Unused
       /\ destination = Unused /\ reply = Unused /\ status = Unused
       /\ current = Unused /\ file = Unused /\ record = Unused
       /\ answer = Unused
    \/ /\ part = "publisher" /\ Publisher!Init
       /\ cost = Unused /\ mode = Unused /\ hits = Unused /\ cited = Unused
       /\ adjacent = Unused /\ baseline = Unused /\ companions = Unused
       /\ retained = Unused /\ context = Unused /\ raw = Unused
       /\ started = Unused /\ at = Unused /\ refresh = Unused
       /\ fetched = Unused /\ registry = Unused /\ frozen = Unused
       /\ seen = Unused /\ registered = Unused /\ meta = Unused
       /\ collects = Unused /\ used = Unused /\ attempts = Unused
       /\ count = Unused /\ visited = Unused /\ todo = Unused
       /\ item = Unused /\ found = Unused /\ moved = Unused
       /\ steady = Unused /\ kept = Unused /\ current = Unused
       /\ file = Unused /\ record = Unused /\ answer = Unused
    \/ /\ part = "renderer" /\ Renderer!Init
       /\ cost = Unused /\ mode = Unused /\ hits = Unused /\ cited = Unused
       /\ adjacent = Unused /\ baseline = Unused /\ companions = Unused
       /\ retained = Unused /\ context = Unused /\ raw = Unused
       /\ snapshot = Unused /\ started = Unused /\ at = Unused
       /\ refresh = Unused /\ fetched = Unused /\ registry = Unused
       /\ frozen = Unused /\ seen = Unused /\ registered = Unused
       /\ meta = Unused /\ collects = Unused /\ used = Unused
       /\ attempts = Unused /\ count = Unused /\ visited = Unused
       /\ todo = Unused /\ item = Unused /\ found = Unused
       /\ moved = Unused /\ steady = Unused /\ kept = Unused
       /\ request = Unused /\ staging = Unused /\ destination = Unused
       /\ reply = Unused /\ status = Unused

Next ==
    \/ part = "context" /\ Context!Next /\ UNCHANGED <<part, BesideContext>>
    \/ part = "sources" /\ Sources!Next /\ UNCHANGED <<part, BesideSources>>
    \/ part = "discovery" /\ Discovery!Next /\ UNCHANGED <<part, BesideDiscovery>>
    \/ part = "publisher" /\ Publisher!Next /\ UNCHANGED <<part, BesidePublisher>>
    \/ part = "renderer" /\ Renderer!Next /\ UNCHANGED <<part, BesideRenderer>>

Spec == Init /\ [][Next]_all

-------------------------------------------------------------------------------
(* Properties. *)

(* A prompt stays within its budget, keeps the ranked hits it had, shows   *)
(* every chunk that is cited or is refused, and gives up at most three     *)
(* others.                                                                 *)
ContextIsSound == part = "context" => Context!ContextIsSound

(* All a run reads of a source is the text its identity names, whatever    *)
(* other processes do to the files meanwhile, and never an edited          *)
(* snapshot.                                                               *)
SourcesAreSound == part = "sources" => Sources!SourcesAreSound

(* What a collection reads stays within its byte limit, in the scope of    *)
(* its source, and backed by two files that agree; and the next collection *)
(* finds it again.                                                         *)
DiscoveryIsSound == part = "discovery" => Discovery!DiscoveryIsSound

(* What can be found under report/<id> is whole, is the current report as  *)
(* it was evaluated and passed, and is there when a process was told so;   *)
(* of the processes that publish an id, one is.                            *)
PublicationIsSound == part = "publisher" => Publisher!PublicationIsSound

(* A record of success is true of the rendered files, however a later      *)
(* rendering failed or crashed, and both records agree when a rendering    *)
(* returns.                                                                *)
RenderingIsSound == part = "renderer" => Renderer!RenderingIsSound

===============================================================================
