-------------------------------- MODULE Context -------------------------------
(***************************************************************************)
(* Which chunks of a paper a prompt quotes: build_research_context and     *)
(* assessment_evidence of rag/context.py, over the neighbours Corpus       *)
(* offers.  A chunk is taken whole or not at all; the budgets are tokens.  *)
(*                                                                         *)
(* The corpus is one source.  What the text of a chunk says decides in     *)
(* which order candidates are offered, and which are "strong" descriptions *)
(* of a setup; here any of the given orders may be.                        *)
(***************************************************************************)
EXTENDS Integers, FiniteSets, SequencesExt

CONSTANTS
    Source,     \* the chunks in their order
    Foreign,    \* ids of chunks that are not in the corpus
    Orders,     \* the orders in which chunks may be offered or ranked
    Page,       \* the page of a chunk
    Cost,       \* what a chunk may cost
    Strong,     \* chunks that a setup search finds anywhere in the source
    Budget,     \* evidence_token_budget
    Reserve,    \* adjacent_token_budget
    MaxHits     \* ranked hits of a search

Chunk == Range(Source)

ChunksAssumption ==
    /\ \A order \in Orders \cup {Source} :
           order \in Seq(Chunk) /\ IsInjective(order) /\ Range(order) = Chunk
    /\ Page \in [Chunk -> Nat]
    /\ Strong \subseteq Chunk
    /\ Foreign \cap Chunk = {}

(* _pack refuses other budgets. *)
BudgetAssumption ==
    Cost \subseteq Nat /\ Budget \in Nat \ {0} /\ Reserve \in 0 .. Budget

VARIABLES
    cost,       \* the tokens of each chunk
    mode,       \* "research", "assessment"
    pc,         \* "baseline", "replace", "pack", "done", "rejected"
    cited,      \* the ids the assessments cite
    hits,       \* ranked hits, or the cited chunks in the order of the source
    adjacent,   \* the neighbouring pages, as offered to the baseline
    baseline,   \* the selection before any replacement
    companions, \* neighbours and setups, as offered
    retained,   \* what of the baseline is kept
    context     \* the selection

vars == <<cost, mode, pc, cited, hits, adjacent, baseline, companions, retained, context>>

Total(seq) == FoldLeft(LAMBDA sum, c : sum + cost[c], 0, seq)

InOrder(order, S) ==
    FoldLeft(LAMBDA seq, c : IF c \in S THEN Append(seq, c) ELSE seq, <<>>, order)

Offers(S) == {InOrder(order, S) : order \in Orders}

-------------------------------------------------------------------------------
(* The candidates. *)

Position(c) == CHOOSE i \in DOMAIN Source : Source[i] = c

(* Corpus.adjacent_candidates: everything on the page before or after. *)
OnNextPage(seeds) ==
    {c \in Chunk : \E s \in seeds : Page[c] - Page[s] \in {1, -1}}

(* companion_candidates: the chunk before and the chunk after, on any      *)
(* page, and the setups of the source.                                     *)
Companions(seeds) ==
    {c \in Chunk : \E s \in seeds : Position(c) - Position(s) \in {1, -1} \/ c \in Strong}

-------------------------------------------------------------------------------
(* _pack *)

(* Items in turn, as far as the budget and the limit allow; what does not  *)
(* fit is skipped, and a cheaper one after it may still be taken.          *)
Take(acc, items, limit) ==
    LET one(a, c) ==
            IF c \in Range(a.taken) \/ a.used + cost[c] > Budget \/ a.spent + cost[c] > limit THEN a
            ELSE [a EXCEPT !.taken = Append(@, c), !.used = @ + cost[c], !.spent = @ + cost[c]]
    IN  FoldLeft(one, [acc EXCEPT !.spent = 0], items)

Least(a, b) == IF a < b THEN a ELSE b

(* What is required, then the companions within a limit of their own, then *)
(* the ranked hits.  Required chunks that do not all fit are an error.     *)
Pack(required, offered, ranked, limit) ==
    LET kept     == Take([taken |-> <<>>, used |-> 0, spent |-> 0], required, Budget)
        extended == Take(kept, offered, Least(limit, Budget - kept.used))
        full     == Take(extended, ranked, Budget - extended.used)
    IN  [fits |-> Range(required) \subseteq Range(kept.taken), taken |-> full.taken]

-------------------------------------------------------------------------------
(* build_research_context *)

Init ==
    /\ cost \in [Chunk -> Cost]
    /\ mode \in {"research", "assessment"}
    /\ pc = "baseline"
    /\ cited = {} /\ hits = <<>> /\ adjacent = <<>> /\ baseline = <<>>
    /\ companions = <<>> /\ retained = <<>> /\ context = <<>>

(* The selection without replacement: neighbouring pages first. *)
Baseline ==
    /\ pc = "baseline"
    /\ mode = "research"
    /\ \E S \in SUBSET Chunk :
          /\ Cardinality(S) \in 1 .. MaxHits
          /\ hits' \in Offers(S)
          /\ adjacent' \in Offers(OnNextPage(S))
    /\ baseline' = Pack(<<>>, adjacent', hits', Reserve).taken
    /\ pc' = "replace"
    /\ UNCHANGED <<cost, mode, cited, companions, retained, context>>

(* From the end, up to three chunks that no search has ranked, until there *)
(* is room for the additions.                                              *)
Yielding(additions, seq) ==
    LET one(a, c) ==
            IF \/ Total(a.kept) + Total(additions) <= Budget
               \/ c \in Range(hits)
               \/ a.removed = 3
            THEN a
            ELSE [kept |-> InOrder(a.kept, Chunk \ {c}), removed |-> a.removed + 1]
    IN  FoldLeft(one, [kept |-> baseline, removed |-> 0], seq)

Yield(additions) == Yielding(additions, Reverse(baseline)).kept

(* The first three companions that are new decide how much has to yield. *)
Replace ==
    /\ pc = "replace"
    /\ companions' \in Offers(Companions(Range(hits) \cup Range(baseline)))
    /\ LET new == InOrder(companions', Chunk \ Range(baseline))
       IN  retained' = Yield(SubSeq(new, 1, Least(3, Len(new))))
    /\ pc' = "pack"
    /\ UNCHANGED <<cost, mode, cited, hits, adjacent, baseline, context>>

(* Then all of them are offered again. *)
Fill ==
    /\ pc = "pack"
    /\ LET packed == Pack(retained, companions, <<>>, Budget)
       IN  IF packed.fits
           THEN pc' = "done" /\ context' = packed.taken
           ELSE pc' = "rejected" /\ UNCHANGED context
    /\ UNCHANGED <<cost, mode, cited, hits, adjacent, baseline, companions, retained>>

-------------------------------------------------------------------------------

(* assessment_evidence: what the assessments cite, and its companions.     *)

(* Variant: a cited chunk that the corpus does not have is passed over. *)
AssessFound ==
    /\ pc = "baseline"
    /\ mode = "assessment"
    /\ cited' \in SUBSET (Chunk \cup Foreign)
    /\ hits' = InOrder(Source, cited')
    /\ companions' \in Offers(Companions(Range(hits')))
    /\ LET packed == Pack(hits', companions', <<>>, Reserve)
       IN  IF packed.fits
           THEN pc' = "done" /\ context' = packed.taken
           ELSE pc' = "rejected" /\ UNCHANGED context
    /\ UNCHANGED <<cost, mode, adjacent, baseline, retained>>

(* "A cited chunk is absent from the frozen corpus", or all are packed. *)
Assess ==
    /\ pc = "baseline"
    /\ mode = "assessment"
    /\ cited' \in SUBSET (Chunk \cup Foreign)
    /\ hits' = InOrder(Source, cited')
    /\ \/ /\ cited' \ Range(hits') # {}
          /\ pc' = "rejected"
          /\ UNCHANGED <<companions, context>>
       \/ /\ cited' \subseteq Range(hits')
          /\ companions' \in Offers(Companions(Range(hits')))
          /\ LET packed == Pack(hits', companions', <<>>, Reserve)
             IN  IF packed.fits
                 THEN pc' = "done" /\ context' = packed.taken
                 ELSE pc' = "rejected" /\ UNCHANGED context
    /\ UNCHANGED <<cost, mode, adjacent, baseline, retained>>

Next == Baseline \/ Replace \/ Fill \/ Assess

Spec == Init /\ [][Next]_vars

-------------------------------------------------------------------------------
(* The selection of earlier versions, token_context of rag/graph.py, which *)
(* the follow-up views still use.                                          *)

Consume(acc, seq) ==
    LET one(a, c) ==
            IF \/ \E i \in DOMAIN a.selected : a.selected[i] = c
               \/ a.consumed + cost[c] > a.limit
               \/ a.used + cost[c] > Budget
            THEN a
            ELSE [a EXCEPT !.selected = Append(@, c), !.used = @ + cost[c], !.consumed = @ + cost[c]]
    IN  FoldLeft(one, acc, seq)

TokenContext(ranked, neighbours) ==
    LET first  == Consume([selected |-> <<>>, used |-> 0, consumed |-> 0,
                           limit |-> Least(Reserve, Budget)], neighbours)
        second == [first EXCEPT !.consumed = 0, !.limit = Budget - first.used]
    IN  Consume(second, ranked).selected

-------------------------------------------------------------------------------
(* Properties. *)

(* Every variable has its type; a selection names a chunk once. *)
TypeOK ==
    /\ cost \in [Chunk -> Cost]
    /\ mode \in {"research", "assessment"}
    /\ pc \in {"baseline", "replace", "pack", "done", "rejected"}
    /\ cited \subseteq Chunk \cup Foreign
    /\ \A seq \in {hits, adjacent, baseline, companions, retained, context} :
          seq \in Seq(Chunk) /\ IsInjective(seq)

(* No prompt quotes more than its budget, whatever is packed how often. *)
WithinBudget == Total(baseline) <= Budget /\ Total(context) <= Budget

(* "Ranked hits keep their original order": a hit that was selected is     *)
(* never given up for a neighbour, and never moved.                        *)
RankedAreKept ==
    pc = "done" /\ mode = "research" =>
        LET ranked == Range(hits) \cap Range(baseline)
        IN  InOrder(context, ranked) = InOrder(baseline, ranked)

(* A prompt shows every chunk the assessments cite, or there is none: then *)
(* one of them is not in the corpus, or they exceed the budget without any *)
(* companion.                                                              *)
CitedAreComplete ==
    mode = "assessment" =>
        /\ pc = "done" => cited \subseteq Range(context)
        /\ pc = "rejected" => cited \cap Foreign # {} \/ Total(hits) > Budget

(* "Start from the legacy 6500/2800 selection": the two implementations    *)
(* of it agree.                                                            *)
BaselineIsLegacy ==
    mode = "research" /\ pc # "baseline" => baseline = TokenContext(hits, adjacent)

GivenUp == Range(baseline) \ Range(context)

(* "Up to three cross-page-only choices can yield" to full conditions, as  *)
(* the comment in the code counts; docs/context-retrieval.md:55 says two,  *)
(* which the selection does exceed.                                        *)
ThreeYieldAtMost == pc = "done" => Cardinality(GivenUp) <= 3

(* What a prompt quotes.                                                   *)
ContextIsSound ==
    /\ TypeOK
    /\ WithinBudget
    /\ RankedAreKept
    /\ CitedAreComplete
    /\ BaselineIsLegacy
    /\ ThreeYieldAtMost

===============================================================================
