--------------------------- MODULE TorrentSearcher --------------------------
(* Searches.  Each one is an HttpGet of its own, which the searcher does    *)
(* not remember: when one finishes, sender() tells which.  They finish in   *)
(* any order, and the signals that end them carry no query.                 *)
(*                                                                          *)
(* HttpGet itself is outside of the repository: once started it finishes,   *)
(* one time, with some answer.  A patient application does not search until *)
(* each of its searches has brought it a signal.                            *)
EXTENDS Integers, FiniteSets, Sequences, SequencesExt

CONSTANTS Requests,   \* addresses of HttpGet objects
          Queries, Blank,
          Responses,  \* what the API may answer to a query
          HashOf,     \* "info_hash" of an entry of an answer
          NoHash, NoResults, NoQuery,
          MaxSearches \* bound of the calls of search

ASSUME BlankAssumption == Blank \in Queries /\ NoQuery \notin Queries
ASSUME AnswersAssumption ==
    \A a \in Responses : a.kind = "array" => a.entries \in Seq(DOMAIN HashOf \union {NoResults})
ASSUME RequestsAssumption == IsFiniteSet(Requests)
ASSUME MaxSearchesAssumption == MaxSearches \in Nat

VARIABLES
    request,          \* the HttpGet objects
    alive,            \* the searcher exists
    searches, signals,\* history: how many calls of search, how many answers
    lastQuery,        \* history: of the latest search
    seen,             \* what the application got last, and for which query
    patient

searcherVars == <<request, alive, searches, signals, lastQuery, seen, patient>>

States == {"unused", "running", "finished", "deferred"}

NoAnswer == [kind |-> "none"]

Unused == [state |-> "unused", query |-> NoQuery, answer |-> NoAnswer]

Outstanding == {g \in Requests : request[g].state \in {"running", "finished"}}

----------------------------------------------------------------------------
(* What onHttpFinished makes of an answer. *)

\* apibay's way to say that it found nothing.
AtNoResults(entries, i) == entries[i] = NoResults

\* The entries before NoResults, but those without a hash.
ResultsOf(entries) ==
    LET read == {i \in DOMAIN entries : \A j \in 1..i : ~AtNoResults(entries, j)}
    IN  {entries[i] : i \in {j \in read : HashOf[entries[j]] # NoHash}}

\* Variants of Outcomes: no signal, or two, for an answer that is no array.
OutcomesSilent(answer) ==
    CASE answer.kind = "array"  -> <<[ok |-> TRUE, results |-> ResultsOf(answer.entries)]>>
      [] answer.kind = "object" -> <<>>
      [] OTHER                  -> <<[ok |-> FALSE, results |-> {}]>>

OutcomesTwice(answer) ==
    CASE answer.kind = "array"  -> <<[ok |-> TRUE, results |-> ResultsOf(answer.entries)]>>
      [] answer.kind = "object" -> <<[ok |-> FALSE, results |-> {}],
                                     [ok |-> TRUE, results |-> {}]>>
      [] OTHER                  -> <<[ok |-> FALSE, results |-> {}]>>

\* The signals for an answer: searchComplete for an array; searchFailed for
\* a status other than 200, no JSON, or JSON that is no array.
Outcomes(answer) ==
    IF answer.kind = "array"
    THEN <<[ok |-> TRUE, results |-> ResultsOf(answer.entries)]>>
    ELSE <<[ok |-> FALSE, results |-> {}]>>

Shown(outcome, query) ==
    [ok |-> outcome.ok, results |-> outcome.results, query |-> query]

----------------------------------------------------------------------------
SearcherInit ==
    /\ request = [g \in Requests |-> Unused]
    /\ alive = TRUE
    /\ searches = 0 /\ signals = 0
    /\ lastQuery = NoQuery
    /\ seen = [ok |-> FALSE, results |-> {}, query |-> NoQuery]
    /\ patient \in BOOLEAN

MaySearch(q) ==
    /\ alive
    /\ searches < MaxSearches
    /\ patient => signals = searches
    /\ searches' = searches + 1
    /\ lastQuery' = q

\* A query of blanks fails at once.
SearchBlank ==
    /\ MaySearch(Blank)
    /\ signals' = signals + 1
    /\ seen' = Shown([ok |-> FALSE, results |-> {}], Blank)
    /\ UNCHANGED <<request, alive, patient>>

Search(q) ==
    /\ q # Blank
    /\ MaySearch(q)
    /\ \E g \in Requests :
          /\ request[g].state = "unused"
          /\ request' = [request EXCEPT ![g].state = "running", ![g].query = q]
    /\ UNCHANGED <<alive, signals, seen, patient>>

\* The network answers, or fails.
Arrive(g, answer) ==
    /\ request[g].state = "running"
    /\ request' = [request EXCEPT ![g] =
                     [state |-> "finished", query |-> @.query, answer |-> answer]]
    /\ UNCHANGED <<alive, searches, signals, lastQuery, seen, patient>>

\* A variant of AfterUse: deleteLater is left out when the status is not 200.
AfterUseLeaking(answer) == IF answer.kind = "error" THEN "leaked" ELSE "deferred"

\* deleteLater, on each way out.
AfterUse(answer) == "deferred"

\* onHttpFinished; the slots of its signal may search again.  Its sender is
\* always an HttpGet, nothing else is connected.
OnHttpFinished(g) ==
    /\ alive
    /\ request[g].state = "finished"
    /\ LET answer == request[g].answer
           outcomes == Outcomes(answer)
       IN  /\ request' = [request EXCEPT ![g].state = AfterUse(answer)]
           /\ signals' = signals + Len(outcomes)
           /\ seen' = IF outcomes = <<>> THEN seen
                      ELSE Shown(Last(outcomes), request[g].query)
    /\ UNCHANGED <<alive, searches, lastQuery, patient>>

\* The event loop deletes what deleteLater was called for.
DeleteRequest(g) ==
    /\ request[g].state = "deferred"
    /\ request' = [request EXCEPT ![g] = Unused]
    /\ UNCHANGED <<alive, searches, signals, lastQuery, seen, patient>>

\* The destructor disconnects the requests, and has no pointers to delete.
DestroySearcher ==
    /\ alive
    /\ alive' = FALSE
    /\ UNCHANGED <<request, searches, signals, lastQuery, seen, patient>>

SearcherNext ==
    \/ SearchBlank
    \/ \E q \in Queries : Search(q)
    \/ \E g \in Requests :
          \/ \E answer \in Responses : Arrive(g, answer)
          \/ OnHttpFinished(g)
          \/ DeleteRequest(g)
    \/ DestroySearcher

SearcherSpec == SearcherInit /\ [][SearcherNext]_searcherVars

----------------------------------------------------------------------------
(* Every variable has its type. *)
SearcherTypeOK ==
    /\ request \in [Requests -> [state : States, query : Queries \union {NoQuery},
                                 answer : Responses \union {NoAnswer}]]
    /\ alive \in BOOLEAN
    /\ searches \in 0..MaxSearches
    /\ signals \in Nat
    /\ lastQuery \in Queries \union {NoQuery}
    /\ seen \in [ok : BOOLEAN, results : SUBSET DOMAIN HashOf,
                 query : Queries \union {NoQuery}]
    /\ patient \in BOOLEAN

(* Every search gets one signal, whatever is answered and in which order,   *)
(* also when slots search again: the searches without one are those whose   *)
(* request is under way, and none is lost among the requests that others    *)
(* use again.                                                               *)
EachIsAnsweredOnce ==
    searches = signals + Cardinality(Outstanding)

(* A patient application, which knows no query but its last, shows every    *)
(* answer under the query it belongs to.                                    *)
PatientSeesItsAnswer ==
    patient /\ seen.query # NoQuery /\ Outstanding = {} => seen.query = lastQuery

=============================================================================
