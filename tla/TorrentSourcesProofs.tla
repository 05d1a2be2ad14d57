------------------------ MODULE TorrentSourcesProofs ------------------------
(* Proofs about where torrents come from.  Searches: for any number of      *)
(* requests, any answers and any order of them, searches and signals match, *)
(* and a patient application shows answers under the query they belong to.  *)
(* Magnet links: for any sizes of characters, bytes and hashes and any      *)
(* URIs, base 32 is decoded exactly, a link comes out of its own URI as it  *)
(* went in, and libtorrent takes the links that say they are valid.         *)
EXTENDS TorrentSources, TorrentCreatorProofs, FiniteSetTheorems

----------------------------------------------------------------------------
(* Searches.                                                                *)

\* What a patient application may have under way is its last search.
PatientAsksOne ==
    patient => \A g \in Outstanding : request[g].query = lastQuery

SearcherInv ==
    /\ SearcherTypeOK
    /\ EachIsAnsweredOnce
    /\ PatientAsksOne
    /\ PatientSeesItsAnswer

----------------------------------------------------------------------------
LEMMA OutstandingIsFinite ==
    /\ IsFiniteSet(Outstanding)
    /\ Cardinality(Outstanding) \in Nat
    /\ Cardinality(Outstanding) = 0 <=> Outstanding = {}
  <1>1. Outstanding \in SUBSET Requests
    BY DEF Outstanding
  <1>2. IsFiniteSet(Outstanding)
    BY <1>1, RequestsAssumption, FS_Subset
  <1> QED
    BY <1>2, FS_CardinalityType, FS_EmptySet

\* onHttpFinished emits one signal, whatever the answer is.
LEMMA OneOutcome ==
    ASSUME NEW answer
    PROVE  Len(Outcomes(answer)) = 1 /\ Outcomes(answer) # <<>>
  BY DEF Outcomes

\* The results are entries that have a hash.
LEMMA ResultsAreEntries ==
    ASSUME NEW a \in Responses \union {NoAnswer}
    PROVE  LET outcomes == Outcomes(a)
           IN  outcomes[1] \in [ok : BOOLEAN, results : SUBSET DOMAIN HashOf]
  <1>1. CASE a.kind = "array"
    <2>1. a.entries \in Seq(DOMAIN HashOf \union {NoResults})
      BY <1>1, AnswersAssumption DEF NoAnswer
    <2>2. \A i \in DOMAIN a.entries : a.entries[i] \in DOMAIN HashOf \union {NoResults}
      BY <2>1, LenProperties, ElementOfSeq
    <2>3. \A i \in DOMAIN a.entries : i \in 1..i
      BY <2>1, LenProperties
    <2> DEFINE entries == a.entries
    <2> HIDE DEF entries
    <2>4. \A i \in DOMAIN entries :
             (\A j \in 1..i : entries[j] # NoResults) => entries[i] \in DOMAIN HashOf
      BY <2>2, <2>3 DEF entries
    <2>5. ResultsOf(entries) \subseteq DOMAIN HashOf
      BY <2>4 DEF ResultsOf, AtNoResults
    <2> QED
      BY <1>1, <2>5 DEF Outcomes, entries
  <1>2. CASE a.kind # "array"
    BY <1>2 DEF Outcomes
  <1> QED
    BY <1>1, <1>2

LEMMA InitSearcherInv == SearcherInit => SearcherInv
  <1> SUFFICES ASSUME SearcherInit PROVE SearcherInv
    OBVIOUS
  <1>1. Outstanding = {}
    BY DEF SearcherInit, Outstanding, Unused
  <1>2. SearcherTypeOK
    BY MaxSearchesAssumption DEF SearcherInit, SearcherTypeOK, Unused, States
  <1>3. EachIsAnsweredOnce
    BY <1>1, FS_EmptySet DEF SearcherInit, EachIsAnsweredOnce
  <1>4. PatientAsksOne /\ PatientSeesItsAnswer
    BY <1>1 DEF SearcherInit, PatientAsksOne, PatientSeesItsAnswer
  <1> QED
    BY <1>2, <1>3, <1>4 DEF SearcherInv

----------------------------------------------------------------------------
(* One lemma per action.                                                    *)

\* A search of blanks is answered in the call.
LEMMA BlankKeeps ==
    ASSUME SearcherInv, SearchBlank PROVE SearcherInv'
  <1>1. /\ searches' = searches + 1 /\ signals' = signals + 1 /\ lastQuery' = Blank
        /\ seen'.query = Blank
        /\ searches < MaxSearches
        /\ UNCHANGED <<request, alive, patient>>
        /\ patient => signals = searches
    BY DEF SearchBlank, MaySearch, Shown
  <1>2. UNCHANGED Outstanding
    BY <1>1 DEF Outstanding
  <1>3. SearcherTypeOK'
    <2>1. seen' = [ok |-> FALSE, results |-> {}, query |-> Blank]
      BY DEF SearchBlank, Shown
    <2> QED
      BY <1>1, <2>1, BlankAssumption, MaxSearchesAssumption DEF SearcherInv, SearcherTypeOK
  <1>4. EachIsAnsweredOnce'
    BY <1>1, <1>2, OutstandingIsFinite
    DEF SearcherInv, SearcherTypeOK, EachIsAnsweredOnce
  <1>5. PatientAsksOne' /\ PatientSeesItsAnswer'
    <2>1. patient => Outstanding = {}
      BY <1>1, OutstandingIsFinite DEF SearcherInv, SearcherTypeOK, EachIsAnsweredOnce
    <2> QED
      BY <1>1, <1>2, <2>1 DEF PatientAsksOne, PatientSeesItsAnswer
  <1> QED
    BY <1>3, <1>4, <1>5 DEF SearcherInv

\* A search adds its request to those that are under way.
LEMMA SearchKeeps ==
    ASSUME SearcherInv, NEW q \in Queries, Search(q) PROVE SearcherInv'
  <1>1. /\ searches' = searches + 1 /\ lastQuery' = q
        /\ searches < MaxSearches
        /\ UNCHANGED <<alive, signals, seen, patient>>
        /\ patient => signals = searches
    BY DEF Search, MaySearch
  <1>2. PICK g \in Requests :
            /\ request[g].state = "unused"
            /\ request' = [request EXCEPT ![g].state = "running", ![g].query = q]
    BY DEF Search
  <1>3. request \in [Requests -> [state : States, query : Queries \union {NoQuery},
                                  answer : Responses \union {NoAnswer}]]
    BY DEF SearcherInv, SearcherTypeOK
  <1>4. /\ request'[g].state = "running" /\ request'[g].query = q
        /\ \A h \in Requests \ {g} : request'[h] = request[h]
    BY <1>2, <1>3
  <1>5. Outstanding' = Outstanding \union {g} /\ g \notin Outstanding
    BY <1>2, <1>4 DEF Outstanding
  <1>6. SearcherTypeOK'
    <2>1. request' \in [Requests -> [state : States, query : Queries \union {NoQuery},
                                     answer : Responses \union {NoAnswer}]]
      BY <1>2, <1>3 DEF States
    <2> QED
      BY <1>1, <2>1, MaxSearchesAssumption DEF SearcherInv, SearcherTypeOK
  <1>7. EachIsAnsweredOnce'
    <2>1. Cardinality(Outstanding') = Cardinality(Outstanding) + 1
      BY <1>5, OutstandingIsFinite, FS_AddElement
    <2> QED
      BY <1>1, <2>1, OutstandingIsFinite
      DEF SearcherInv, SearcherTypeOK, EachIsAnsweredOnce
  <1>8. PatientAsksOne'
    <2>1. patient => Outstanding = {}
      BY <1>1, OutstandingIsFinite DEF SearcherInv, SearcherTypeOK, EachIsAnsweredOnce
    <2> QED
      BY <1>1, <1>4, <1>5, <2>1 DEF PatientAsksOne
  <1>9. PatientSeesItsAnswer'
    BY <1>5 DEF PatientSeesItsAnswer
  <1> QED
    BY <1>6, <1>7, <1>8, <1>9 DEF SearcherInv

\* An answer that arrives, or a request that is deleted, changes nothing of it.
LEMMA RequestKeeps ==
    ASSUME SearcherInv, NEW g \in Requests,
           NEW s \in States, NEW query, NEW a \in Responses \union {NoAnswer},
           request' = [request EXCEPT ![g] = [state |-> s, query |-> query, answer |-> a]],
           query \in {request[g].query, NoQuery},
           \/ /\ request[g].state = "running" /\ s = "finished"
              /\ query = request[g].query
           \/ request[g].state = "deferred" /\ s = "unused",
           UNCHANGED <<alive, searches, signals, lastQuery, seen, patient>>
    PROVE  SearcherInv'
  <1>1. request \in [Requests -> [state : States, query : Queries \union {NoQuery},
                                  answer : Responses \union {NoAnswer}]]
    BY DEF SearcherInv, SearcherTypeOK
  <1>2. /\ request'[g] = [state |-> s, query |-> query, answer |-> a]
        /\ \A h \in Requests \ {g} : request'[h] = request[h]
    BY <1>1
  <1>3. UNCHANGED Outstanding
    BY <1>2 DEF Outstanding
  <1>4. request' \in [Requests -> [state : States, query : Queries \union {NoQuery},
                                   answer : Responses \union {NoAnswer}]]
    BY <1>1
  <1>5. SearcherTypeOK'
    BY <1>4 DEF SearcherInv, SearcherTypeOK
  <1>6. EachIsAnsweredOnce' /\ PatientSeesItsAnswer'
    BY <1>3 DEF SearcherInv, EachIsAnsweredOnce, PatientSeesItsAnswer
  <1>7. PatientAsksOne'
    <2> SUFFICES ASSUME patient, NEW h \in Outstanding
                 PROVE  request'[h].query = lastQuery
      BY <1>3 DEF PatientAsksOne
    <2>1. request[h].query = lastQuery /\ h \in Requests
      BY DEF SearcherInv, PatientAsksOne, Outstanding
    <2>2. h = g => query = request[g].query
      BY DEF Outstanding
    <2> QED
      BY <1>2, <2>1, <2>2
  <1> QED
    BY <1>5, <1>6, <1>7 DEF SearcherInv

LEMMA ArriveKeeps ==
    ASSUME SearcherInv, NEW g \in Requests, NEW a \in Responses, Arrive(g, a)
    PROVE  SearcherInv'
  <1>1. "finished" \in States
    BY DEF States
  <1> QED
    BY <1>1, RequestKeeps DEF Arrive

LEMMA DeleteKeeps ==
    ASSUME SearcherInv, NEW g \in Requests, DeleteRequest(g) PROVE SearcherInv'
  <1>1. "unused" \in States /\ NoAnswer \in Responses \union {NoAnswer}
    BY DEF States
  <1> QED
    BY <1>1, RequestKeeps DEF DeleteRequest, Unused

\* The signal that ends a search takes its request from those under way.
LEMMA FinishedKeeps ==
    ASSUME SearcherInv, NEW g \in Requests, OnHttpFinished(g) PROVE SearcherInv'
  <1> DEFINE outcomes == Outcomes(request[g].answer)
  <1>1. request \in [Requests -> [state : States, query : Queries \union {NoQuery},
                                  answer : Responses \union {NoAnswer}]]
    BY DEF SearcherInv, SearcherTypeOK
  <1>2. Len(outcomes) = 1 /\ outcomes # <<>>
    BY OneOutcome
  <1> HIDE DEF outcomes
  <1>3. /\ request[g].state = "finished"
        /\ request' = [request EXCEPT ![g].state = "deferred"]
        /\ signals' = signals + 1
        /\ seen'.query = request[g].query
        /\ UNCHANGED <<alive, searches, lastQuery, patient>>
    BY <1>2 DEF OnHttpFinished, AfterUse, Shown, outcomes
  <1>4. /\ request'[g].state = "deferred"
        /\ \A h \in Requests \ {g} : request'[h] = request[h]
    BY <1>1, <1>3
  <1>5. Outstanding' = Outstanding \ {g} /\ g \in Outstanding
    BY <1>3, <1>4 DEF Outstanding
  <1>6. SearcherTypeOK'
    <2>1. request' \in [Requests -> [state : States, query : Queries \union {NoQuery},
                                     answer : Responses \union {NoAnswer}]]
      BY <1>1, <1>3 DEF States
    <2>2. seen' = [ok |-> outcomes[1].ok, results |-> outcomes[1].results,
                    query |-> request[g].query]
      BY <1>2 DEF OnHttpFinished, Shown, Last, outcomes
    <2>3. outcomes[1] \in [ok : BOOLEAN, results : SUBSET DOMAIN HashOf]
      BY <1>1, ResultsAreEntries DEF outcomes
    <2>4. seen' \in [ok : BOOLEAN, results : SUBSET DOMAIN HashOf,
                      query : Queries \union {NoQuery}]
      BY <1>1, <2>2, <2>3
    <2> QED
      BY <1>3, <2>1, <2>4 DEF SearcherInv, SearcherTypeOK
  <1>7. EachIsAnsweredOnce'
    <2>1. Cardinality(Outstanding') = Cardinality(Outstanding) - 1
      BY <1>5, OutstandingIsFinite, FS_RemoveElement
    <2> QED
      BY <1>3, <2>1, OutstandingIsFinite
      DEF SearcherInv, SearcherTypeOK, EachIsAnsweredOnce
  <1>8. PatientAsksOne'
    BY <1>3, <1>4, <1>5 DEF SearcherInv, PatientAsksOne, Outstanding
  <1>9. PatientSeesItsAnswer'
    BY <1>3, <1>5 DEF SearcherInv, PatientAsksOne, PatientSeesItsAnswer
  <1> QED
    BY <1>6, <1>7, <1>8, <1>9 DEF SearcherInv

LEMMA UnchangedKeeps ==
    ASSUME SearcherInv, alive' \in BOOLEAN,
           UNCHANGED <<request, searches, signals, lastQuery, seen, patient>>
    PROVE  SearcherInv'
  BY DEF SearcherInv, SearcherTypeOK, EachIsAnsweredOnce, PatientAsksOne,
         PatientSeesItsAnswer, Outstanding

LEMMA NextSearcherInv ==
    ASSUME SearcherInv, [SearcherNext]_searcherVars PROVE SearcherInv'
  <1>1. CASE DestroySearcher
    BY <1>1, UnchangedKeeps DEF DestroySearcher
  <1>2. CASE UNCHANGED searcherVars
    <2>1. alive' \in BOOLEAN
      BY <1>2 DEF searcherVars, SearcherInv, SearcherTypeOK
    <2> QED
      BY <1>2, <2>1, UnchangedKeeps DEF searcherVars
  <1> QED
    BY <1>1, <1>2, BlankKeeps, SearchKeeps, ArriveKeeps, FinishedKeeps, DeleteKeeps
    DEF SearcherNext

----------------------------------------------------------------------------
(* Every search gets its one signal (searchComplete or searchFailed),       *)
(* however many are under way, and in whatever order they finish.           *)
THEOREM EverySearchIsAnsweredOnce == SearcherSpec => []EachIsAnsweredOnce
  <1>1. SearcherInv => EachIsAnsweredOnce
    BY DEF SearcherInv
  <1> QED
    BY <1>1, InitSearcherInv, NextSearcherInv, PTL DEF SearcherSpec

(* An application that waits for a signal per search never shows an answer  *)
(* under the query of another search, though no signal carries a query.     *)
THEOREM PatienceSuffices == SearcherSpec => []PatientSeesItsAnswer
  <1>1. SearcherInv => PatientSeesItsAnswer
    BY DEF SearcherInv
  <1> QED
    BY <1>1, InitSearcherInv, NextSearcherInv, PTL DEF SearcherSpec

----------------------------------------------------------------------------
(* Arithmetic of buffers.                                                   *)

LEMMA DivMod ==
    ASSUME NEW q \in Nat, NEW d \in Nat \ {0}, NEW r \in 0..(d - 1)
    PROVE  (q * d + r) \div d = q /\ (q * d + r) % d = r
  OBVIOUS

LEMMA Divided ==
    ASSUME NEW a \in Nat, NEW d \in Nat \ {0}
    PROVE  /\ a \div d \in Nat /\ a % d \in 0..(d - 1)
           /\ a = (a \div d) * d + (a % d)
  OBVIOUS

LEMMA DivDiv ==
    ASSUME NEW a \in Nat, NEW d \in Nat \ {0}, NEW e \in Nat \ {0}
    PROVE  (a \div d) \div e = a \div (d * e)
  OBVIOUS

\* A multiple of d does not count modulo d.
LEMMA ModShift ==
    ASSUME NEW q \in Nat, NEW d \in Nat \ {0}, NEW x \in Nat
    PROVE  (q * d + x) % d = x % d
  <1> DEFINE y == x \div d
             r == x % d
             z == q + y
  <1>1. y \in Nat /\ r \in 0..(d - 1) /\ x = y * d + r
    BY Divided
  <1> HIDE DEF y, r
  <1>2. q * d + x = z * d + r /\ z \in Nat
    BY <1>1
  <1> HIDE DEF z
  <1>3. (z * d + r) % d = r
    BY <1>1, <1>2, DivMod
  <1> QED
    BY <1>2, <1>3 DEF r

LEMMA Cancel ==
    ASSUME NEW a \in Nat, NEW b \in Nat, NEW d \in Nat \ {0}, a * d <= b * d
    PROVE  a <= b
  OBVIOUS

PowStart(arg) == 1
PowStep(power, n, arg) == 2 * power
Powers == INSTANCE Recursion WITH Start <- PowStart, Step <- PowStep

LEMMA Pow2Defined == Pow2 = [n \in Nat |-> IF n = 0 THEN 1 ELSE 2 * Pow2[n - 1]]
  <1>1. Pow2 = Powers!Unending(0)
    BY DEF Pow2, Powers!Unending, Powers!Obeys, PowStart, PowStep
  <1>2. Powers!Obeys(Pow2, Nat, 0)
    BY <1>1, Powers!UnendingObeys
  <1> QED
    BY <1>2 DEF Powers!Obeys, PowStart, PowStep

LEMMA Pow2Positive == \A n \in Nat : Pow2[n] \in Nat \ {0}
  <1> DEFINE S == {n \in Nat : Pow2[n] \in Nat \ {0}}
  <1>1. 0 \in S /\ \A n \in Nat : n \in S => n + 1 \in S
    BY Pow2Defined
  <1> HIDE DEF S
  <1>2. \A n \in Nat : n \in S
    BY <1>1, SetInduction
  <1> QED
    BY <1>2 DEF S

LEMMA Pow2Sum == \A m, n \in Nat : Pow2[m + n] = Pow2[m] * Pow2[n]
  <1> SUFFICES ASSUME NEW m \in Nat PROVE \A n \in Nat : Pow2[m + n] = Pow2[m] * Pow2[n]
    OBVIOUS
  <1> DEFINE S == {n \in Nat : Pow2[m + n] = Pow2[m] * Pow2[n]}
  <1>1. 0 \in S
    BY Pow2Defined, Pow2Positive
  <1>2. ASSUME NEW n \in Nat, n \in S PROVE n + 1 \in S
    <2>1. Pow2[m + (n + 1)] = 2 * Pow2[m + n] /\ Pow2[n + 1] = 2 * Pow2[n]
      BY Pow2Defined
    <2>2. Pow2[m + n] = Pow2[m] * Pow2[n]
      BY <1>2
    <2>3. Pow2[m] \in Nat /\ Pow2[n] \in Nat
      BY Pow2Positive
    <2>4. 2 * (Pow2[m] * Pow2[n]) = Pow2[m] * (2 * Pow2[n])
      BY <2>3
    <2> QED
      BY <2>1, <2>2, <2>4
  <1> HIDE DEF S
  <1>3. \A n \in Nat : n \in S
    BY <1>1, <1>2, SetInduction
  <1> QED
    BY <1>3 DEF S

\* The low bits of the buffer have the byte that is taken out of it.
LEMMA ByteOfBuffer ==
    ASSUME NEW a \in Nat, NEW rest \in Nat, NEW size \in Nat, NEW width \in Nat,
           rest + size <= width
    PROVE  ((a % Pow2[width]) \div Pow2[rest]) % Pow2[size]
              = (a \div Pow2[rest]) % Pow2[size]
  <1> DEFINE R == Pow2[rest]
             E == Pow2[size]
             X == Pow2[width - (rest + size)]
             W == Pow2[width]
  <1>1. /\ R \in Nat \ {0} /\ E \in Nat \ {0} /\ X \in Nat \ {0} /\ W \in Nat \ {0}
        /\ W = R * (E * X)
    <2>1. width - (rest + size) \in Nat /\ (rest + size) + (width - (rest + size)) = width
      OBVIOUS
    <2>2. Pow2[rest + size] = R * E
      BY Pow2Sum
    <2>3. W = Pow2[rest + size] * X
      <3> DEFINE top == width - (rest + size)
                 both == rest + size
      <3>1. top \in Nat /\ both \in Nat /\ width = both + top
        OBVIOUS
      <3> HIDE DEF top, both
      <3>2. Pow2[both + top] = Pow2[both] * Pow2[top]
        BY <3>1, Pow2Sum
      <3> QED
        BY <3>1, <3>2 DEF top, both
    <2>4. R \in Nat \ {0} /\ E \in Nat \ {0} /\ X \in Nat \ {0} /\ W \in Nat \ {0}
      BY <2>1, Pow2Positive
    <2> HIDE DEF R, E, X, W
    <2> QED
      BY <2>2, <2>3, <2>4
  <1> HIDE DEF R, E, X, W
  <1> DEFINE low == a % W
             q == a \div W
             l == low \div R
             k == low % R
  <1>2. q \in Nat /\ low \in Nat /\ a = q * W + low
    <2>1. q \in Nat /\ low \in 0..(W - 1) /\ a = q * W + low
      BY <1>1, Divided
    <2> HIDE DEF q, low
    <2> QED
      BY <1>1, <2>1
  <1>3. l \in Nat /\ k \in 0..(R - 1) /\ low = l * R + k
    BY <1>1, <1>2, Divided
  <1> HIDE DEF low, q, l, k
  <1> DEFINE p == q * X
  <1>4. a = (p * E + l) * R + k /\ p \in Nat /\ p * E + l \in Nat
    <2>1. q * W = ((q * X) * E) * R /\ p \in Nat
      BY <1>1, <1>2
    <2> HIDE DEF p
    <2> QED
      BY <1>1, <1>2, <1>3, <2>1 DEF p
  <1> HIDE DEF p
  <1>5. a \div R = p * E + l
    BY <1>1, <1>3, <1>4, DivMod
  <1>6. (p * E + l) % E = l % E
    BY <1>1, <1>3, <1>4, ModShift
  <1> QED
    BY <1>5, <1>6 DEF l, low, R, E, W

----------------------------------------------------------------------------
(* decodeBase32.                                                            *)

DecodeStart(text) == [buffer |-> 0, bits |-> 0, result |-> <<>>, ended |-> FALSE]
DecodeStep(d, i, text) == DecodeChar(d, text[i])
Decodes == INSTANCE Recursion WITH Start <- DecodeStart, Step <- DecodeStep

\* One character after the other.
LEMMA DecodingDefined ==
    ASSUME NEW text, Len(text) \in Nat
    PROVE  /\ Decoding(text)[0] = DecodeStart(text)
           /\ \A i \in 1..Len(text) :
                 Decoding(text)[i] = DecodeChar(Decoding(text)[i - 1], text[i])
  <1> DEFINE f == Decoding(text)
  <1>1. f = Decodes!Loop(Len(text), text)
    BY DEF Decoding, Decodes!Loop, Decodes!Obeys, DecodeStart, DecodeStep
  <1> HIDE DEF f
  <1>2. f = [i \in 0..Len(text) |-> IF i = 0 THEN DecodeStart(text)
                                   ELSE DecodeStep(f[i - 1], i, text)]
    BY <1>1, Decodes!LoopObeys DEF Decodes!Obeys
  <1>3. f[0] = DecodeStart(text)
    BY <1>2
  <1>4. ASSUME NEW i \in 1..Len(text) PROVE f[i] = DecodeStep(f[i - 1], i, text)
    BY <1>2
  <1> QED
    BY <1>3, <1>4 DEF f, DecodeStep

LEMMA SizesAreNumbers ==
    /\ CharBits \in Nat \ {0} /\ ByteBits \in Nat \ {0}
    /\ HashBytes \in Nat \ {0} /\ BufferBits \in Nat \ {0}
    /\ Pow2[CharBits] \in Nat \ {0} /\ Pow2[ByteBits] \in Nat \ {0}
    /\ Pow2[BufferBits] \in Nat \ {0}
  BY SizesAssumption, Pow2Positive

\* What is decoded holds no more bits than were read.
IsDecoded(d, i) ==
    /\ d \in [buffer : Nat, bits : 0..(ByteBits - 1), result : Seq(Byte), ended : BOOLEAN]
    /\ Len(d.result) * ByteBits + d.bits <= i * CharBits

LEMMA PushedIsNumber ==
    ASSUME NEW buffer \in Nat, NEW c \in Chars, c # Pad, c # Other
    PROVE  Wrapped(Pushed(buffer, c)) \in Nat
  <1> DEFINE S == Pow2[CharBits]
             W == Pow2[BufferBits]
  <1>1. S \in Nat \ {0} /\ W \in Nat \ {0}
    BY SizesAreNumbers
  <1>2. c \in Nat
    BY <1>1 DEF Chars, Letters, Nul
  <1>3. Pushed(buffer, c) \in {buffer * S, buffer * S + c}
    BY DEF Pushed
  <1> HIDE DEF S, W
  <1>4. Pushed(buffer, c) \in Nat
    BY <1>1, <1>2, <1>3
  <1>5. Pushed(buffer, c) % W \in 0..(W - 1)
    BY <1>1, <1>4, Divided
  <1> QED
    BY <1>1, <1>5 DEF Wrapped, W

LEMMA DecodeCharTyped ==
    ASSUME NEW i \in Nat \ {0}, NEW d, IsDecoded(d, i - 1), NEW c \in Chars
    PROVE  IsDecoded(DecodeChar(d, c), i)
  <1> DEFINE C == CharBits
             B == ByteBits
             E == Pow2[ByteBits]
             n == Len(d.result)
             bits == d.bits + C
             buffer == Wrapped(Pushed(d.buffer, c))
  <1>1. C \in Nat \ {0} /\ B \in Nat \ {0} /\ E \in Nat \ {0} /\ C <= B
    BY SizesAreNumbers, SizesAssumption
  <1>2. /\ d \in [buffer : Nat, bits : 0..(B - 1), result : Seq(Byte), ended : BOOLEAN]
        /\ n \in Nat /\ n * B + d.bits <= (i - 1) * C
    BY LenProperties DEF IsDecoded
  <1>3. i * C = (i - 1) * C + C /\ (i - 1) * C \in Nat
    BY <1>1
  <1>4. CASE d.ended \/ c = Pad \/ c = Other
    <2> DEFINE e == DecodeChar(d, c)
               AnyDecoded == [buffer : Nat, bits : 0..(B - 1), result : Seq(Byte),
                              ended : BOOLEAN]
    <2>1. \/ e = d
          \/ e = [d EXCEPT !.ended = TRUE]
          \/ e = [d EXCEPT !.ended = TRUE, !.result = <<>>]
      BY <1>4 DEF DecodeChar
    <2> HIDE DEF e
    <2>2. /\ e \in AnyDecoded
          /\ e.bits = d.bits /\ e.result \in {d.result, <<>>}
      <3>1. d \in AnyDecoded /\ <<>> \in Seq(Byte)
        BY <1>2
      <3>2. CASE e = d
        BY <3>1, <3>2
      <3>3. CASE e = [d EXCEPT !.ended = TRUE]
        BY <3>1, <3>3
      <3>4. CASE e = [d EXCEPT !.ended = TRUE, !.result = <<>>]
        BY <3>1, <3>4
      <3> QED
        BY <2>1, <3>2, <3>3, <3>4
    <2>3. n * B + d.bits <= i * C /\ 0 * B + d.bits <= i * C
      <3>1. n * B \in Nat /\ 0 * B = 0 /\ d.bits \in Nat
        BY <1>1, <1>2
      <3> QED
        BY <1>1, <1>2, <1>3, <3>1
    <2>4. Len(e.result) \in {n, 0}
      BY <2>2
    <2>5. Len(e.result) * B + e.bits <= i * C
      BY <2>2, <2>3, <2>4
    <2> QED
      BY <2>2, <2>5 DEF IsDecoded, e
  <1>5. CASE ~(d.ended \/ c = Pad \/ c = Other)
    <2>1. buffer \in Nat
      BY <1>2, <1>5, PushedIsNumber
    <2>2. bits \in Nat /\ n * B + bits <= i * C /\ bits - B < B
      BY <1>1, <1>2, <1>3
    <2> HIDE DEF buffer
    <2>3. CASE bits < B
      <3>1. DecodeChar(d, c) = [d EXCEPT !.buffer = buffer, !.bits = bits]
        BY <1>5, <2>3 DEF DecodeChar, buffer
      <3>2. bits \in 0..(B - 1)
        BY <1>1, <2>2, <2>3
      <3> HIDE DEF bits
      <3> QED
        BY <1>2, <2>1, <2>2, <3>1, <3>2 DEF IsDecoded
    <2>4. CASE ~(bits < B)
      <3> DEFINE rest == bits - B
                 byte == (buffer \div Pow2[rest]) % E
                 result == Append(d.result, byte)
      <3>1. DecodeChar(d, c) = [d EXCEPT !.buffer = buffer, !.bits = rest,
                                         !.result = result]
        BY <1>5, <2>4 DEF DecodeChar, buffer
      <3>2. rest \in 0..(B - 1)
        BY <1>1, <2>2, <2>4
      <3>3. byte \in Byte
        <4>1. Pow2[rest] \in Nat \ {0}
          BY <3>2, Pow2Positive
        <4>2. buffer \div Pow2[rest] \in Nat
          BY <2>1, <4>1, Divided
        <4> QED
          BY <1>1, <4>2, Divided DEF Byte
      <3> HIDE DEF byte
      <3>4. result \in Seq(Byte) /\ Len(result) = n + 1
        BY <1>2, <3>3, AppendProperties
      <3>5. (n + 1) * B + rest = n * B + bits
        BY <1>1, <1>2, <2>2
      <3> HIDE DEF result, rest
      <3>6. Len(result) * B + rest <= i * C
        BY <2>2, <3>4, <3>5
      <3> QED
        BY <1>2, <2>1, <3>1, <3>2, <3>4, <3>6 DEF IsDecoded
    <2> QED
      BY <2>3, <2>4
  <1> QED
    BY <1>4, <1>5

LEMMA DecodingTyped ==
    ASSUME NEW text \in Seq(Chars)
    PROVE  \A i \in 0..Len(text) : IsDecoded(Decoding(text)[i], i)
  <1> DEFINE n == Len(text)
             f == Decoding(text)
             Good(i) == IsDecoded(f[i], i)
             S == {i \in 0..n : Good(i)}
  <1>1. n \in Nat /\ \A i \in 1..n : text[i] \in Chars
    BY LenProperties, ElementOfSeq
  <1>2. /\ f[0] = DecodeStart(text)
        /\ \A i \in 1..n : f[i] = DecodeChar(f[i - 1], text[i])
    BY <1>1, DecodingDefined
  <1> HIDE DEF n, f
  <1>3. Good(0)
    BY <1>2, SizesAreNumbers DEF IsDecoded, DecodeStart
  <1>4. ASSUME NEW i \in 1..n, Good(i - 1) PROVE Good(i)
    BY <1>1, <1>2, <1>4, DecodeCharTyped
  <1> HIDE DEF Good
  <1>5. 0 \in S /\ \A i \in 1..n : i - 1 \in S => i \in S
    BY <1>1, <1>3, <1>4
  <1> HIDE DEF S
  <1>6. \A i \in 0..n : i \in S
    BY <1>1, <1>5, LoopInduction
  <1> QED
    BY <1>6 DEF S, Good, f, n

\* A text of TextLength characters has the bits of a hash.
LEMMA TextHasBits ==
    TextLength \in Nat /\ TextLength * CharBits = HashBytes * ByteBits
  <1> DEFINE all == HashBytes * ByteBits
  <1>1. all \in Nat /\ all % CharBits = 0
    BY SizesAreNumbers, SizesAssumption
  <1> HIDE DEF all
  <1>2. /\ all \div CharBits \in Nat
        /\ all = (all \div CharBits) * CharBits + (all % CharBits)
    BY <1>1, SizesAreNumbers, Divided
  <1>3. all = (all \div CharBits) * CharBits
    BY <1>1, <1>2, SizesAreNumbers
  <1> QED
    BY <1>2, <1>3 DEF TextLength, all

(* decodeBase32 returns no more bytes than three hashes have, of a text     *)
(* that toUpper has made longer.                                            *)
LEMMA DecodedFits ==
    ASSUME NEW text \in UpperTexts
    PROVE  DecodeBase32(text) \in Hashes
  <1> DEFINE n == Len(text)
             d == Decoding(text)[n]
             T == TextLength
             size == HashBytes * ByteBits
  <1>1. text \in Seq(Chars) /\ n \in Nat /\ n <= 3 * T
    BY TextHasBits, LenProperties DEF UpperTexts
  <1>2. IsDecoded(d, n)
    BY <1>1, DecodingTyped
  <1>3. DecodeBase32(text) = d.result
    BY DEF DecodeBase32
  <1> HIDE DEF d, n
  <1> DEFINE l == Len(d.result)
  <1>4. /\ d.result \in Seq(Byte) /\ d.bits \in Nat /\ l \in Nat
        /\ l * ByteBits + d.bits <= n * CharBits
    BY <1>2, LenProperties, SizesAreNumbers DEF IsDecoded
  <1>5. n * CharBits <= (3 * HashBytes) * ByteBits
    <2>1. T \in Nat /\ T * CharBits = size /\ size \in Nat
      BY TextHasBits, SizesAreNumbers
    <2>2. n * CharBits <= (3 * T) * CharBits /\ (3 * T) * CharBits = 3 * (T * CharBits)
      BY <1>1, <2>1, SizesAreNumbers
    <2>3. (3 * HashBytes) * ByteBits = 3 * size
      BY SizesAreNumbers
    <2> HIDE DEF T, size
    <2> QED
      BY <2>1, <2>2, <2>3
  <1>6. l * ByteBits <= (3 * HashBytes) * ByteBits
    <2> DEFINE x == l * ByteBits
               y == n * CharBits
               z == (3 * HashBytes) * ByteBits
    <2>1. x \in Nat /\ y \in Nat /\ z \in Nat /\ x + d.bits <= y /\ y <= z
      BY <1>1, <1>4, <1>5, SizesAreNumbers
    <2> HIDE DEF x, y, z, l
    <2>2. x <= z
      BY <1>4, <2>1
    <2> QED
      BY <2>2 DEF x, z
  <1>7. l <= 3 * HashBytes
    <2> DEFINE three == 3 * HashBytes
    <2>1. three \in Nat /\ ByteBits \in Nat \ {0}
      BY SizesAreNumbers
    <2> HIDE DEF three, l
    <2>2. l <= three
      BY <1>4, <1>6, <2>1, Cancel DEF three
    <2> QED
      BY <2>2 DEF three
  <1> QED
    BY <1>3, <1>4, <1>7 DEF Hashes

----------------------------------------------------------------------------
(* The digits of a hash.                                                    *)

LEMMA HalvesOfBytes ==
    ASSUME NEW byte \in Byte
    PROVE  LET half == Pow2[ByteBits \div 2]
           IN  byte \div half \in Digit /\ byte % half \in Digit
  <1> DEFINE h == ByteBits \div 2
             H == Pow2[h]
             q == byte \div H
             r == byte % H
  <1>1. h \in Nat /\ ByteBits = h + h
    BY SizesAreNumbers, DigitsAssumption
  <1> HIDE DEF h
  <1>2. H \in Nat \ {0} /\ Pow2[ByteBits] = H * H
    BY <1>1, Pow2Sum, Pow2Positive
  <1>3. byte \in Nat /\ byte < H * H
    BY <1>2 DEF Byte
  <1> HIDE DEF H
  <1>4. q \in Nat /\ r \in 0..(H - 1) /\ byte = q * H + r
    BY <1>2, <1>3, Divided
  <1> HIDE DEF q, r
  <1>5. q < H
    <2> SUFFICES ASSUME H <= q PROVE FALSE
      BY <1>2, <1>4
    <2>1. H * H <= q * H
      BY <1>2, <1>4
    <2> QED
      BY <1>2, <1>3, <1>4, <2>1
  <1>6. q \in 0..(H - 1)
    BY <1>2, <1>4, <1>5
  <1> QED
    BY <1>4, <1>6 DEF Digit, q, r, H, h

LEMMA HexDigitsTyped ==
    ASSUME NEW hash \in Seq(Byte), 2 * Len(hash) = TextLength
    PROVE  HexDigits(hash) \in UpperTexts
  <1> DEFINE n == Len(hash)
             half == Pow2[ByteBits \div 2]
             char(i) == LET byte == hash[(i + 1) \div 2]
                        IN  DigitChar[IF i % 2 = 1 THEN byte \div half ELSE byte % half]
             text == [i \in 1..(2 * n) |-> char(i)]
  <1>1. n \in Nat /\ \A i \in 1..n : hash[i] \in Byte
    BY LenProperties, ElementOfSeq
  <1>2. ASSUME NEW i \in 1..(2 * n) PROVE char(i) \in Chars
    <2> DEFINE byte == hash[(i + 1) \div 2]
    <2>1. (i + 1) \div 2 \in 1..n
      BY <1>1
    <2>2. byte \in Byte
      BY <1>1, <2>1
    <2> HIDE DEF byte, half
    <2>3. byte \div half \in Digit /\ byte % half \in Digit
      BY <2>2, HalvesOfBytes DEF half
    <2>4. \A d \in Digit : DigitChar[d] \in Chars
      BY DigitsAssumption DEF Chars
    <2> QED
      BY <2>3, <2>4 DEF byte
  <1> HIDE DEF char
  <1>3. text \in Seq(Chars) /\ Len(text) = 2 * n
    BY <1>1, <1>2
  <1>4. HexDigits(hash) = text
    BY DEF HexDigits, char
  <1> HIDE DEF text
  <1> QED
    BY <1>3, <1>4, TextHasBits DEF UpperTexts

\* What is written for a hash can be read.
LEMMA HexTopicTyped ==
    ASSUME NEW hash \in Hashes
    PROVE  HexTopic(hash) \in AnyTopic
  <1>1. hash \in Seq(Byte)
    BY DEF Hashes
  <1>2. CASE IsHash(hash)
    <2>1. hash \in HexHashes
      BY <1>1, <1>2, SizesAreNumbers DEF HexHashes, IsHash
    <2> QED
      BY <1>2, <2>1 DEF HexTopic, AnyTopic
  <1>3. CASE ~IsHash(hash) /\ 2 * Len(hash) = TextLength
    BY <1>1, <1>3, HexDigitsTyped DEF HexTopic, AnyTopic
  <1>4. CASE ~IsHash(hash) /\ 2 * Len(hash) # TextLength
    BY <1>4 DEF HexTopic, AnyTopic
  <1> QED
    BY <1>2, <1>3, <1>4

----------------------------------------------------------------------------
(* What a text stands for.                                                  *)

NumberStart(text) == 0
NumberStep(n, i, text) == n * Pow2[CharBits] + text[i]
Numbers == INSTANCE Recursion WITH Start <- NumberStart, Step <- NumberStep

LEMMA NumberDefined ==
    ASSUME NEW text, Len(text) \in Nat
    PROVE  /\ NumberOf(text)[0] = 0
           /\ \A i \in 1..Len(text) :
                 NumberOf(text)[i] = NumberOf(text)[i - 1] * Pow2[CharBits] + text[i]
  <1> DEFINE f == NumberOf(text)
  <1>1. f = Numbers!Loop(Len(text), text)
    BY DEF NumberOf, Numbers!Loop, Numbers!Obeys, NumberStart, NumberStep
  <1> HIDE DEF f
  <1>2. f = [i \in 0..Len(text) |-> IF i = 0 THEN NumberStart(text)
                                   ELSE NumberStep(f[i - 1], i, text)]
    BY <1>1, Numbers!LoopObeys DEF Numbers!Obeys
  <1>3. f[0] = 0
    BY <1>2 DEF NumberStart
  <1>4. ASSUME NEW i \in 1..Len(text) PROVE f[i] = NumberStep(f[i - 1], i, text)
    BY <1>2
  <1> QED
    BY <1>3, <1>4 DEF f, NumberStep

\* The bits of byte k among those of the first i characters.
ByteAt(number, i, k) ==
    (number \div Pow2[i * CharBits - k * ByteBits]) % Pow2[ByteBits]

\* After i letters, which are the digits of number, decoding holds all of
\* its bits: those of the bytes, and the others in the buffer.
DecodesNumber(d, i, number) ==
    /\ d \in [buffer : Nat, bits : 0..(ByteBits - 1), result : Seq(Byte), ended : {FALSE}]
    /\ Len(d.result) * ByteBits + d.bits = i * CharBits
    /\ d.buffer = number % Pow2[BufferBits]
    /\ \A k \in 1..Len(d.result) :
          /\ k * ByteBits <= i * CharBits
          /\ d.result[k] = ByteAt(number, i, k)

\* The buffer loses high bits only.
LEMMA BufferIsLowBits ==
    ASSUME NEW number \in Nat, NEW c \in Letters, NEW buffer,
           buffer = number % Pow2[BufferBits]
    PROVE  Wrapped(Pushed(buffer, c)) = (number * Pow2[CharBits] + c) % Pow2[BufferBits]
  <1> DEFINE S == Pow2[CharBits]
             W == Pow2[BufferBits]
             q == number \div W
             x == buffer * S + c
             p == q * S
  <1>1. S \in Nat \ {0} /\ W \in Nat \ {0} /\ c \in Nat /\ c # Nul
    BY SizesAreNumbers DEF Letters, Nul
  <1>2. Pushed(buffer, c) = x
    BY <1>1 DEF Pushed
  <1> HIDE DEF S, W
  <1>3. q \in Nat /\ buffer \in 0..(W - 1) /\ number = q * W + buffer
    BY <1>1, Divided DEF W
  <1> HIDE DEF q
  <1>4. x \in Nat /\ p \in Nat /\ number * S + c = p * W + x
    <2>1. (q * W + buffer) * S = (q * S) * W + buffer * S
      BY <1>1, <1>3
    <2> QED
      BY <1>1, <1>3, <2>1
  <1> HIDE DEF x, p
  <1>5. (p * W + x) % W = x % W
    BY <1>1, <1>4, ModShift
  <1> QED
    BY <1>2, <1>4, <1>5 DEF Wrapped, S, W

\* A byte stays what it is when another letter is read.
LEMMA BytesStay ==
    ASSUME NEW number \in Nat, NEW c \in Letters, NEW i \in Nat \ {0}, NEW k \in Nat,
           k * ByteBits <= (i - 1) * CharBits
    PROVE  /\ k * ByteBits <= i * CharBits
           /\ ByteAt(number * Pow2[CharBits] + c, i, k) = ByteAt(number, i - 1, k)
  <1> DEFINE C == CharBits
             B == ByteBits
             S == Pow2[C]
             t == (i - 1) * C - k * B
             T == Pow2[t]
             more == number * S + c
  <1>1. /\ C \in Nat /\ B \in Nat /\ (i - 1) * C \in Nat /\ k * B \in Nat
        /\ i * C = (i - 1) * C + C
    BY SizesAreNumbers
  <1>2. t \in Nat /\ i * C - k * B = C + t /\ k * B <= i * C
    BY <1>1
  <1>3. S \in Nat \ {0} /\ T \in Nat \ {0} /\ Pow2[C + t] = S * T
    <2> HIDE DEF t, C
    <2> QED
      BY <1>1, <1>2, Pow2Sum, Pow2Positive
  <1>4. c \in 0..(S - 1)
    BY DEF Letters
  <1> HIDE DEF S, T
  <1>5. more \in Nat /\ more \div S = number
    <2>1. more \div S = number
      BY <1>3, <1>4, DivMod
    <2> QED
      BY <1>3, <1>4, <2>1
  <1> HIDE DEF more
  <1>6. more \div (S * T) = number \div T
    BY <1>3, <1>5, DivDiv
  <1> QED
    BY <1>2, <1>3, <1>6 DEF ByteAt, S, T, more

LEMMA LetterDecodes ==
    ASSUME NEW number \in Nat, NEW c \in Letters, NEW i \in Nat \ {0},
           NEW d, DecodesNumber(d, i - 1, number)
    PROVE  DecodesNumber(DecodeChar(d, c), i, number * Pow2[CharBits] + c)
  <1> DEFINE C == CharBits
             B == ByteBits
             more == number * Pow2[CharBits] + c
             n == Len(d.result)
             bits == d.bits + C
             buffer == Wrapped(Pushed(d.buffer, c))
             e == DecodeChar(d, c)
  <1>1. /\ C \in Nat \ {0} /\ B \in Nat \ {0} /\ C <= B /\ C + B <= BufferBits
        /\ BufferBits \in Nat
    BY SizesAreNumbers, SizesAssumption
  <1>2. /\ d \in [buffer : Nat, bits : 0..(B - 1), result : Seq(Byte), ended : {FALSE}]
        /\ n \in Nat /\ n * B + d.bits = (i - 1) * C
    BY LenProperties DEF DecodesNumber
  <1>3. c \in Nat /\ c # Pad /\ c # Other /\ more \in Nat
    BY SizesAreNumbers DEF Letters, Pad, Other
  <1>4. /\ buffer = more % Pow2[BufferBits]
        /\ buffer \in Nat
    <2>1. buffer = more % Pow2[BufferBits]
      BY BufferIsLowBits DEF DecodesNumber
    <2> DEFINE W == Pow2[BufferBits]
    <2>2. W \in Nat \ {0}
      BY SizesAreNumbers
    <2> HIDE DEF W, more, buffer
    <2>3. more % W \in 0..(W - 1)
      BY <1>3, <2>2, Divided
    <2>4. more % W \in Nat
      BY <2>2, <2>3
    <2> QED
      BY <2>1, <2>4 DEF W
  <1>5. bits \in Nat /\ n * B + bits = i * C /\ bits - B < C
    <2> DEFINE old == d.bits
               nB == n * B
               before == (i - 1) * C
               now == i * C
    <2>1. now = before + C /\ nB \in Nat /\ before \in Nat
      BY <1>1, <1>2
    <2>2. old \in 0..(B - 1) /\ nB + old = before
      BY <1>2
    <2> HIDE DEF nB, before, now, old
    <2>3. old + C \in Nat /\ nB + (old + C) = now /\ (old + C) - B < C
      BY <1>1, <2>1, <2>2
    <2> QED
      BY <2>3 DEF nB, before, now, old
  <1>6. \A k \in 1..n : k * B <= i * C /\ d.result[k] = ByteAt(more, i, k)
    BY <1>2, BytesStay DEF DecodesNumber
  <1> HIDE DEF buffer, more, e
  <1>7. CASE bits < B
    <2>1. e = [d EXCEPT !.buffer = buffer, !.bits = bits]
      BY <1>2, <1>3, <1>7 DEF DecodeChar, buffer, e
    <2>2. bits \in 0..(B - 1)
      BY <1>1, <1>5, <1>7
    <2> HIDE DEF bits
    <2>3. /\ e \in [buffer : Nat, bits : 0..(B - 1), result : Seq(Byte), ended : {FALSE}]
          /\ e.result = d.result /\ e.bits = bits /\ e.buffer = buffer
      BY <1>2, <1>4, <2>1, <2>2
    <2> QED
      BY <1>4, <1>5, <1>6, <2>3, Zenon DEF DecodesNumber, e, more
  <1>8. CASE ~(bits < B)
    <2> DEFINE rest == bits - B
               byte == (buffer \div Pow2[rest]) % Pow2[B]
               result == Append(d.result, byte)
    <2>1. e = [d EXCEPT !.buffer = buffer, !.bits = rest, !.result = result]
      BY <1>2, <1>3, <1>8 DEF DecodeChar, buffer, e
    <2>2. /\ rest \in 0..(B - 1) /\ rest + B <= BufferBits
          /\ (n + 1) * B + rest = i * C
      <3>1. (n + 1) * B = n * B + B /\ n * B \in Nat
        BY <1>1, <1>2
      <3> QED
        BY <1>1, <1>5, <1>8, <3>1
    <2> HIDE DEF rest
    <2>3. i * C - (n + 1) * B = rest /\ (n + 1) * B <= i * C
      <3>1. (n + 1) * B \in Nat
        BY <1>1, <1>2
      <3> QED
        BY <2>2, <3>1
    <2>4. byte = ByteAt(more, i, n + 1)
      <3>1. byte = ((more % Pow2[BufferBits]) \div Pow2[rest]) % Pow2[B]
        BY <1>4
      <3>2. byte = (more \div Pow2[rest]) % Pow2[B]
        BY <1>1, <1>3, <2>2, <3>1, ByteOfBuffer DEF more
      <3> QED
        BY <2>3, <3>2 DEF ByteAt
    <2>5. byte \in Byte
      <3>1. Pow2[rest] \in Nat \ {0} /\ Pow2[B] \in Nat \ {0}
        BY <1>1, <2>2, Pow2Positive
      <3>2. buffer \div Pow2[rest] \in Nat
        BY <1>4, <3>1, Divided
      <3> QED
        BY <3>1, <3>2, Divided DEF Byte
    <2> HIDE DEF byte
    <2>6. /\ result \in Seq(Byte) /\ Len(result) = n + 1
          /\ \A k \in 1..n : result[k] = d.result[k]
          /\ result[n + 1] = byte
      BY <1>2, <2>5, AppendProperties
    <2> HIDE DEF result
    <2>7. /\ e \in [buffer : Nat, bits : 0..(B - 1), result : Seq(Byte), ended : {FALSE}]
          /\ e.result = result /\ e.bits = rest /\ e.buffer = buffer
      BY <1>2, <1>4, <2>1, <2>2, <2>6
    <2>8. ASSUME NEW k \in 1..(n + 1)
          PROVE  k * B <= i * C /\ result[k] = ByteAt(more, i, k)
      <3>1. CASE k = n + 1
        BY <2>3, <2>4, <2>6, <3>1
      <3>2. CASE k # n + 1
        <4>1. k \in 1..n
          BY <1>2, <3>2
        <4> QED
          BY <1>6, <2>6, <4>1
      <3> QED
        BY <3>1, <3>2
    <2>9. Len(result) * B + rest = i * C
      BY <2>2, <2>6
    <2> QED
      BY <1>4, <2>6, <2>7, <2>8, <2>9 DEF DecodesNumber, e, more
  <1> QED
    BY <1>7, <1>8

\* Letters first: what is decoded has all of the number's bits.
LEMMA LettersDecode ==
    ASSUME NEW text \in Seq(Chars), NEW n \in 0..Len(text), Plain(text, n)
    PROVE  DecodesNumber(Decoding(text)[n], n, NumberOf(text)[n])
  <1> DEFINE f == Decoding(text)
             g == NumberOf(text)
             Good(i) == g[i] \in Nat /\ DecodesNumber(f[i], i, g[i])
             S == {i \in 0..n : Good(i)}
  <1>1. /\ Len(text) \in Nat /\ n \in Nat /\ n <= Len(text)
        /\ \A i \in 1..n : i \in 1..Len(text) /\ text[i] \in Letters
    BY LenProperties DEF Plain
  <1>2. /\ f[0] = DecodeStart(text) /\ g[0] = 0
        /\ \A i \in 1..n : /\ f[i] = DecodeChar(f[i - 1], text[i])
                           /\ g[i] = g[i - 1] * Pow2[CharBits] + text[i]
    BY <1>1, DecodingDefined, NumberDefined
  <1> HIDE DEF f, g
  <1>3. Good(0)
    <2>1. 0 % Pow2[BufferBits] = 0 /\ 0 \in 0..(ByteBits - 1)
      BY SizesAreNumbers
    <2>2. 0 * ByteBits + 0 = 0 * CharBits
      BY SizesAreNumbers
    <2>3. DecodesNumber(DecodeStart(text), 0, 0)
      BY <2>1, <2>2 DEF DecodesNumber, DecodeStart
    <2> QED
      BY <1>2, <2>3
  <1>4. ASSUME NEW i \in 1..n, Good(i - 1) PROVE Good(i)
    <2>1. i \in Nat \ {0} /\ text[i] \in Letters /\ text[i] \in Nat
      BY <1>1 DEF Letters
    <2>2. g[i] \in Nat
      <3> DEFINE a == g[i - 1]
                 x == Pow2[CharBits]
                 c == text[i]
      <3>1. a \in Nat /\ x \in Nat /\ c \in Nat /\ g[i] = a * x + c
        BY <1>2, <1>4, <2>1, SizesAreNumbers
      <3> HIDE DEF a, x, c
      <3> QED
        BY <3>1
    <2>3. DecodesNumber(DecodeChar(f[i - 1], text[i]), i,
                        g[i - 1] * Pow2[CharBits] + text[i])
      BY <1>4, <2>1, LetterDecodes
    <2> QED
      BY <1>2, <2>2, <2>3
  <1> HIDE DEF Good
  <1>5. 0 \in S /\ \A i \in 1..n : i - 1 \in S => i \in S
    BY <1>1, <1>3, <1>4
  <1> HIDE DEF S
  <1>6. \A i \in 0..n : i \in S
    BY <1>1, <1>5, LoopInduction
  <1> QED
    BY <1>1, <1>6 DEF S, Good, f, g

\* Padding last: nothing of what is decoded changes.
LEMMA PaddingKeeps ==
    ASSUME NEW text \in Seq(Chars), NEW n \in 0..Len(text), Plain(text, n)
    PROVE  DecodeBase32(text) = Decoding(text)[n].result
  <1> DEFINE f == Decoding(text)
             m == Len(text)
             Good(i) == i >= n => f[i].result = f[n].result
             S == {i \in 0..m : Good(i)}
  <1>1. /\ m \in Nat /\ n \in Nat /\ n <= m /\ DOMAIN text = 1..m
        /\ \A i \in 1..m : i > n => text[i] = Pad
    BY LenProperties DEF Plain
  <1>2. \A i \in 1..m : f[i] = DecodeChar(f[i - 1], text[i])
    BY <1>1, DecodingDefined
  <1>3. \A i \in 0..m : IsDecoded(f[i], i)
    BY DecodingTyped
  <1> HIDE DEF f, m
  <1>4. Good(0)
    BY <1>1
  <1>5. ASSUME NEW i \in 1..m, Good(i - 1) PROVE Good(i)
    <2> SUFFICES ASSUME i > n PROVE f[i].result = f[n].result
      BY <1>1
    <2>1. i - 1 \in 0..m /\ i - 1 >= n /\ text[i] = Pad
      BY <1>1
    <2>2. /\ f[i] = DecodeChar(f[i - 1], Pad)
          /\ IsDecoded(f[i - 1], i - 1)
          /\ f[i - 1].result = f[n].result
      BY <1>2, <1>3, <1>5, <2>1
    <2> DEFINE d == f[i - 1]
               e == f[i]
    <2> HIDE DEF d, e
    <2>3. e = d \/ e = [d EXCEPT !.ended = TRUE]
      BY <2>2 DEF DecodeChar, Pad, Other, d, e
    <2>4. e.result = d.result
      BY <2>2, <2>3 DEF IsDecoded, d
    <2> QED
      BY <2>2, <2>4 DEF d, e
  <1> HIDE DEF Good
  <1>6. 0 \in S /\ \A i \in 1..m : i - 1 \in S => i \in S
    BY <1>1, <1>4, <1>5
  <1> HIDE DEF S
  <1>7. \A i \in 0..m : i \in S
    BY <1>1, <1>6, LoopInduction
  <1> QED
    BY <1>1, <1>7 DEF S, Good, f, m, DecodeBase32

(* decodeBase32 gives the bytes of the number whose digits the letters are, *)
(* though the number does not fit its buffer.                               *)
LEMMA TextDecodesExactly ==
    ASSUME NEW text \in Seq(Chars), NEW n \in 0..Len(text), Plain(text, n)
    PROVE  DecodeBase32(text) = Exact(text, n)
  <1> DEFINE d == Decoding(text)[n]
             r == d.result
             l == Len(r)
             rest == d.bits
             number == NumberOf(text)[n]
             C == CharBits
             B == ByteBits
             nC == n * C
  <1>1. /\ r \in Seq(Byte) /\ l \in Nat /\ rest \in 0..(B - 1)
        /\ l * B + rest = nC
        /\ \A k \in 1..l : r[k] = ByteAt(number, n, k)
    BY LettersDecode, LenProperties DEF DecodesNumber
  <1>2. DecodeBase32(text) = r
    BY PaddingKeeps
  <1>3. B \in Nat \ {0}
    BY SizesAreNumbers
  <1> HIDE DEF r, rest, number, nC
  <1>4. nC \div B = l
    BY <1>1, <1>3, DivMod
  <1>5. r = [k \in 1..l |-> r[k]]
    BY <1>1, LenProperties
  <1>6. r = [k \in 1..l |-> ByteAt(number, n, k)]
    BY <1>1, <1>5
  <1> QED
    BY <1>2, <1>4, <1>6 DEF Exact, ByteAt, number, nC

----------------------------------------------------------------------------
(* Reading a URI.                                                           *)

ParsingStart(uri) == NoLink
ParsingStep(l, i, uri) == ReadItem(l, uri[i])
Parses == INSTANCE Recursion WITH Start <- ParsingStart, Step <- ParsingStep

\* One item after the other.
LEMMA ParsingDefined ==
    ASSUME NEW uri, Len(uri) \in Nat
    PROVE  /\ Parsing(uri)[0] = NoLink
           /\ \A i \in 1..Len(uri) :
                 Parsing(uri)[i] = ReadItem(Parsing(uri)[i - 1], uri[i])
  <1> DEFINE f == Parsing(uri)
  <1>1. f = Parses!Loop(Len(uri), uri)
    BY DEF Parsing, Parses!Loop, Parses!Obeys, ParsingStart, ParsingStep
  <1> HIDE DEF f
  <1>2. f = [i \in 0..Len(uri) |-> IF i = 0 THEN ParsingStart(uri)
                                  ELSE ParsingStep(f[i - 1], i, uri)]
    BY <1>1, Parses!LoopObeys DEF Parses!Obeys
  <1>3. f[0] = NoLink
    BY <1>2 DEF ParsingStart
  <1>4. ASSUME NEW i \in 1..Len(uri) PROVE f[i] = ParsingStep(f[i - 1], i, uri)
    BY <1>2
  <1> QED
    BY <1>3, <1>4 DEF f, ParsingStep

LEMMA ItemKinds ==
    ASSUME NEW item \in Items
    PROVE  \/ item.key = "xt" /\ item.topic \in AnyTopic
           \/ item.key = "dn" /\ item.name \in DisplayNames
           \/ item.key = "tr" /\ item.tracker \in Trackers
           \/ item.key = "xl" /\ item.length \in Lengths
  BY DEF Items

LEMMA HashAfterFits ==
    ASSUME NEW l \in AnyLink, NEW topic \in AnyTopic
    PROVE  HashAfter(l, topic) \in Hashes
  <1>1. l.hash \in Hashes
    BY DEF AnyLink
  <1>2. CASE topic.form = "hex"
    <2>1. topic.hash \in HexHashes
      BY <1>2 DEF AnyTopic
    <2>2. topic.hash \in Hashes
      BY <2>1, LenProperties, SizesAreNumbers DEF HexHashes, Hashes
    <2> QED
      BY <1>2, <2>2 DEF HashAfter
  <1>3. CASE topic.form = "base32"
    <2>1. topic.text \in UpperTexts
      BY <1>3 DEF AnyTopic
    <2> QED
      BY <1>3, <2>1, DecodedFits DEF HashAfter
  <1>4. CASE topic.form = "other"
    BY <1>1, <1>4 DEF HashAfter
  <1> QED
    BY <1>2, <1>3, <1>4 DEF AnyTopic

LEMMA ReadItemTyped ==
    ASSUME NEW l \in AnyLink, NEW item \in Items
    PROVE  ReadItem(l, item) \in AnyLink
  <1>1. CASE item.key = "xt" /\ item.topic \in AnyTopic
    <2> DEFINE hash == HashAfter(l, item.topic)
    <2>1. hash \in Hashes
      BY <1>1, HashAfterFits
    <2> HIDE DEF hash
    <2>2. ReadItem(l, item) = [l EXCEPT !.hash = hash, !.valid = @ \/ IsHash(hash)]
      BY <1>1 DEF ReadItem, ReadTopic, hash
    <2>3. (l.valid \/ IsHash(hash)) \in BOOLEAN
      OBVIOUS
    <2> QED
      BY <2>1, <2>2, <2>3 DEF AnyLink
  <1>2. CASE item.key = "dn" /\ item.name \in DisplayNames
    BY <1>2 DEF ReadItem, AnyLink
  <1>3. CASE item.key = "tr" /\ item.tracker \in Trackers
    <2>1. Append(l.trackers, item.tracker) \in Seq(Trackers)
      BY <1>3, AppendProperties DEF AnyLink
    <2>2. ReadItem(l, item) = [l EXCEPT !.trackers = Append(l.trackers, item.tracker)]
      BY <1>3 DEF ReadItem
    <2> QED
      BY <2>1, <2>2 DEF AnyLink
  <1>4. CASE item.key = "xl" /\ item.length \in Lengths
    BY <1>4 DEF ReadItem, AnyLink
  <1> QED
    BY <1>1, <1>2, <1>3, <1>4, ItemKinds

LEMMA NoLinkTyped == NoLink \in AnyLink
  BY NoNameAssumption, SizesAssumption DEF NoLink, AnyLink, Hashes

LEMMA ParsingTyped ==
    ASSUME NEW uri \in Seq(Items)
    PROVE  \A i \in 0..Len(uri) : Parsing(uri)[i] \in AnyLink
  <1> DEFINE n == Len(uri)
             f == Parsing(uri)
             S == {i \in 0..n : f[i] \in AnyLink}
  <1>1. n \in Nat /\ \A i \in 1..n : uri[i] \in Items
    BY LenProperties, ElementOfSeq
  <1>2. f[0] = NoLink /\ \A i \in 1..n : f[i] = ReadItem(f[i - 1], uri[i])
    BY <1>1, ParsingDefined
  <1> HIDE DEF n, f
  <1>3. 0 \in S /\ \A i \in 1..n : i - 1 \in S => i \in S
    BY <1>1, <1>2, NoLinkTyped, ReadItemTyped
  <1> HIDE DEF S
  <1>4. \A i \in 0..n : i \in S
    BY <1>1, <1>3, LoopInduction
  <1> QED
    BY <1>4 DEF S, f, n

LEMMA ParseLinkTyped ==
    ASSUME NEW uri \in Seq(Items)
    PROVE  ParseLink(uri) \in AnyLink
  BY ParsingTyped, LenProperties DEF ParseLink

\* A hash is not empty.
LEMMA EmptyIsNoHash == ~IsHash(<<>>)
  BY SizesAssumption DEF IsHash

LEMMA TopicsAreFinite ==
    ASSUME NEW uri \in Seq(Items)
    PROVE  IsFiniteSet(Topics(uri)) /\ Cardinality(Topics(uri)) \in Nat
  <1> DEFINE places == {j \in DOMAIN uri : uri[j].key = "xt"}
             topics == {uri[i].topic : i \in places}
             topicAt == [i \in places |-> uri[i].topic]
  <1>1. IsFiniteSet(places)
    <2>1. IsFiniteSet(DOMAIN uri)
      BY LenProperties, FS_Interval
    <2> QED
      BY <2>1, FS_Subset
  <1>2. topicAt \in Surjection(places, topics)
    BY DEF Surjection
  <1>3. Topics(uri) = topics
    BY DEF Topics
  <1> HIDE DEF places, topicAt, topics
  <1>4. IsFiniteSet(topics)
    BY <1>1, <1>2, FS_Surjection
  <1> QED
    BY <1>3, <1>4, FS_CardinalityType

(* A link that says it is valid has its hash, unless its URI has several    *)
(* topics: the last of them that is read leaves its hash, however short.    *)
LEMMA ValidAfterParsing ==
    ASSUME NEW uri \in Seq(Items), ParseLink(uri).valid
    PROVE  IsHash(ParseLink(uri).hash) \/ Cardinality(Topics(uri)) > 1
  <1> SUFFICES ASSUME ~(Cardinality(Topics(uri)) > 1) PROVE IsHash(ParseLink(uri).hash)
    OBVIOUS
  <1> DEFINE n == Len(uri)
             f == Parsing(uri)
  <1>1. PICK t : \A s \in Topics(uri) : s = t
    <2>1. Cardinality(Topics(uri)) = 0 \/ Cardinality(Topics(uri)) = 1
      BY TopicsAreFinite
    <2>2. CASE Cardinality(Topics(uri)) = 0
      BY <2>2, TopicsAreFinite, FS_EmptySet
    <2>3. CASE Cardinality(Topics(uri)) = 1
      BY <2>3, TopicsAreFinite, FS_Singleton
    <2> QED
      BY <2>1, <2>2, <2>3
  <1>2. /\ n \in Nat
        /\ \A i \in 1..n : uri[i] \in Items /\ (uri[i].key = "xt" => uri[i].topic = t)
    <2>1. n \in Nat /\ DOMAIN uri = 1..n /\ \A i \in 1..n : uri[i] \in Items
      BY LenProperties, ElementOfSeq
    <2>2. \A i \in DOMAIN uri : uri[i].key = "xt" => uri[i].topic \in Topics(uri)
      BY DEF Topics
    <2> QED
      BY <1>1, <2>1, <2>2
  <1>3. /\ f[0] = NoLink
        /\ \A i \in 1..n : f[i] = ReadItem(f[i - 1], uri[i])
        /\ \A i \in 0..n : f[i] \in AnyLink
    BY <1>2, ParsingDefined, ParsingTyped
  <1> HIDE DEF n, f
  <1> DEFINE hash == HashAfter(NoLink, t)
             Good(i) == /\ f[i].hash \in {<<>>, hash}
                        /\ f[i].valid => IsHash(f[i].hash)
             S == {i \in 0..n : Good(i)}
  <1>4. Good(0)
    BY <1>3 DEF NoLink
  <1>5. ASSUME NEW i \in 1..n, Good(i - 1) PROVE Good(i)
    <2> DEFINE before == f[i - 1]
               after  == f[i]
               item   == uri[i]
    <2>1. /\ before \in AnyLink /\ item \in Items /\ after = ReadItem(before, item)
          /\ item.key = "xt" => item.topic = t /\ t \in AnyTopic
      BY <1>2, <1>3, ItemKinds
    <2>2. before.hash \in {<<>>, hash} /\ (before.valid => IsHash(before.hash))
      BY <1>5
    <2> HIDE DEF before, after, item
    <2>3. CASE item.key # "xt"
      <3>1. after.hash = before.hash /\ after.valid = before.valid
        BY <2>1, <2>3, ItemKinds DEF ReadItem, AnyLink
      <3> QED
        BY <2>2, <3>1 DEF after
    <2>4. CASE item.key = "xt"
      <3> DEFINE read == HashAfter(before, t)
      <3>1. /\ after.hash = read
            /\ after.valid = (before.valid \/ IsHash(read))
        BY <2>1, <2>4 DEF ReadItem, ReadTopic, AnyLink
      <3>2. CASE t.form = "other"
        <4>1. read = before.hash
          BY <3>2 DEF HashAfter
        <4> QED
          BY <2>2, <3>1, <4>1 DEF after
      <3>3. CASE t.form # "other"
        <4>1. read = hash
          BY <2>1, <2>4, <3>3 DEF HashAfter, AnyTopic
        <4> HIDE DEF read, hash
        <4>2. before.valid => IsHash(hash)
          BY <2>2, EmptyIsNoHash
        <4> QED
          BY <3>1, <4>1, <4>2 DEF after
      <3> QED
        BY <3>2, <3>3
    <2> QED
      BY <2>3, <2>4
  <1> HIDE DEF Good
  <1>6. 0 \in S /\ \A i \in 1..n : i - 1 \in S => i \in S
    BY <1>2, <1>4, <1>5
  <1> HIDE DEF S
  <1>7. \A i \in 0..n : i \in S
    BY <1>2, <1>6, LoopInduction
  <1>8. Good(n)
    BY <1>2, <1>7 DEF S
  <1> QED
    BY <1>8 DEF Good, f, n, ParseLink

----------------------------------------------------------------------------
(* Writing a URI.                                                           *)

NameLength(l) == IF l.name = NoName THEN 0 ELSE 1
LengthLength(l) == IF l.length > 0 THEN 1 ELSE 0

\* The items of the URI of a valid link, in their places.
LEMMA UriOfLink ==
    ASSUME NEW l \in AnyLink, l.valid
    PROVE  LET m == 1 + NameLength(l)
               n == m + Len(l.trackers)
           IN  /\ ToUri(l) \in Seq(Items)
               /\ Len(ToUri(l)) = n + LengthLength(l)
               /\ ToUri(l)[1] = [key |-> "xt", topic |-> HexTopic(l.hash)]
               /\ \A i \in 2..m : ToUri(l)[i] = [key |-> "dn", name |-> l.name]
               /\ \A i \in 1..Len(l.trackers) :
                     ToUri(l)[m + i] = [key |-> "tr", tracker |-> l.trackers[i]]
               /\ \A i \in (n + 1)..(n + LengthLength(l)) :
                     ToUri(l)[i] = [key |-> "xl", length |-> l.length]
  <1> DEFINE A == <<[key |-> "xt", topic |-> HexTopic(l.hash)]>>
             B == NameItems(l.name)
             C == TrackerItems(l.trackers)
             D == LengthItems(l.length)
             c == Len(l.trackers)
             m == 1 + NameLength(l)
             n == m + c
             e == LengthLength(l)
  <1>1. /\ l.hash \in Hashes /\ l.name \in DisplayNames /\ l.trackers \in Seq(Trackers)
        /\ l.length \in Lengths \union {0}
    BY DEF AnyLink
  <1>2. A \in Seq(Items) /\ Len(A) = 1
        /\ A[1] = [key |-> "xt", topic |-> HexTopic(l.hash)]
    <2>1. HexTopic(l.hash) \in AnyTopic
      BY <1>1, HexTopicTyped
    <2>2. [key |-> "xt", topic |-> HexTopic(l.hash)] \in Items
      BY <2>1 DEF Items
    <2> QED
      BY <2>2
  <1>3. /\ B \in Seq(Items) /\ Len(B) = NameLength(l) /\ NameLength(l) \in {0, 1}
        /\ NameLength(l) = 1 => B[1] = [key |-> "dn", name |-> l.name]
    <2>1. [key |-> "dn", name |-> l.name] \in Items
      BY <1>1 DEF Items
    <2> QED
      BY <2>1 DEF NameItems, NameLength
  <1>4. /\ C \in Seq(Items) /\ Len(C) = c /\ c \in Nat
        /\ \A i \in 1..c : C[i] = [key |-> "tr", tracker |-> l.trackers[i]]
    <2>1. c \in Nat /\ DOMAIN l.trackers = 1..c
      BY <1>1, LenProperties
    <2>2. \A i \in 1..c : [key |-> "tr", tracker |-> l.trackers[i]] \in Items
      BY <1>1, <2>1, ElementOfSeq DEF Items
    <2> QED
      BY <2>1, <2>2 DEF TrackerItems
  <1>5. /\ D \in Seq(Items) /\ Len(D) = e /\ e \in {0, 1}
        /\ e = 1 => D[1] = [key |-> "xl", length |-> l.length]
    <2>1. l.length > 0 => [key |-> "xl", length |-> l.length] \in Items
      BY <1>1 DEF Items
    <2> QED
      BY <2>1 DEF LengthItems, LengthLength
  <1>6. ToUri(l) = ((A \o B) \o C) \o D
    BY DEF ToUri
  <1> HIDE DEF A, B, C, D, c, e
  <1>7. /\ A \o B \in Seq(Items) /\ Len(A \o B) = m
        /\ \A i \in 1..m : (A \o B)[i] = IF i <= 1 THEN A[i] ELSE B[i - 1]
    BY <1>2, <1>3, ConcatProperties
  <1>8. m \in {1, 2}
    BY <1>3
  <1> DEFINE AB == A \o B
             ABC == AB \o C
  <1> HIDE DEF AB
  <1>9. /\ ABC \in Seq(Items) /\ Len(ABC) = n
        /\ \A i \in 1..n : ABC[i] = IF i <= m THEN AB[i] ELSE C[i - m]
    BY <1>4, <1>7, <1>8, ConcatProperties DEF AB
  <1> HIDE DEF ABC
  <1>10. /\ ToUri(l) \in Seq(Items) /\ Len(ToUri(l)) = n + e
         /\ \A i \in 1..(n + e) : ToUri(l)[i] = IF i <= n THEN ABC[i] ELSE D[i - n]
    BY <1>4, <1>5, <1>6, <1>8, <1>9, ConcatProperties DEF AB, ABC
  <1> DEFINE U == ToUri(l)
  <1>11. /\ m \in {1, 2} /\ c \in Nat /\ e \in {0, 1} /\ n = m + c /\ n \in Nat
         /\ \A i \in 1..m : AB[i] = IF i <= 1 THEN A[i] ELSE B[i - 1]
         /\ \A i \in 1..n : ABC[i] = IF i <= m THEN AB[i] ELSE C[i - m]
         /\ \A i \in 1..(n + e) : U[i] = IF i <= n THEN ABC[i] ELSE D[i - n]
    <2>1. n \in Nat
      BY <1>4, <1>8
    <2>2. \A i \in 1..m : AB[i] = IF i <= 1 THEN A[i] ELSE B[i - 1]
      BY <1>7, Zenon DEF AB
    <2> QED
      BY <1>4, <1>5, <1>8, <1>9, <1>10, <2>1, <2>2, Zenon
  <1>12. m = 2 => B[1] = [key |-> "dn", name |-> l.name]
    BY <1>3
  <1> HIDE DEF U, m, n
  <1>13. U[1] = [key |-> "xt", topic |-> HexTopic(l.hash)]
    <2>1. 1 \in 1..m /\ 1 \in 1..n /\ 1 \in 1..(n + e)
      BY <1>11
    <2> QED
      BY <1>2, <1>11, <2>1
  <1>14. ASSUME NEW i \in 2..m PROVE U[i] = [key |-> "dn", name |-> l.name]
    <2>1. i = 2 /\ m = 2 /\ i \in 1..m /\ i \in 1..n /\ i \in 1..(n + e)
      BY <1>11
    <2>2. U[i] = B[1]
      BY <1>11, <2>1
    <2> QED
      BY <1>12, <2>1, <2>2
  <1>15. ASSUME NEW i \in 1..c PROVE U[m + i] = [key |-> "tr", tracker |-> l.trackers[i]]
    <2>1. m + i \in 1..n /\ m + i \in 1..(n + e) /\ ~(m + i <= m) /\ (m + i) - m = i
      BY <1>11
    <2>2. U[m + i] = C[i]
      BY <1>11, <2>1
    <2> QED
      BY <1>4, <2>2
  <1>16. ASSUME NEW i \in (n + 1)..(n + e) PROVE U[i] = [key |-> "xl", length |-> l.length]
    <2>1. e = 1 /\ i = n + 1 /\ i \in 1..(n + e) /\ ~(i <= n) /\ i - n = 1
      BY <1>11
    <2> QED
      BY <1>5, <1>11, <2>1
  <1> QED
    BY <1>10, <1>13, <1>14, <1>15, <1>16 DEF c, e, m, n, U

\* libtorrent finds the hash of the link in its URI, if the link is valid and
\* its hash is one; and it finds nothing else than hashes.
LEMMA HashesOfLink ==
    ASSUME NEW l \in AnyLink
    PROVE  /\ ToUri(l) \in Seq(Items)
           /\ LtHashes(ToUri(l)) \subseteq {h \in Hashes : Len(h) = HashBytes}
           /\ l.valid /\ IsHash(l.hash) => LtHashes(ToUri(l)) = {l.hash}
  <1>1. CASE ~l.valid
    <2>1. ToUri(l) = <<>>
      BY <1>1 DEF ToUri
    <2> QED
      BY <1>1, <2>1 DEF LtHashes, Topics
  <1>2. CASE l.valid
    <2> DEFINE U == ToUri(l)
               m == 1 + NameLength(l)
               c == Len(l.trackers)
               n == m + c
               e == LengthLength(l)
    <2>1. m \in {1, 2} /\ c \in Nat /\ e \in {0, 1}
      BY LenProperties DEF NameLength, LengthLength, AnyLink
    <2>2. /\ U \in Seq(Items) /\ Len(U) = n + e
          /\ U[1] = [key |-> "xt", topic |-> HexTopic(l.hash)]
          /\ \A i \in 2..m : U[i].key = "dn"
          /\ \A i \in 1..c : U[m + i].key = "tr"
          /\ \A i \in (n + 1)..(n + e) : U[i].key = "xl"
      <3>1. /\ U \in Seq(Items) /\ Len(U) = n + e
            /\ U[1] = [key |-> "xt", topic |-> HexTopic(l.hash)]
            /\ \A i \in 2..m : U[i] = [key |-> "dn", name |-> l.name]
            /\ \A i \in 1..c : U[m + i] = [key |-> "tr", tracker |-> l.trackers[i]]
            /\ \A i \in (n + 1)..(n + e) : U[i] = [key |-> "xl", length |-> l.length]
        BY <1>2, UriOfLink
      <3> HIDE DEF U, m, c, e, n
      <3>2. \A i \in 2..m : U[i].key = "dn"
        BY <3>1
      <3>3. ASSUME NEW i \in 1..c PROVE U[m + i].key = "tr"
        <4>1. U[m + i] = [key |-> "tr", tracker |-> l.trackers[i]]
          BY <3>1
        <4> QED
          BY <4>1
      <3>4. \A i \in (n + 1)..(n + e) : U[i].key = "xl"
        BY <3>1
      <3> QED
        BY <3>1, <3>2, <3>3, <3>4
    <2> HIDE DEF U, m, c, e
    <2>3. DOMAIN U = 1..(n + e) /\ 1 \in DOMAIN U
      BY <2>1, <2>2, LenProperties
    <2>4. ASSUME NEW i \in DOMAIN U, i # 1 PROVE U[i].key # "xt"
      <3>1. CASE i \in 2..m
        BY <2>2, <3>1
      <3>2. CASE i \in (m + 1)..n
        <4>1. i - m \in 1..c /\ m + (i - m) = i
          BY <2>1, <3>2
        <4> QED
          BY <2>2, <4>1
      <3>3. CASE i \in (n + 1)..(n + e)
        BY <2>2, <3>3
      <3> QED
        BY <2>1, <2>3, <2>4, <3>1, <3>2, <3>3
    <2> DEFINE places == {j \in DOMAIN U : U[j].key = "xt"}
               topic == HexTopic(l.hash)
               found == HashAfter(NoLink, topic)
    <2>5. places = {1} /\ U[1].topic = topic
      BY <2>2, <2>3, <2>4
    <2>6. Topics(U) = {U[i].topic : i \in places}
      BY DEF Topics
    <2> HIDE DEF places, topic
    <2>7. Topics(U) = {topic}
      BY <2>5, <2>6
    <2>8. LtHashes(U) = {h \in {found} : Len(h) = HashBytes}
      BY <2>7 DEF LtHashes
    <2>9. found \in Hashes
      <3>1. topic \in AnyTopic
        BY HexTopicTyped DEF AnyLink, topic
      <3> QED
        BY <3>1, NoLinkTyped, HashAfterFits
    <2>10. IsHash(l.hash) => found = l.hash /\ Len(l.hash) = HashBytes
      BY DEF topic, HexTopic, HashAfter, IsHash
    <2> HIDE DEF found
    <2> QED
      BY <2>2, <2>8, <2>9, <2>10 DEF U
  <1>3. l.valid \in BOOLEAN
    BY DEF AnyLink
  <1> QED
    BY <1>1, <1>2, <1>3

\* The link of these fields.
Link(valid, hash, name, trackers, length) ==
    [valid |-> valid, hash |-> hash, name |-> name, trackers |-> trackers,
     length |-> length]

WithName(l, name) == [l EXCEPT !.name = name]
WithTrackers(l, trackers) == [l EXCEPT !.trackers = trackers]
WithLength(l, length) == [l EXCEPT !.length = length]

LEMMA LinkFields ==
    ASSUME NEW v, NEW h, NEW a, NEW s, NEW k, NEW x
    PROVE  /\ WithName(Link(v, h, a, s, k), x) = Link(v, h, x, s, k)
           /\ WithTrackers(Link(v, h, a, s, k), x) = Link(v, h, a, x, k)
           /\ WithLength(Link(v, h, a, s, k), x) = Link(v, h, a, s, x)
  BY DEF Link, WithName, WithTrackers, WithLength

(* A link comes out of its URI as it went in, but for a negative length.    *)
LEMMA LinkRoundTrips ==
    ASSUME NEW l \in AnyLink, l.valid, IsHash(l.hash)
    PROVE  ParseLink(ToUri(l)) =
              [l EXCEPT !.length = IF l.length > 0 THEN l.length ELSE 0]
  <1> DEFINE U == ToUri(l)
             f == Parsing(U)
             m == 1 + NameLength(l)
             c == Len(l.trackers)
             n == m + c
             e == LengthLength(l)
             valid == l.valid
             name == l.name
             s == l.trackers
             Read(j) == Link(valid, l.hash, name, SubSeq(s, 1, j), 0)
  <1>1. /\ m \in {1, 2} /\ c \in Nat /\ e \in {0, 1} /\ s \in Seq(Trackers)
        /\ n \in Nat /\ n = m + c
        /\ m = 1 <=> name = NoName
        /\ e = 1 <=> l.length > 0
    BY LenProperties DEF NameLength, LengthLength, AnyLink
  <1>2. /\ Len(U) = n + e
        /\ U[1] = [key |-> "xt", topic |-> HexTopic(l.hash)]
        /\ \A i \in 2..m : U[i] = [key |-> "dn", name |-> name]
        /\ \A i \in 1..c : U[m + i] = [key |-> "tr", tracker |-> s[i]]
        /\ \A i \in (n + 1)..(n + e) : U[i] = [key |-> "xl", length |-> l.length]
    BY UriOfLink
  <1>3. f[0] = NoLink /\ \A i \in 1..(n + e) : f[i] = ReadItem(f[i - 1], U[i])
    BY <1>1, <1>2, ParsingDefined
  <1> HIDE DEF U, f, m, n, c, e
  <1>0. valid = TRUE
    BY DEF AnyLink
  <1> HIDE DEF valid
  <1>4. f[1] = Link(valid, l.hash, NoName, <<>>, 0)
    <2>1. f[1] = ReadItem(NoLink, U[1])
      BY <1>1, <1>3
    <2>2. U[1].key = "xt" /\ HashAfter(NoLink, U[1].topic) = l.hash
      BY <1>2 DEF HexTopic, HashAfter
    <2> QED
      BY <1>0, <2>1, <2>2 DEF ReadItem, ReadTopic, NoLink, Link
  <1>5. f[m] = Read(0)
    <2>1. SubSeq(s, 1, 0) = <<>>
      BY <1>1, SubSeqEmpty
    <2>2. CASE m = 1
      BY <1>1, <1>4, <2>1, <2>2
    <2>3. CASE m = 2
      <3>1. f[2] = ReadItem(f[1], [key |-> "dn", name |-> name])
        BY <1>1, <1>2, <1>3, <2>3
      <3>2. f[2] = WithName(f[1], name)
        BY <3>1 DEF ReadItem, WithName
      <3>3. f[2] = Link(valid, l.hash, name, <<>>, 0)
        BY <1>4, <3>2, LinkFields
      <3> QED
        BY <2>1, <2>3, <3>3
    <2> QED
      BY <1>1, <2>2, <2>3
  <1> DEFINE Good(j) == f[m + j] = Read(j)
             S == {j \in 0..c : Good(j)}
  <1>6. Good(0)
    <2>1. m + 0 = m
      BY <1>1
    <2> QED
      BY <1>5, <2>1
  <1>7. ASSUME NEW j \in 1..c, Good(j - 1) PROVE Good(j)
    <2>1. m + j \in 1..(n + e) /\ (m + j) - 1 = m + (j - 1)
      BY <1>1
    <2>2. f[m + j] = ReadItem(Read(j - 1), [key |-> "tr", tracker |-> s[j]])
      BY <1>2, <1>3, <1>7, <2>1
    <2>3. SubSeq(s, 1, j) = Append(SubSeq(s, 1, j - 1), s[j])
      <3>1. SubSeq(s, 1, j) = SubSeq(s, 1, j - 1) \o <<s[j]>>
        BY <1>1, SubSeqRecursiveSecond DEF c
      <3>2. SubSeq(s, 1, j - 1) \in Seq(Trackers) /\ s[j] \in Trackers
        <4>1. \A i \in 1..(j - 1) : s[i] \in Trackers
          BY <1>1, ElementOfSeq DEF c
        <4>2. s[j] \in Trackers
          BY <1>1, ElementOfSeq DEF c
        <4> QED
          BY <1>1, <4>1, <4>2, SubSeqProperties
      <3> QED
        BY <3>1, <3>2, AppendIsConcat
    <2> DEFINE before == SubSeq(s, 1, j - 1)
               now == Append(before, s[j])
    <2>4. f[m + j] = WithTrackers(Read(j - 1), now)
      <3>1. Read(j - 1).trackers = before
        BY DEF Link
      <3>2. f[m + j] = [Read(j - 1) EXCEPT !.trackers = Append(Read(j - 1).trackers, s[j])]
        BY <2>2 DEF ReadItem
      <3> QED
        BY <3>1, <3>2 DEF WithTrackers
    <2> HIDE DEF before, now
    <2>5. f[m + j] = Link(valid, l.hash, name, now, 0)
      BY <2>4, LinkFields
    <2> QED
      BY <2>3, <2>5 DEF before, now
  <1> HIDE DEF Good
  <1>8. 0 \in S /\ \A j \in 1..c : j - 1 \in S => j \in S
    BY <1>1, <1>6, <1>7
  <1> HIDE DEF S
  <1>9. \A j \in 0..c : j \in S
    BY <1>1, <1>8, LoopInduction
  <1>10. f[n] = Read(c) /\ SubSeq(s, 1, c) = s
    <2>1. c \in S
      BY <1>1, <1>9
    <2>2. f[n] = Read(c)
      BY <1>1, <2>1 DEF S, Good
    <2> QED
      BY <1>1, <2>2, SubSeqFull DEF c
  <1> DEFINE length == IF l.length > 0 THEN l.length ELSE 0
             Whole(k) == Link(valid, l.hash, name, s, k)
  <1>11. f[n + e] = Whole(length)
    <2>1. f[n] = Whole(0)
      BY <1>10
    <2>2. CASE e = 0
      <3>1. n + e = n /\ length = 0
        BY <1>1, <2>2
      <3> QED
        BY <2>1, <3>1
    <2>3. CASE e = 1
      <3>1. length = l.length /\ n + e = n + 1 /\ n + 1 \in 1..(n + e) /\ (n + 1) - 1 = n
        BY <1>1, <2>3
      <3>2. f[n + 1] = ReadItem(f[n], [key |-> "xl", length |-> l.length])
        BY <1>1, <1>2, <1>3, <2>3, <3>1
      <3>3. f[n + 1] = WithLength(f[n], l.length)
        BY <3>2 DEF ReadItem, WithLength
      <3> QED
        BY <2>1, <3>1, <3>3, LinkFields
    <2> QED
      BY <1>1, <2>2, <2>3
  <1>12. Whole(length) = WithLength(l, length)
    <2>1. l = Link(valid, l.hash, name, s, l.length)
      BY DEF AnyLink, Link, valid
    <2> HIDE DEF length
    <2> QED
      BY <2>1, LinkFields
  <1>13. ParseLink(U) = f[n + e]
    BY <1>2 DEF ParseLink, f
  <1> QED
    BY <1>11, <1>12, <1>13 DEF U, WithLength

----------------------------------------------------------------------------
(* The links of the application.  ValidLinksAreAdded is not inductive: the  *)
(* link at hand has its hash if it says that it is valid, unless it was     *)
(* read from a URI with several topics.                                     *)

LinkIsHashed ==
    link.valid => IsHash(link.hash) \/ Cardinality(Topics(pasted)) > 1

Listings == [hash : Hashes, id : {h \in Hashes : Len(h) = HashBytes}]

LinkInv ==
    /\ link \in AnyLink
    /\ pasted \in Seq(Items)
    /\ listed \subseteq Listings
    /\ thrown \in BOOLEAN
    /\ LinkIsHashed
    /\ ValidLinksAreAdded

LEMMA InitLinkInv == SourcesInit => LinkInv
  <1> SUFFICES ASSUME SourcesInit PROVE LinkInv
    OBVIOUS
  <1>1. link = NoLink /\ pasted = <<>> /\ listed = {} /\ thrown = FALSE
    BY DEF SourcesInit
  <1>2. <<>> \in Seq(Items) /\ ~NoLink.valid
    BY DEF NoLink
  <1> QED
    BY <1>1, <1>2, NoLinkTyped DEF LinkInv, LinkIsHashed, ValidLinksAreAdded

\* A link that is read from a URI.
LEMMA ParsedKeeps ==
    ASSUME LinkInv, ~thrown, NEW uri \in Seq(Items),
           pasted' = uri, link' = ParseLink(uri), UNCHANGED <<listed, thrown>>
    PROVE  LinkInv'
  <1>1. link' \in AnyLink
    BY ParseLinkTyped
  <1>2. LinkIsHashed'
    BY ValidAfterParsing DEF LinkIsHashed
  <1> QED
    BY <1>1, <1>2 DEF LinkInv, ValidLinksAreAdded

\* A link that keeps its hash.
LEMMA AmendedKeeps ==
    ASSUME LinkInv, ~thrown, link' \in AnyLink,
           link'.valid = link.valid, link'.hash = link.hash,
           UNCHANGED <<pasted, listed, thrown>>
    PROVE  LinkInv'
  BY DEF LinkInv, LinkIsHashed, ValidLinksAreAdded

LEMMA SetDisplayNameKeeps ==
    ASSUME LinkInv, ~thrown, NEW name \in DisplayNames, SetDisplayName(name) PROVE LinkInv'
  <1>1. link' \in AnyLink /\ link'.valid = link.valid /\ link'.hash = link.hash
    BY DEF SetDisplayName, LinkInv, AnyLink
  <1> QED
    BY <1>1, AmendedKeeps DEF SetDisplayName

LEMMA AddTrackerKeeps ==
    ASSUME LinkInv, ~thrown, NEW tracker \in Trackers, AddTracker(tracker) PROVE LinkInv'
  <1> DEFINE trackers == Append(link.trackers, tracker)
  <1>1. trackers \in Seq(Trackers)
    BY AppendProperties DEF LinkInv, AnyLink
  <1>2. link' = [link EXCEPT !.trackers = trackers]
    BY DEF AddTracker
  <1> HIDE DEF trackers
  <1>3. link' \in AnyLink /\ link'.valid = link.valid /\ link'.hash = link.hash
    BY <1>1, <1>2 DEF LinkInv, AnyLink
  <1> QED
    BY <1>3, AmendedKeeps DEF AddTracker

\* A link that is made from a result.
LEMMA PickResultKeeps ==
    ASSUME LinkInv, ~thrown, NEW entry \in DOMAIN HashOf, PickResult(entry)
    PROVE  LinkInv'
  <1> DEFINE hash == HashOf[entry]
             name == NameOf[entry]
             made == FromInfoHash(hash)
             valid == IsHash(hash)
             trackers == IF valid THEN WellKnownTrackers ELSE <<>>
  <1>1. hash \in Hashes /\ name \in DisplayNames /\ trackers \in Seq(Trackers)
    BY EntriesAssumption, TrackersAssumption
  <1>2. valid \in BOOLEAN
    BY DEF IsHash
  <1>3. made = [valid |-> valid, hash |-> hash, name |-> NoName, trackers |-> trackers,
                length |-> 0]
    <2>1. made = [NoLink EXCEPT !.hash = hash, !.valid = valid, !.trackers = trackers]
      BY DEF FromInfoHash
    <2> HIDE DEF made, hash, valid, trackers
    <2> QED
      BY <2>1 DEF NoLink
  <1>4. link' = made \/ link' = [made EXCEPT !.name = name]
    BY DEF PickResult, ToMagnetLink
  <1>5. link'.valid => IsHash(link'.hash)
    <2> HIDE DEF made, name, trackers
    <2>1. made.valid = valid /\ made.hash = hash
      BY <1>3
    <2>2. link'.valid = made.valid /\ link'.hash = made.hash
      BY <1>3, <1>4
    <2> QED
      BY <2>1, <2>2
  <1>6. link' \in AnyLink
    <2> HIDE DEF made, name, trackers, hash, valid
    <2>1. made \in AnyLink
      BY <1>1, <1>2, <1>3, NoNameAssumption DEF AnyLink
    <2>2. [made EXCEPT !.name = name] \in AnyLink
      BY <1>1, <2>1 DEF AnyLink
    <2> QED
      BY <1>4, <2>1, <2>2
  <1>7. pasted' = <<>> /\ UNCHANGED <<listed, thrown>>
    BY DEF PickResult
  <1> QED
    BY <1>5, <1>6, <1>7 DEF LinkInv, LinkIsHashed, ValidLinksAreAdded

\* The link is passed to addTorrent.
LEMMA AddLinkKeeps ==
    ASSUME LinkInv, ~thrown, AddLink PROVE LinkInv'
  <1> DEFINE hashes == LtHashes(ToUri(link))
  <1>1. /\ thrown' = (hashes = {})
        /\ listed' = listed \union {[hash |-> link.hash, id |-> h] : h \in hashes}
        /\ UNCHANGED <<link, pasted>>
    BY DEF AddLink
  <1>2. /\ hashes \subseteq {h \in Hashes : Len(h) = HashBytes}
        /\ link.valid /\ IsHash(link.hash) => hashes = {link.hash}
    BY HashesOfLink DEF LinkInv
  <1>6. link.hash \in Hashes /\ (IsHash(link.hash) /\ hashes # {} => hashes = {link.hash})
    <2>1. CASE link.valid
      BY <1>2, <2>1 DEF LinkInv, AnyLink
    <2>2. CASE ~link.valid
      <3>1. Topics(<<>>) = {}
        BY DEF Topics
      <3>2. hashes = {}
        BY <2>2, <3>1 DEF ToUri, LtHashes
      <3> QED
        BY <3>2 DEF LinkInv, AnyLink
    <2> QED
      BY <2>1, <2>2
  <1> HIDE DEF hashes
  <1>3. \A t \in listed' : t \in Listings /\ (IsHash(t.hash) => t.hash = t.id)
    <2>1. \A h \in hashes : h \in Hashes /\ Len(h) = HashBytes
      BY <1>2
    <2>2. \A t \in listed : t \in Listings /\ (IsHash(t.hash) => t.hash = t.id)
      BY DEF LinkInv, ValidLinksAreAdded
    <2>3. \A h \in hashes : IsHash(link.hash) => h = link.hash
      BY <1>6
    <2>4. \A h \in hashes :
              LET t == [hash |-> link.hash, id |-> h]
              IN  t \in Listings /\ (IsHash(t.hash) => t.hash = t.id)
      BY <1>6, <2>1, <2>3 DEF Listings
    <2> QED
      BY <1>1, <2>1, <2>2, <2>4
  <1>4. thrown' => ~link.valid \/ Cardinality(Topics(pasted)) > 1
    BY <1>1, <1>2 DEF LinkInv, LinkIsHashed
  <1>5. thrown' \in BOOLEAN
    BY <1>1
  <1> QED
    BY <1>1, <1>3, <1>4, <1>5 DEF LinkInv, LinkIsHashed, ValidLinksAreAdded

----------------------------------------------------------------------------
(* All of the sources.                                                      *)

SourcesInv ==
    /\ way \in {"link", "search", "file"}
    /\ LinkInv
    /\ SearcherInv
    /\ CreatorInv
    /\ CreatorTypeInv

LEMMA InitSourcesInv == SourcesInit => SourcesInv
  BY InitLinkInv, InitSearcherInv, InitCreatorInv, InitCreatorType
  DEF SourcesInit, SourcesInv

LEMMA NextSourcesInv ==
    ASSUME SourcesInv, [SourcesNext]_sourcesVars PROVE SourcesInv'
  <1> USE DEF SourcesInv
  <1>1. CASE UNCHANGED sourcesVars
    <2>1. LinkInv'
      BY <1>1 DEF sourcesVars, linkVars, LinkInv, LinkIsHashed, ValidLinksAreAdded
    <2>2. UNCHANGED searcherVars /\ UNCHANGED creatorVars /\ UNCHANGED way
      BY <1>1 DEF sourcesVars
    <2> QED
      BY <2>1, <2>2, NextSearcherInv, NextCreatorInv, NextCreatorType
  <1>2. ASSUME ~thrown, Links \/ Results, UNCHANGED way PROVE SourcesInv'
    <2>1. ASSUME Paste PROVE LinkInv'
      <3>1. pasted' \in Seq(Items) /\ link' = ParseLink(pasted')
        BY <2>1, UrisAssumption DEF Paste
      <3> QED
        BY <1>2, <2>1, <3>1, ParsedKeeps DEF Paste
    <2>2. ASSUME PassOn PROVE LinkInv'
      <3>1. ToUri(link) \in Seq(Items)
        BY HashesOfLink DEF LinkInv
      <3> QED
        BY <1>2, <2>2, <3>1, ParsedKeeps DEF PassOn
    <2>3. ASSUME NEW entry \in seen.results, PickResult(entry) PROVE LinkInv'
      <3>1. entry \in DOMAIN HashOf
        BY <2>3 DEF SearcherInv, SearcherTypeOK
      <3> QED
        BY <1>2, <2>3, <3>1, PickResultKeeps
    <2>4. LinkInv'
      BY <1>2, <2>1, <2>2, <2>3, SetDisplayNameKeeps, AddTrackerKeeps, AddLinkKeeps
      DEF Links, Results
    <2>5. UNCHANGED searcherVars /\ UNCHANGED creatorVars
      BY <1>2 DEF Links, Results
    <2> QED
      BY <1>2, <2>4, <2>5, NextSearcherInv, NextCreatorInv, NextCreatorType
  <1>3. CASE Searches /\ UNCHANGED way
    <2>1. LinkInv'
      BY <1>3 DEF Searches, linkVars, LinkInv, LinkIsHashed, ValidLinksAreAdded
    <2> QED
      BY <1>3, <2>1, NextSearcherInv, NextCreatorInv, NextCreatorType DEF Searches
  <1>4. CASE Creations /\ UNCHANGED way
    <2>1. LinkInv'
      BY <1>4 DEF Creations, linkVars, LinkInv, LinkIsHashed, ValidLinksAreAdded
    <2> QED
      BY <1>4, <2>1, NextSearcherInv, NextCreatorInv, NextCreatorType DEF Creations
  <1> QED
    BY <1>1, <1>2, <1>3, <1>4 DEF SourcesNext, Thrown, Destroyed

LEMMA SourcesKeepInv == SourcesSpec => []SourcesInv
  BY InitSourcesInv, NextSourcesInv, PTL DEF SourcesSpec

(* Every variable has its type: a hash that is read may be too long, up to  *)
(* three times, but libtorrent has no id that is no hash.                   *)
THEOREM SourcesTypeCorrect == SourcesSpec => []SourcesTypeOK
  <1>1. SourcesInv => SourcesTypeOK
    BY DEF SourcesInv, LinkInv, Listings, SearcherInv, CreatorTypeInv, SourcesTypeOK
  <1> QED
    BY <1>1, SourcesKeepInv, PTL

(* decodeBase32 is exact, for all sizes of characters, bytes and hashes     *)
(* whose buffer holds one of each: what it loses of a number that overflows *)
(* it has taken out already.                                                *)
THEOREM DecodingIsExact == SourcesSpec => []DecodedIsExact
  <1>1. SourcesInv => DecodedIsExact
    <2> SUFFICES ASSUME SourcesInv, NEW text \in Texts(pasted), NEW n \in 0..Len(text),
                        Plain(text, n)
                 PROVE  DecodeBase32(text) = Exact(text, n)
      BY DEF DecodedIsExact
    <2>1. \A i \in DOMAIN pasted : pasted[i] \in Items
      BY LenProperties, ElementOfSeq DEF SourcesInv, LinkInv
    <2>2. \A topic \in Topics(pasted) : topic \in AnyTopic
      BY <2>1, ItemKinds DEF Topics
    <2>3. text \in UpperTexts
      BY <2>2 DEF Texts, AnyTopic
    <2>4. text \in Seq(Chars)
      BY <2>3 DEF UpperTexts
    <2> QED
      BY <2>4, TextDecodesExactly
  <1> QED
    BY <1>1, SourcesKeepInv, PTL

(* toUri loses nothing of a link that has its hash, but a negative length:  *)
(* whatever name, trackers and length it was given, in whatever order.      *)
THEOREM UrisLoseNothing == SourcesSpec => []LinksRoundTrip
  <1>1. SourcesInv => LinksRoundTrip
    BY LinkRoundTrips DEF SourcesInv, LinkInv, LinksRoundTrip
  <1> QED
    BY <1>1, SourcesKeepInv, PTL

(* addTorrent takes every link that says it is valid, whether it was read,  *)
(* amended, passed on or made from a result, but for URIs with several      *)
(* topics; and a wrapper whose hash has the right size has the one that     *)
(* libtorrent has, whatever else was read from the URI.                     *)
THEOREM ValidMeansAdded == SourcesSpec => []ValidLinksAreAdded
  <1>1. SourcesInv => ValidLinksAreAdded
    BY DEF SourcesInv, LinkInv
  <1> QED
    BY <1>1, SourcesKeepInv, PTL

(* What is proved of the searcher and of the creator holds of them here.    *)
THEOREM SourcesAreCorrect ==
    SourcesSpec => [](/\ EachIsAnsweredOnce /\ PatientSeesItsAnswer
                      /\ ErrorTellsResult /\ FileIsOfItsCall /\ TiersAreKept)
  <1>1. SourcesInv => /\ EachIsAnsweredOnce /\ PatientSeesItsAnswer
                      /\ ErrorTellsResult /\ FileIsOfItsCall /\ TiersAreKept
    BY TiersOfLast DEF SourcesInv, SearcherInv, CreatorInv
  <1> QED
    BY <1>1, SourcesKeepInv, PTL

=============================================================================
