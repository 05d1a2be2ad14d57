--------------------------- MODULE TorrentSources ---------------------------
(* Where an application gets its torrents from, and how they reach the      *)
(* client: magnet links that are pasted, passed on and amended; results of  *)
(* searches, turned into links; and the creation of .torrent files.         *)
(*                                                                          *)
(* A behaviour is about one of the ways: they share no state of the code.   *)
EXTENDS MagnetLink, TorrentSearcher, TorrentCreator

CONSTANTS Uris,       \* of magnet links, as sequences of items
          NameOf,     \* "name" of an entry of an answer
          MaxAmended, \* bound: trackers of a link that is amended
          MaxListed   \* bound: torrents added

ASSUME UrisAssumption == Uris \subseteq Seq(Items)
ASSUME EntriesAssumption ==
    /\ \A entry \in DOMAIN HashOf : HashOf[entry] \in Hashes
    /\ NameOf \in [DOMAIN HashOf -> DisplayNames]

VARIABLES way,
          link, pasted,  \* the link at hand, and the URI it was read from
          listed,        \* the torrents: hash of the wrapper, id in libtorrent
          thrown         \* addTorrent ended in an exception

linkVars == <<link, pasted, listed, thrown>>
sourcesVars == <<way, linkVars, searcherVars, creatorVars>>

----------------------------------------------------------------------------
SourcesInit ==
    /\ way \in {"link", "search", "file"}
    /\ link = NoLink /\ pasted = <<>>
    /\ listed = {}
    /\ thrown = FALSE
    /\ SearcherInit /\ (way = "search" \/ patient)
    /\ CreatorInit /\ (way = "file" \/ source.files = 0)

\* Bound: a URI is pasted for the first torrent only.
Paste ==
    /\ pasted = <<>> /\ listed = {}
    /\ pasted' \in Uris
    /\ link' = ParseLink(pasted')
    /\ UNCHANGED <<listed, thrown>>

\* toUri, and the constructor at the other end.
PassOn ==
    /\ pasted' = ToUri(link)
    /\ link' = ParseLink(ToUri(link))
    /\ UNCHANGED <<listed, thrown>>

SetDisplayName(name) ==
    /\ link' = [link EXCEPT !.name = name]
    /\ UNCHANGED <<pasted, listed, thrown>>

AddTracker(tracker) ==
    /\ Len(link.trackers) < MaxAmended
    /\ link' = [link EXCEPT !.trackers = Append(@, tracker)]
    /\ UNCHANGED <<pasted, listed, thrown>>

\* TorrentSearchResult::toMagnetLink
ToMagnetLink(entry) ==
    LET made == FromInfoHash(HashOf[entry])
    IN  IF made.valid /\ NameOf[entry] # NoName
        THEN [made EXCEPT !.name = NameOf[entry]] ELSE made

PickResult(entry) ==
    /\ link' = ToMagnetLink(entry)
    /\ pasted' = <<>>
    /\ UNCHANGED <<listed, thrown>>

Topics(uri) == {uri[i].topic : i \in {j \in DOMAIN uri : uri[j].key = "xt"}}

\* lt::parse_magnet_uri: the hashes that are to be found in a URI, in hex or in
\* base 32.
LtHashes(uri) ==
    {h \in {HashAfter(NoLink, topic) : topic \in Topics(uri)} : Len(h) = HashBytes}

\* addTorrent(MagnetLink).  Without a hash in it, the URI does not parse, and
\* parse_magnet_uri throws.  The wrapper keeps the hash of the link.
AddLink ==
    /\ Cardinality(listed) < MaxListed
    /\ link.hash \notin {t.hash : t \in listed}
    /\ LET hashes == LtHashes(ToUri(link))
       IN  /\ thrown' = (hashes = {})
           /\ listed' = listed \union {[hash |-> link.hash, id |-> h] : h \in hashes}
    /\ UNCHANGED <<link, pasted>>

----------------------------------------------------------------------------
Links ==
    /\ way = "link"
    /\ \/ Paste
       \/ PassOn
       \/ \E name \in DisplayNames : SetDisplayName(name)
       \/ \E tracker \in Trackers : AddTracker(tracker)
       \/ AddLink
    /\ UNCHANGED <<searcherVars, creatorVars>>

Results ==
    /\ way = "search"
    /\ (\E entry \in seen.results : PickResult(entry)) \/ AddLink
    /\ UNCHANGED <<searcherVars, creatorVars>>

Searches == way = "search" /\ SearcherNext /\ UNCHANGED <<linkVars, creatorVars>>

Creations == way = "file" /\ CreatorNext /\ UNCHANGED <<linkVars, searcherVars>>

\* Nothing catches the exception.
Thrown == thrown /\ UNCHANGED sourcesVars

\* A searcher that is gone is not asked any more.
Destroyed == way = "search" /\ ~alive /\ UNCHANGED sourcesVars

SourcesNext ==
    \/ ~thrown /\ (Links \/ Results \/ Searches \/ Creations) /\ UNCHANGED way
    \/ Thrown
    \/ Destroyed

(* The network answers or times out, and the event loop delivers and        *)
(* deletes, as long as the program runs.                                    *)
SearchGoes(step) ==
    ~thrown /\ way = "search" /\ step /\ UNCHANGED <<way, linkVars, creatorVars>>

SourcesFairness ==
    \A g \in Requests :
        /\ WF_sourcesVars(SearchGoes(\E answer \in Responses : Arrive(g, answer)))
        /\ WF_sourcesVars(SearchGoes(OnHttpFinished(g)))
        /\ WF_sourcesVars(SearchGoes(DeleteRequest(g)))

SourcesSpec == SourcesInit /\ [][SourcesNext]_sourcesVars /\ SourcesFairness

----------------------------------------------------------------------------
(* Every variable has its type. *)
SourcesTypeOK ==
    /\ SearcherTypeOK
    /\ CreatorTypeOK
    /\ way \in {"link", "search", "file"}
    /\ link \in AnyLink
    /\ pasted \in Seq(Items)
    /\ listed \subseteq [hash : Hashes, id : {h \in Hashes : Len(h) = HashBytes}]
    /\ thrown \in BOOLEAN

Texts(uri) == {t.text : t \in {s \in Topics(uri) : s.form = "base32"}}

(* A text of n letters that ends in padding, and what it stands for: its    *)
(* letters, as the digits of one number, cut into bytes.                    *)
Plain(text, n) ==
    \A i \in DOMAIN text : IF i <= n THEN text[i] \in Letters ELSE text[i] = Pad

NumberOf(text) ==
    LET number[i \in 0..Len(text)] ==
            IF i = 0 THEN 0 ELSE number[i - 1] * Pow2[CharBits] + text[i]
    IN  number

Exact(text, n) ==
    [i \in 1..(n * CharBits) \div ByteBits |->
        (NumberOf(text)[n] \div Pow2[n * CharBits - i * ByteBits]) % Pow2[ByteBits]]

(* decodeBase32 is right for every text of letters that ends in padding,    *)
(* though its buffer overflows on the way.                                  *)
DecodedIsExact ==
    \A text \in Texts(pasted) : \A n \in 0..Len(text) :
        Plain(text, n) => DecodeBase32(text) = Exact(text, n)

(* "toUri: Reconstruct a magnet URI string from the current state": a link  *)
(* that has its hash comes out of its URI as it went in, whatever its name  *)
(* and trackers are, but for a negative length.                             *)
LinksRoundTrip ==
    link.valid /\ IsHash(link.hash) =>
        ParseLink(ToUri(link)) =
            [link EXCEPT !.length = IF link.length > 0 THEN link.length ELSE 0]

(* addTorrent takes every link that says it is valid, unless it was read    *)
(* from a URI with several topics.  A wrapper has the hash of its torrent   *)
(* then, unless a second topic left it with one that is too short, whose    *)
(* digits libtorrent may read as another hash.                              *)
ValidLinksAreAdded ==
    /\ thrown => ~link.valid \/ Cardinality(Topics(pasted)) > 1
    /\ \A t \in listed : IsHash(t.hash) => t.hash = t.id

(* Searches end, and their requests are freed, while the searcher lives and *)
(* no exception has ended the program.                                      *)
SearchesEnd ==
    \A g \in Requests :
        request[g].state # "unused" ~> request[g].state = "unused" \/ ~alive \/ thrown

----------------------------------------------------------------------------
(* addTorrent(MagnetLink) returns "Pointer to the new Torrent, or nullptr   *)
(* if a duplicate or invalid."  The URI of an invalid link is empty, and    *)
(* libtorrent throws.                                                       *)
InvalidIsRefused == ~thrown

=============================================================================
