----------------------------- MODULE Retrieval -----------------------------
(***************************************************************************)
(* What the retrieval half of the memory layer computes:                   *)
(*   - supabase match_messages and src/src/memory/retrieve.ts              *)
(*   - src/src/memory/keywordSearch.ts, related.ts, digest.ts, citations.ts*)
(*   - the stand-ins of src/app/lib/demo-store.ts                          *)
(*                                                                         *)
(* A message is its age rank (a larger number is a newer message), a chunk *)
(* is a pair <<message, chunk_index>>, and a distance is the <#> score in  *)
(* hundredths above a perfect match, the smaller the nearer.  A hit is the *)
(* row as it was when the database read it: the message and its status.    *)
(***************************************************************************)
EXTENDS Naturals, Sequences, FiniteSets, FiniteSetsExt, SequencesExt

CONSTANTS
  MaxMessage,     \* bound: messages are 1..MaxMessage
  Mine,           \* messages of the signed-in user
  ThreadOf,       \* thread of each message
  Chunks,         \* rows of message_chunks
  Lookups,        \* queries of a few words
  Questions,      \* queries for which needsReasoning holds
  QueryDistance,  \* distance of each chunk to the embedding of a query
  ChunkDistance,  \* distance of each chunk to the first chunk of a message
  RareRows,       \* chunks that contain a rare word of a query
  WholeHits,      \* messages that contain the query as it was typed
  TermHits,       \* messages that contain a content word of the query
  Overlap,        \* the sample mailbox's ranking for a query, the best first
  DemoNear,       \* the sample mailbox's neighbours of a message
  Floor,          \* MATCH_THRESHOLD, DIGEST_THRESHOLD
  MatchCount,     \* MATCH_COUNT (8)
  DigestCount,    \* DIGEST_COUNT (12)
  RelatedCount    \* RELATED_COUNT (4)

Messages == 1..MaxMessage
Queries  == Lookups \cup Questions
Statuses == {"inbox", "draft", "trash"}
Hit      == [id : Messages, status : Statuses]

NeedsReasoning(q) == q \in Questions

ASSUME RetrievalAssumption ==
  /\ MaxMessage \in Nat /\ Mine \subseteq Messages
  /\ Chunks \subseteq Messages \X Nat /\ IsFiniteSet(Chunks)
  /\ QueryDistance \in [Queries -> [Chunks -> Nat]]
  /\ ChunkDistance \in [Messages -> [Chunks -> Nat]]
  /\ RareRows \in [Queries -> SUBSET Chunks]
  /\ WholeHits \in [Queries -> SUBSET Messages]
  /\ TermHits \in [Queries -> SUBSET Messages]
  /\ \A q \in Queries : WholeHits[q] \subseteq TermHits[q]
  /\ Overlap \in [Queries -> Seq(Mine)] /\ DemoNear \in [Messages -> Seq(Mine)]
  /\ \A q \in Queries : IsInjective(Overlap[q])
  /\ \A m \in Messages : IsInjective(DemoNear[m])
  /\ Floor \in Nat
  /\ {MatchCount, DigestCount, RelatedCount} \subseteq Nat \ {0}
  /\ Lookups \cap Questions = {}

(* The elements of S, which are numbers, by their scores, equal ones by    *)
(* their numbers; and what is at some places of a sequence, in its order.  *)
Before(m, n, score) == score[m] < score[n] \/ (score[m] = score[n] /\ m < n)

Ranked(S, score) ==
  [k \in 1..Cardinality(S) |->
     CHOOSE m \in S : Cardinality({n \in S : Before(n, m, score)}) = k - 1]

At(s, places) ==
  [k \in 1..Cardinality(places) |->
     s[CHOOSE i \in places : Cardinality({j \in places : j < i}) = k - 1]]

Take(s, n)        == SubSeq(s, 1, Min({n, Len(s)}))
Read(ids, status) == [i \in DOMAIN ids |-> [id |-> ids[i], status |-> status[ids[i]]]]
Ids(hits)         == [i \in DOMAIN hits |-> hits[i].id]
Without(hits, S)  == At(hits, {i \in DOMAIN hits : hits[i].status \notin S})

-----------------------------------------------------------------------------
(* match_messages: a message scores by its best chunk, the floor discards, *)
(* a year of age costs one hundredth.  No status is filtered before LIMIT. *)

ChunksOf(m)     == {c \in Chunks : c[1] = m}
Clears(m, dist) == \E c \in ChunksOf(m) : dist[c] <= Floor
Score(m, dist)  == Min({dist[c] : c \in ChunksOf(m)})
Age(m)          == MaxMessage - m

Nearest(dist) ==
  LET near == {m \in Mine : Clears(m, dist)}
  IN Ranked(near, [m \in near |-> Score(m, dist) + Age(m)])

NearestToQuery   == [q \in Queries |-> Nearest(QueryDistance[q])]
NearestToMessage == [m \in Messages |-> Nearest(ChunkDistance[m])]

MatchUserMessages(nearest, count, status) == Read(Take(nearest, count), status)

SearchByMeaning(q, status) == MatchUserMessages(NearestToQuery[q], MatchCount, status)

(* The rare words of a query: at most 4 * MatchCount chunk rows, in no     *)
(* particular order, one hit for each message, trash and drafts dropped    *)
(* after the limit.                                                        *)
RareHits(q, status) ==
  LET own   == {c \in RareRows[q] : c[1] \in Mine}
      rows  == kSubset(Min({4 * MatchCount, Cardinality(own)}), own)
      found == UNION {SetToSeqs({c[1] : c \in rs}) : rs \in rows}
  IN {Without(Read(Take(ids, MatchCount), status), {"trash", "draft"}) : ids \in found}

MergeRetrieval(preferred, rest, cap) ==
  LET first == Range(Ids(preferred))
  IN Take(preferred \o At(rest, {i \in DOMAIN rest : rest[i].id \notin first}), cap)

NewestFirst(S) == Ranked(S, [m \in S |-> Age(m)])

IlikeAny(found, status)    == Read(NewestFirst(found \cap Mine), status)
SearchByKeyword(q, status) == IlikeAny(TermHits[q], status)
SearchMessages(q, status)  == IlikeAny(WholeHits[q], status)

(* A defect: the trash is left to the client. *)
MessagesForDigest_KeepsTrash(q, status) ==
  Without(MatchUserMessages(NearestToQuery[q], DigestCount, status), {"draft"})

MessagesForDigest(q, status) ==
  Without(MatchUserMessages(NearestToQuery[q], DigestCount, status), {"trash", "draft"})

(* Of the hits, those of other threads than that of m. *)
Others(hits, m) ==
  At(hits, {i \in DOMAIN hits : /\ hits[i].id # m /\ ThreadOf[hits[i].id] # ThreadOf[m]
                                /\ hits[i].status # "trash"})

RelatedMessages(m, status) ==
  IF ChunksOf(m) = {} \/ m \notin Mine THEN <<>>
  ELSE Take(Others(MatchUserMessages(NearestToMessage[m], MatchCount + RelatedCount, status), m),
            RelatedCount)

-----------------------------------------------------------------------------
(* The model's text and what becomes of it.  A text is the set of numbers  *)
(* it cites and whether it says anything else.                             *)

Text      == [cites : SUBSET Nat, words : BOOLEAN]
NoText    == [cites |-> {}, words |-> FALSE]

ConstrainCitedNames(text, hits) == [text EXCEPT !.cites = @ \cap DOMAIN hits]
FallbackDigest(hits)            == [cites |-> DOMAIN hits, words |-> TRUE]

-----------------------------------------------------------------------------
(* The sample mailbox. *)

DemoSemanticHits(q, status) == Without(Read(Overlap[q], status), {"trash", "draft"})
DemoAnswer(hits)            == [cites |-> DOMAIN Take(hits, 4), words |-> TRUE]
DemoDigest(hits)            == [cites |-> DOMAIN Take(hits, 6), words |-> TRUE]
DemoRelated(m, status)      == Take(Others(Read(DemoNear[m], status), m), 4)
=============================================================================
