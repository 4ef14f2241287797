-------------------------------- MODULE Discovery --------------------------------
(***************************************************************************)
(* The daily scan of arXiv (scripts/research/discovery.mjs): one bounded   *)
(* request raced against a deadline.                                       *)
(*                                                                         *)
(* The answer arrives in chunks, may lie about its length, end early or be *)
(* no feed at all; the timer may fire before any of this, and the request  *)
(* goes on after it has.  Whatever settles first is the scan.  Text is not *)
(* modelled: an entry is an identifier, whether its metadata is sound, and *)
(* two dates; a size is a number of chunks.                                *)
(***************************************************************************)
EXTENDS Integers, SequencesExt

CONSTANTS
  Answers,              (* what the server may answer                      *)
  Today,                (* `now`                                           *)
  Lookback,             (* lookbackDays                                    *)
  MaxResults,
  MaxChunks,            (* MAX_FEED_BYTES                                  *)
  NotAtom,              (* a body that is no Atom feed                     *)
  NoTotal,              (* no totalResults; also: no content-length        *)
  NoScan

\* An entry as it was sent; identifiers are numbered in their order.
Entry == [id : Int, sound : BOOLEAN, published : Int, updated : Int]

ASSUME DiscoveryAssumption ==
  /\ Today \in Int /\ Lookback \in Nat \ {0} /\ MaxResults \in Nat \ {0}
  /\ MaxChunks \in Nat /\ NoTotal \notin Int
  /\ \A answer \in Answers :
       answer.body # NotAtom =>
         /\ answer.body.entries \in Seq(Entry)
         /\ answer.body.total \in Nat \cup {NoTotal}

VARIABLES
  request,              (* "unsent", "asking", "reading" or "settled"      *)
  response,             (* the answer being read                           *)
  chunks,               (* chunks of it read so far                        *)
  timer,                (* "unset", "set", "fired" or "cleared"            *)
  scan                  (* what discoverPapers returned                    *)

discoveryVars == <<request, response, chunks, timer, scan>>

-----------------------------------------------------------------------------
(* parseFeed and filterRecentPapers.                                       *)

\* A timestamp cannot run backwards; identifier, title, abstract, authors and
\* categories are sound together or not.
SoundEntry(entry) == entry.sound /\ entry.published =< entry.updated

\* An empty result must be confirmed by its total.
Parses(body) ==
  /\ body # NotAtom
  /\ body.entries = <<>> => body.total = 0
  /\ body.total # NoTotal => Len(body.entries) =< body.total
  /\ \A entry \in ToSet(body.entries) : SoundEntry(entry)

InWindow(paper) == Today - Lookback =< paper.published /\ paper.published =< Today

\* Of one paper the latest version, of two equally late ones the first.
LatestVersion(papers, i) ==
  \A j \in DOMAIN papers : papers[j].id = papers[i].id /\ InWindow(papers[j]) =>
    \/ papers[j].updated < papers[i].updated
    \/ (papers[j].updated = papers[i].updated /\ i =< j)

NewestFirst(a, b) ==
  a.published > b.published \/ (a.published = b.published /\ a.id < b.id)

FilterRecentPapers(papers) ==
  LET kept == {papers[i] : i \in {j \in DOMAIN papers :
                 InWindow(papers[j]) /\ LatestVersion(papers, j)}}
      sorted == CHOOSE s \in SetToSeqs(kept) :
                  \A i, j \in DOMAIN s : i < j => NewestFirst(s[i], s[j])
  IN  SubSeq(sorted, 1, IF Len(sorted) < MaxResults THEN Len(sorted) ELSE MaxResults)

Truncated(body) ==
  IF body.total = NoTotal THEN Len(body.entries) >= MaxResults
                          ELSE Len(body.entries) < body.total

CompleteScan(body) ==
  [papers |-> FilterRecentPapers(body.entries), truncated |-> Truncated(body),
   complete |-> TRUE]
FailedScan == [papers |-> <<>>, truncated |-> FALSE, complete |-> FALSE]

-----------------------------------------------------------------------------
(* discoverPapers.                                                         *)

Discover ==
  /\ request = "unsent"
  /\ request' = "asking" /\ timer' = "set"
  /\ UNCHANGED <<response, chunks, scan>>

\* Slip: the request returns its result whatever the deadline has returned.
SettleLate(result) ==
  /\ request' = "settled" /\ scan' = result
  /\ timer' = IF timer = "set" THEN "cleared" ELSE timer

\* The first to settle decides the race; it also clears the timer.
Settle(result) ==
  /\ request' = "settled"
  /\ IF scan = NoScan THEN scan' = result /\ timer' = "cleared"
     ELSE UNCHANGED <<scan, timer>>

\* An answer of another status or origin, or announced too long, is not read.
Respond ==
  /\ request = "asking"
  /\ response' \in Answers
  /\ IF response'.accepted /\ (response'.declared # NoTotal => response'.declared =< MaxChunks)
     THEN request' = "reading" /\ UNCHANGED <<timer, scan>>
     ELSE Settle(FailedScan)
  /\ UNCHANGED chunks

\* The reading stops as soon as it is too long.
ReadChunk ==
  /\ request = "reading" /\ chunks < response.chunks
  /\ chunks' = chunks + 1
  /\ IF chunks' > MaxChunks THEN Settle(FailedScan)
     ELSE UNCHANGED <<request, timer, scan>>
  /\ UNCHANGED response

\* A body cut short is malformed.
ReadEnd ==
  /\ request = "reading"
  /\ \/ chunks = response.chunks
        /\ Settle(IF Parses(response.body) THEN CompleteScan(response.body) ELSE FailedScan)
     \/ chunks < response.chunks /\ Settle(FailedScan)
  /\ UNCHANGED <<response, chunks>>

\* A network error, a redirect, or the abort once the race is over.
RequestFails ==
  /\ request \in {"asking", "reading"}
  /\ Settle(FailedScan)
  /\ UNCHANGED <<response, chunks>>

Deadline ==
  /\ timer = "set"
  /\ timer' = "fired" /\ scan' = FailedScan
  /\ UNCHANGED <<request, response, chunks>>

DiscoveryInit ==
  /\ request = "unsent" /\ response = NoScan /\ chunks = 0
  /\ timer = "unset" /\ scan = NoScan

DiscoveryNext ==
  Discover \/ Respond \/ ReadChunk \/ ReadEnd \/ RequestFails \/ Deadline

DiscoverySpec == DiscoveryInit /\ [][DiscoveryNext]_discoveryVars

-----------------------------------------------------------------------------
(* Properties.                                                             *)

\* The papers are the publications of the window among what was sent: each
\* once, in its latest version, newest first, and if there are more of them than
\* were asked for, the newest.
NamesNewest(papers, sent) ==
  LET new    == {i \in DOMAIN sent : InWindow(sent[i])}
      Of(id) == {i \in new : sent[i].id = id}
      named  == {paper.id : paper \in ToSet(papers)}
  IN  /\ named \subseteq {sent[i].id : i \in new}
      /\ \A i \in new : sent[i].id \notin named =>
           /\ Len(papers) = MaxResults
           /\ \E j \in Of(sent[i].id) :
                \A paper \in ToSet(papers) : sent[j].published =< paper.published
      /\ IsInjective([k \in DOMAIN papers |-> papers[k].id])
      /\ \A paper \in ToSet(papers) : \A i \in Of(paper.id) : sent[i].updated =< paper.updated
      /\ \A k, l \in DOMAIN papers : k < l => papers[l].published =< papers[k].published

\* A scan that calls itself complete read the whole answer before the deadline
\* and names the newest publications it holds; when it has none, the server
\* confirmed that there are none or all it sent are old.  A scan that is not
\* complete names no paper, so that neither can be taken for a novelty claim.
ScanIsWhole ==
  scan # NoScan =>
    IF ~scan.complete THEN scan.papers = <<>>
    ELSE LET body == response.body
         IN  /\ timer = "cleared" /\ chunks = response.chunks
             /\ body.entries = <<>> => body.total = 0
             /\ NamesNewest(scan.papers, body.entries)
             /\ scan.truncated \/ body.total \in {NoTotal, Len(body.entries)}
=============================================================================
