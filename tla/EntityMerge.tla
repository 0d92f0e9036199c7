----------------------------- MODULE EntityMerge -----------------------------
(***************************************************************************)
(* The entity registry under its administrator: merges, retypes and their  *)
(* undoing, while documents that mention an entity come in from this node  *)
(* and from its peers.                                                     *)
(*                                                                         *)
(* Two tables stand for all that name an entity: the links of documents,   *)
(* unique per document and entity, with a count, and redirected by a       *)
(* trigger; and facts, for the plain columns, which have none and take     *)
(* whatever entity their writer names.  Relationships, rewired and         *)
(* deduplicated like links but without the trigger, are left out.  Rows    *)
(* are never renumbered, so the tables are sequences and a deleted row     *)
(* stays behind as one that names nothing.                                 *)
(*                                                                         *)
(* The transaction of a call is one step; what the call checked before it  *)
(* is another.  So is the statement of a link with its trigger, which      *)
(* takes no lock: that a merge commits while it runs is left out.          *)
(***************************************************************************)
EXTENDS Integers, Sequences, FiniteSets, FiniteSetsExt

CONSTANTS
  Uri,
  Known,       \* entities of the registry to begin with
  Name,        \* normalised names, which serve as aliases
  NameOf,      \* entity_text of an entity
  Retyped,     \* the same name under another type: the URI encodes the type
  Doc,
  Event,       \* link events of peers
  DocOf, UriOf, \* what an event says
  Slot,        \* bound: calls of the administrator at once
  MaxLog,      \* bound: merges and retypes
  MaxMentions, \* bound: links this node asks for, by document
  MaxFacts,    \* bound
  MaxMergeChain,
  Live, Absent, Nowhere

ASSUME EntityAssumption ==
  /\ Known \subseteq Uri
  /\ NameOf \in [Uri -> Name]
  /\ Retyped \in [Uri -> SUBSET Uri] /\ \A u \in Uri : u \notin Retyped[u]
  /\ DocOf \in [Event -> Doc] /\ UriOf \in [Event -> Uri]
  /\ {Live, Absent, Nowhere} \intersect Uri = {}
  /\ Cardinality({Live, Absent, Nowhere}) = 3
  /\ MaxMergeChain \in Nat

VARIABLES
  merged,    \* merged_into: Live, a survivor, or Absent without a row
  aliases,
  links,     \* document_entity_links, in the order of their ids
  facts,     \* the entity a row of a plain column names, likewise
  applied,   \* federation_applied_events
  log,       \* entity_merge_log
  call,      \* what a call has checked and not yet done
  local,     \* links this node's documents have asked for, by document
  inOrder    \* merges have been undone last first

vars == <<merged, aliases, links, facts, applied, log, call, local, inOrder>>

Idle == [step |-> "idle", loser |-> Nowhere, survivor |-> Nowhere]

TypeOK ==
  /\ merged \in [Uri -> Uri \union {Live, Absent}]
  /\ aliases \in [Uri -> SUBSET Name]
  /\ \A i \in DOMAIN links :
       links[i] \in [doc : Doc, uri : Uri \union {Nowhere}, count : Nat \ {0},
                     home : Uri]
  /\ \A i, j \in DOMAIN links :
       links[i].uri = links[j].uri /\ links[i].doc = links[j].doc
         => i = j \/ links[i].uri = Nowhere
  /\ \A i \in DOMAIN facts : facts[i] \in [uri : Uri, home : Uri]
  /\ applied \subseteq Event
  /\ \A k \in DOMAIN log :
       /\ log[k].loser \in Uri /\ log[k].survivor \in Uri \ {log[k].loser}
       /\ log[k].links \subseteq DOMAIN links
       /\ log[k].facts \subseteq DOMAIN facts
       /\ log[k].added \subseteq Name
       /\ log[k].kind \in {"merge", "minted", "revived"}
       /\ log[k].back \in Uri \union {Nowhere}
       /\ log[k].reverted \in BOOLEAN
  /\ call \in [Slot -> [step : {"idle", "merge", "retype"},
                        loser : Uri \union {Nowhere},
                        survivor : Uri \union {Nowhere}]]
  /\ local \in [Doc -> Nat] /\ inOrder \in BOOLEAN

Init ==
  /\ merged = [u \in Uri |-> IF u \in Known THEN Live ELSE Absent]
  /\ aliases = [u \in Uri |-> {}]
  /\ links = <<>> /\ facts = <<>> /\ applied = {} /\ log = <<>>
  /\ call = [c \in Slot |-> Idle]
  /\ local = [d \in Doc |-> 0] /\ inOrder = TRUE

-----------------------------------------------------------------------------
(* Names and rows.                                                         *)

Tombstone(u) == merged[u] \in Uri

\* document_entity_links_live_entity_uri: the end of the chain, or u itself
\* when the chain is broken, turns in a circle or is too long.
LiveOf(u) ==
  LET hop[n \in 0 .. MaxMergeChain] ==
        IF n = 0 THEN u
        ELSE IF Tombstone(hop[n - 1]) THEN merged[hop[n - 1]] ELSE hop[n - 1]
  IN IF merged[hop[MaxMergeChain]] = Live THEN hop[MaxMergeChain] ELSE u

Rows(d, u) == {i \in DOMAIN links : links[i].doc = d /\ links[i].uri = u}

\* Fault: the row is written as it was asked for.
LinkUntold(d, u) ==
  IF Rows(d, u) # {}
    THEN links' = [i \in DOMAIN links |->
                     IF i \in Rows(d, u) THEN [links[i] EXCEPT !.count = @ + 1]
                                         ELSE links[i]]
    ELSE links' = Append(links, [doc |-> d, uri |-> u, count |-> 1, home |-> u])

\* INSERT ... ON CONFLICT DO UPDATE SET mention_count + 1, behind the trigger.
Link(d, u) ==
  LET v == LiveOf(u) IN
  IF Rows(d, v) # {}
    THEN links' = [i \in DOMAIN links |->
                     IF i \in Rows(d, v) THEN [links[i] EXCEPT !.count = @ + 1]
                                         ELSE links[i]]
    ELSE links' = Append(links, [doc |-> d, uri |-> v, count |-> 1, home |-> v])

\* /ingest links a document to the entity it resolved, which may have been
\* merged since.
Mention(d, u) ==
  /\ merged[u] # Absent /\ local[d] < MaxMentions
  /\ Link(d, u)
  /\ local' = [local EXCEPT ![d] = @ + 1]
  /\ UNCHANGED <<merged, aliases, facts, applied, log, call, inOrder>>

\* _apply_doclink: the idempotency row and the link are one transaction; an
\* event that comes again changes nothing.
ApplyDoclink(e) ==
  /\ e \notin applied
  /\ Link(DocOf[e], UriOf[e])
  /\ applied' = applied \union {e}
  /\ UNCHANGED <<merged, aliases, facts, log, call, local, inOrder>>

Fact(u) ==
  /\ Len(facts) < MaxFacts
  /\ facts' = Append(facts, [uri |-> u, home |-> u])
  /\ UNCHANGED <<merged, aliases, links, applied, log, call, local, inOrder>>

\* This node's writer resolves the entity, waits for an embedding, and inserts
\* the row: what it resolved may have been merged away by then.
AddFact(u) == merged[u] # Absent /\ Fact(u)

\* _insert_fact: a peer's fact names what the peer says, known here or not.
ApplyFact(u) == Fact(u)

-----------------------------------------------------------------------------
(* The merge proper, within the transaction of a call: reg and names are   *)
(* the registry and the aliases as the transaction has left them so far.   *)

\* Fault: rows that meet a row of the survivor are dropped with their count.
DropFolded(loser, survivor, to) ==
  [i \in DOMAIN links |->
     IF links[i].uri # loser THEN links[i]
     ELSE [links[i] EXCEPT !.uri =
             IF Rows(links[i].doc, survivor) # {} THEN Nowhere ELSE to]]

\* Fault: rows that meet a row of the survivor are renamed like the others.
RenameFolded(loser, survivor, to) ==
  [i \in DOMAIN links |->
     IF links[i].uri = loser THEN [links[i] EXCEPT !.uri = to] ELSE links[i]]

\* Fold the count of a row into the survivor's of the same document, drop it,
\* and rewrite the rest; the trigger sees what is rewritten.
FoldLinks(loser, survivor, to) ==
  [i \in DOMAIN links |->
     LET r == links[i]
         other(u) == Rows(r.doc, u)
     IN CASE r.uri = survivor /\ other(loser) # {} ->
               [r EXCEPT !.count = @ + links[CHOOSE j \in other(loser) : TRUE].count]
          [] r.uri = loser -> [r EXCEPT !.uri = IF other(survivor) # {}
                                                  THEN Nowhere ELSE to]
          [] OTHER -> r]

\* Fault: the survivor's own rows are captured with the loser's.
CaptureBoth(loser, survivor, known, own) ==
  [links |-> {i \in DOMAIN links : links[i].uri \in {loser, survivor}},
   facts |-> {i \in DOMAIN facts : facts[i].uri \in {loser, survivor}},
   added |-> known \ own]

\* Fault: aliases the survivor had already count as added.
CaptureOwned(loser, survivor, known, own) ==
  [links |-> {i \in DOMAIN links : links[i].uri = loser},
   facts |-> {i \in DOMAIN facts : facts[i].uri = loser},
   added |-> known]

\* capture_reversal: the ids of the loser's rows, and the aliases that are new
\* to the survivor.
Capture(loser, survivor, known, own) ==
  [links |-> {i \in DOMAIN links : links[i].uri = loser},
   facts |-> {i \in DOMAIN facts : facts[i].uri = loser},
   added |-> known \ own]

\* What the trigger makes of the survivor; a second row for one document and
\* entity is a unique violation, and the call fails.
Target(reg, survivor) == IF reg[survivor] = Live THEN survivor ELSE LiveOf(survivor)

DoMerge(reg, names, loser, survivor, kind, back) ==
  LET to    == Target(reg, survivor)
      known == IF reg[loser] = Absent THEN {} ELSE {NameOf[loser]} \union names[loser]
      undo  == Capture(loser, survivor, known, names[survivor])
  IN /\ reg[survivor] # Absent
     /\ to # survivor => \A i \in DOMAIN links :
            links[i].uri = loser => Rows(links[i].doc, to) = {}
     /\ links' = FoldLinks(loser, survivor, to)
     /\ facts' = [i \in DOMAIN facts |->
                    IF facts[i].uri = loser THEN [facts[i] EXCEPT !.uri = survivor]
                                            ELSE facts[i]]
     /\ aliases' = [names EXCEPT ![survivor] = @ \union known]
     /\ merged' = IF reg[loser] = Live THEN [reg EXCEPT ![loser] = survivor] ELSE reg
     /\ log' = Append(log, [loser |-> loser, survivor |-> survivor,
                            links |-> undo.links, facts |-> undo.facts,
                            added |-> undo.added, kind |-> kind, back |-> back,
                            reverted |-> FALSE])

-----------------------------------------------------------------------------
(* The calls.                                                              *)

Begin(c, step, loser, survivor) ==
  /\ call[c].step = "idle" /\ Len(log) < MaxLog
  /\ call' = [call EXCEPT ![c] = [step |-> step, loser |-> loser,
                                  survivor |-> survivor]]
  /\ UNCHANGED <<merged, aliases, links, facts, applied, log, local, inOrder>>

\* Fault: an entity may be merged into one that has been merged away.
CheckLoser(c, loser, survivor) ==
  /\ loser # survivor /\ merged[survivor] # Absent /\ merged[loser] = Live
  /\ Begin(c, "merge", loser, survivor)

\* merge_entities reads both rows before its transaction begins: any other
\* answer than these ends the call.
CheckMerge(c, loser, survivor) ==
  /\ loser # survivor /\ merged[survivor] = Live /\ merged[loser] = Live
  /\ Begin(c, "merge", loser, survivor)

\* retype_entity likewise.
CheckRetype(c, u, v) ==
  /\ merged[u] = Live /\ v \in Retyped[u]
  /\ Begin(c, "retype", u, v)

Merge(c) ==
  /\ call[c].step = "merge" /\ Len(log) < MaxLog
  /\ call' = [call EXCEPT ![c] = Idle]
  /\ DoMerge(merged, aliases, call[c].loser, call[c].survivor, "merge", Nowhere)
  /\ UNCHANGED <<applied, local, inOrder>>

\* The URI of the new type holds a live entity, which is the survivor; is
\* free, and a copy is minted; or is held by a tombstone of this very entity,
\* which is revived.
Retype(c) ==
  LET u == call[c].loser
      v == call[c].survivor
      reg == [merged EXCEPT ![v] = Live]
  IN /\ call[c].step = "retype" /\ Len(log) < MaxLog
     /\ call' = [call EXCEPT ![c] = Idle]
     /\ \/ merged[v] = Live /\ DoMerge(merged, aliases, u, v, "merge", Nowhere)
        \/ /\ merged[v] = Absent
           /\ DoMerge(reg, [aliases EXCEPT ![v] = aliases[u]], u, v, "minted", Nowhere)
        \/ /\ Tombstone(v) /\ LiveOf(v) = u
           /\ DoMerge(reg, aliases, u, v, "revived", merged[v])
     /\ UNCHANGED <<applied, local, inOrder>>

\* The transaction fails, or the process ends.
Fail(c) ==
  /\ call[c].step # "idle"
  /\ call' = [call EXCEPT ![c] = Idle]
  /\ UNCHANGED <<merged, aliases, links, facts, applied, log, local, inOrder>>

\* The survivor of a retype goes the way it came: a minted one is deleted,
\* unless something is still merged into it; a revived one is a tombstone
\* again.
PutBack(m, reg) ==
  CASE m.kind = "minted"  -> [reg EXCEPT ![m.survivor] = Absent]
    [] m.kind = "revived" -> [reg EXCEPT ![m.survivor] = m.back]
    [] OTHER              -> reg

\* unmerge: the captured rows that still name the survivor name the loser
\* again, and the aliases the merge has added are taken away.
Unmerge(k) ==
  LET m == log[k]
      reg == [merged EXCEPT ![m.loser] = Live]
  IN /\ \E c \in Slot : call[c].step = "idle"
     /\ ~m.reverted /\ merged[m.loser] = m.survivor
     /\ \A i \in m.links : links[i].uri = m.survivor
                             => Rows(links[i].doc, m.loser) = {}
     /\ m.kind = "minted" => \A u \in Uri : reg[u] # m.survivor
     /\ m.kind = "revived" => merged[m.back] # Absent
     /\ merged' = PutBack(m, reg)
     /\ links' = [i \in DOMAIN links |->
                    IF i \in m.links /\ links[i].uri = m.survivor
                      THEN [links[i] EXCEPT !.uri = m.loser] ELSE links[i]]
     /\ facts' = [i \in DOMAIN facts |->
                    IF i \in m.facts /\ facts[i].uri = m.survivor
                      THEN [facts[i] EXCEPT !.uri = m.loser] ELSE facts[i]]
     /\ aliases' = [aliases EXCEPT ![m.survivor] =
                      IF m.kind = "minted" THEN {} ELSE @ \ m.added]
     /\ log' = [log EXCEPT ![k].reverted = TRUE]
     /\ inOrder' = (inOrder /\ \A n \in DOMAIN log : n > k => log[n].reverted)
     /\ UNCHANGED <<applied, call, local>>

Next ==
  \/ \E d \in Doc, u \in Uri : Mention(d, u)
  \/ \E e \in Event : ApplyDoclink(e)
  \/ \E u \in Uri : AddFact(u) \/ ApplyFact(u)
  \/ \E c \in Slot :
       \/ \E u, v \in Uri : CheckMerge(c, u, v) \/ CheckRetype(c, u, v)
       \/ Merge(c) \/ Retype(c) \/ Fail(c)
  \/ \E k \in DOMAIN log : Unmerge(k)

Spec == Init /\ [][Next]_vars

-----------------------------------------------------------------------------
(* Properties.                                                             *)

Present == {i \in DOMAIN links : links[i].uri # Nowhere}

\* A document is linked as often as it was asked for, by this node and by the
\* distinct events of its peers: no fold, redirection or undoing loses or
\* doubles a mention.
MentionsAreKept ==
  \A d \in Doc :
    MapThenSumSet(LAMBDA i : links[i].count, {i \in Present : links[i].doc = d})
      = local[d] + Cardinality({e \in applied : DocOf[e] = d})

\* No survivor that a retype revived has been made a tombstone again.
RevivedIsKept == \A k \in DOMAIN log : log[k].kind = "revived" => ~log[k].reverted

\* No link names an entity that was merged away, whatever its writer asked for
\* and however merges, retypes and undoings follow one another, until a revived
\* survivor is put back: what it has gained is left where it is.
LinksNameLive ==
  RevivedIsKept => \A i \in Present : ~Tombstone(links[i].uri)

\* Every tombstone leads to a live entity, until a revived one is put back.
ResolvesToLive ==
  RevivedIsKept => \A u \in Uri : merged[u] # Absent => merged[LiveOf(u)] = Live

\* The survivor of the last merge that has moved a row and is not undone.
Placed(home, ks) ==
  IF ks = {} THEN home
             ELSE log[CHOOSE k \in ks : \A n \in ks : n <= k].survivor

\* The merges in force that have moved a row.
LinkMoves(i) == {k \in DOMAIN log : ~log[k].reverted /\ i \in log[k].links}
FactMoves(i) == {k \in DOMAIN log : ~log[k].reverted /\ i \in log[k].facts}

\* Undone last first, merges put every row back where it was, and leave what
\* came since where it is; only a row folded into another is gone.
UndoIsExact ==
  inOrder =>
    /\ \A i \in Present : links[i].uri = Placed(links[i].home, LinkMoves(i))
    /\ \A i \in DOMAIN facts : facts[i].uri = Placed(facts[i].home, FactMoves(i))

\* "the survivor stays findable by the loser's name(s)", as long as merges are
\* undone last first.
Findable ==
  inOrder => \A u \in Uri : Tombstone(u) => NameOf[u] \in aliases[LiveOf(u)]

\* "the graph is byte-for-byte back where it started".
RoundTrip ==
  inOrder /\ (\A k \in DOMAIN log : log[k].reverted) =>
    \A i \in DOMAIN links : links[i].uri = links[i].home

\* "merging into a tombstone would create a stale chain": without exception.
NoStaleChain == \A u \in Uri : merged[u] # Absent => merged[LiveOf(u)] = Live

\* "Refuses anything it cannot reverse exactly": once every merge is undone, in
\* whatever order, each row that was not folded is back.
UndoneIsBack ==
  (\A k \in DOMAIN log : log[k].reverted) =>
    \A i \in Present : links[i].uri = links[i].home

\* "never hand back a tombstone": what a fact names has not been merged away.
FactsNameLive == RevivedIsKept => \A i \in DOMAIN facts : ~Tombstone(facts[i].uri)

\* The names of what was merged find the survivor, whatever is undone.
StaysFindable == \A u \in Uri : Tombstone(u) => NameOf[u] \in aliases[LiveOf(u)]

=============================================================================
