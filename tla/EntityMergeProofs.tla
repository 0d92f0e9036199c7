-------------------------- MODULE EntityMergeProofs --------------------------
(***************************************************************************)
(* Proofs about EntityMerge.                                               *)
(***************************************************************************)
EXTENDS EntityMerge, FiniteSetTheorems, WellFoundedInduction, TLAPS

-----------------------------------------------------------------------------
(* Induction, by the least counterexample, and the chains it is needed for. *)

Below == {ss \in Nat \X Nat : ss[1] < ss[2]}

LEMMA LeastNumber ==
  ASSUME NEW T \in SUBSET Nat, T # {}
  PROVE  \E m \in T : \A n \in T : m <= n
<1>1. IsWellFoundedOn(Below, Nat)
  BY NatLessThanWellFounded DEF OpToRel, Below
<1>2. PICK m \in T : \A n \in T : <<n, m>> \notin Below
  BY <1>1, WFMin
<1>3. ASSUME NEW n \in T
      PROVE  m <= n
  <2>1. ~(n < m)
    BY <1>2 DEF Below
  <2>. QED
    BY <2>1
<1>. QED
  BY <1>3

\* The n hops from u along merged_into, as the function LiveOf is built from.
Hops(f, u, m) ==
  f = [n \in 0 .. m |->
         IF n = 0 THEN u
         ELSE IF Tombstone(f[n - 1]) THEN merged[f[n - 1]] ELSE f[n - 1]]

LEMMA HopsExist ==
  ASSUME NEW u, NEW m \in Nat
  PROVE  \E f : Hops(f, u, m)
<1> DEFINE T == {n \in Nat : ~\E f : Hops(f, u, n)}
<1>1. SUFFICES ASSUME T # {} PROVE FALSE
  OBVIOUS
<1>2. PICK n \in T : \A k \in T : n <= k
  BY <1>1, LeastNumber
<1>3. CASE n = 0
  <2>1. Hops([k \in 0 .. 0 |-> u], u, 0)
    BY DEF Hops
  <2>. QED
    BY <1>3, <2>1
<1>4. CASE n # 0
  <2>1. n - 1 \in Nat /\ n - 1 \notin T
    BY <1>2, <1>4
  <2>2. PICK f : Hops(f, u, n - 1)
    BY <2>1
  <2> DEFINE g == [k \in 0 .. n |->
                     IF k = 0 THEN u
                     ELSE IF Tombstone(f[k - 1]) THEN merged[f[k - 1]] ELSE f[k - 1]]
  <2>3. \A k \in 0 .. n - 1 : g[k] = f[k]
    BY <2>1, <2>2 DEF Hops
  <2>4. \A k \in 0 .. n : k # 0 => k - 1 \in 0 .. n - 1
    BY <2>1
  <2>5. g = [k \in 0 .. n |->
               IF k = 0 THEN u
               ELSE IF Tombstone(g[k - 1]) THEN merged[g[k - 1]] ELSE g[k - 1]]
    BY <2>3, <2>4
  <2>6. Hops(g, u, n)
    BY <2>5 DEF Hops
  <2>. QED
    BY <2>6
<1>. QED
  BY <1>3, <1>4

RegistryType == merged \in [Uri -> Uri \union {Live, Absent}]

\* A walk of MaxMergeChain hops, in the terms the proofs use.
Walk(f, u) ==
  /\ f \in [0 .. MaxMergeChain -> Uri] /\ f[0] = u
  /\ \A n \in 0 .. MaxMergeChain - 1 :
       f[n + 1] = IF Tombstone(f[n]) THEN merged[f[n]] ELSE f[n]

LEMMA LiveOfWalks ==
  ASSUME RegistryType, NEW u \in Uri
  PROVE  \E f : /\ Walk(f, u)
                /\ LiveOf(u) = IF merged[f[MaxMergeChain]] = Live
                                 THEN f[MaxMergeChain] ELSE u
<1> DEFINE M == MaxMergeChain
           f == CHOOSE g : Hops(g, u, M)
<1>0. M \in Nat
  BY EntityAssumption
<1>1. Hops(f, u, M)
  BY <1>0, HopsExist
<1>2. LiveOf(u) = IF merged[f[M]] = Live THEN f[M] ELSE u
  BY DEF LiveOf, Hops
<1> HIDE DEF f
<1>3. /\ f[0] = u
      /\ \A n \in 1 .. M :
           f[n] = IF Tombstone(f[n - 1]) THEN merged[f[n - 1]] ELSE f[n - 1]
  BY <1>0, <1>1 DEF Hops
<1>4. \A n \in 0 .. M - 1 :
        f[n + 1] = IF Tombstone(f[n]) THEN merged[f[n]] ELSE f[n]
  BY <1>0, <1>3
<1> DEFINE T == {n \in 0 .. M : f[n] \notin Uri}
<1>5. T = {}
  <2>1. SUFFICES ASSUME T # {} PROVE FALSE
    OBVIOUS
  <2>2. PICK n \in T : \A k \in T : n <= k
    <3>1. T \in SUBSET Nat
      BY <1>0
    <3> HIDE DEF T
    <3>. QED
      BY <2>1, <3>1, LeastNumber
  <2>3. n # 0
    BY <1>3
  <2>4. n - 1 \in 0 .. M - 1 /\ f[n - 1] \in Uri
    BY <1>0, <2>2, <2>3
  <2>5. f[n] \in Uri
    BY <1>4, <2>4 DEF Tombstone
  <2>. QED
    BY <2>5
<1>6. f \in [0 .. M -> Uri]
  BY <1>0, <1>1, <1>5 DEF Hops
<1>. QED
  BY <1>2, <1>3, <1>4, <1>6 DEF Walk

LEMMA LiveOfType ==
  ASSUME RegistryType, NEW u \in Uri
  PROVE  LiveOf(u) \in Uri /\ (LiveOf(u) # u => merged[LiveOf(u)] = Live)
<1>1. MaxMergeChain \in 0 .. MaxMergeChain
  BY EntityAssumption
<1>. QED
  BY <1>1, LiveOfWalks DEF Walk

-----------------------------------------------------------------------------
(* Types.  Rows and entries are sequences, what a call has checked names two *)
(* entities, and a revived survivor has one to go back to.                  *)

LinkRow == [doc : Doc, uri : Uri \union {Nowhere}, count : Nat \ {0}, home : Uri]
FactRow == [uri : Uri, home : Uri]

Entry ==
  [loser : Uri, survivor : Uri, links : SUBSET Nat, facts : SUBSET Nat,
   added : SUBSET Name, kind : {"merge", "minted", "revived"},
   back : Uri \union {Nowhere}, reverted : BOOLEAN]

OneRow ==
  \A i, j \in DOMAIN links :
    links[i].uri = links[j].uri /\ links[i].doc = links[j].doc
      => i = j \/ links[i].uri = Nowhere

LinksType == links \in Seq(LinkRow) /\ OneRow

FactsType == facts \in Seq(FactRow)

LogType ==
  /\ log \in Seq(Entry)
  /\ \A k \in DOMAIN log :
       /\ log[k].loser # log[k].survivor
       /\ log[k].links \subseteq DOMAIN links /\ log[k].facts \subseteq DOMAIN facts
       /\ log[k].kind = "revived" => log[k].back \in Uri

CallsType ==
  /\ call \in [Slot -> [step : {"idle", "merge", "retype"},
                        loser : Uri \union {Nowhere},
                        survivor : Uri \union {Nowhere}]]
  /\ \A c \in Slot : call[c].step # "idle" =>
       call[c].loser \in Uri /\ call[c].survivor \in Uri \ {call[c].loser}

TypeInv ==
  /\ RegistryType /\ aliases \in [Uri -> SUBSET Name]
  /\ LinksType /\ FactsType /\ applied \subseteq Event
  /\ LogType /\ CallsType
  /\ local \in [Doc -> Nat] /\ inOrder \in BOOLEAN

LEMMA TypeInvImpliesTypeOK == TypeInv => TypeOK
<1> SUFFICES ASSUME TypeInv PROVE TypeOK
  OBVIOUS
<1>1. \A i \in DOMAIN links : links[i] \in LinkRow
  BY DEF TypeInv, LinksType
<1>2. \A i \in DOMAIN facts : facts[i] \in FactRow
  BY DEF TypeInv, FactsType
<1>3. \A k \in DOMAIN log : log[k] \in Entry
  BY DEF TypeInv, LogType
<1>. QED
  BY <1>1, <1>2, <1>3
     DEF TypeInv, TypeOK, RegistryType, LinksType, LogType, CallsType, LinkRow,
         FactRow, Entry, OneRow

\* What Link does: it counts one up, or adds a row.
Counted(d, v) ==
  \E i \in DOMAIN links :
    /\ links[i].doc = d /\ links[i].uri = v
    /\ links' = [links EXCEPT ![i].count = @ + 1]

Added(d, v) ==
  /\ Rows(d, v) = {}
  /\ links' = Append(links, [doc |-> d, uri |-> v, count |-> 1, home |-> v])

LEMMA LinkEffect ==
  ASSUME LinksType, NEW d \in Doc, NEW u \in Uri,
         LiveOf(u) \in Uri, Link(d, u)
  PROVE  Counted(d, LiveOf(u)) \/ Added(d, LiveOf(u))
<1> DEFINE v == LiveOf(u)
<1> HIDE DEF v
<1>1. CASE Rows(d, v) # {}
  <2>1. PICK i \in Rows(d, v) : TRUE
    BY <1>1
  <2>2. /\ i \in DOMAIN links /\ links[i].doc = d /\ links[i].uri = v
        /\ v \in Uri
    BY <2>1 DEF Rows, v
  <2>3. \A j \in DOMAIN links : j \in Rows(d, v) <=> j = i
    BY EntityAssumption, <2>2 DEF LinksType, OneRow, Rows
  <2>4. links' = [j \in DOMAIN links |->
                    IF j \in Rows(d, v) THEN [links[j] EXCEPT !.count = @ + 1]
                                        ELSE links[j]]
    BY <1>1 DEF Link, v
  <2>5. links' = [links EXCEPT ![i].count = @ + 1]
    BY <2>2, <2>3, <2>4 DEF LinksType
  <2>. QED
    BY <2>2, <2>5 DEF Counted, v
<1>2. CASE Rows(d, v) = {}
  BY <1>2 DEF Link, Added, v
<1>. QED
  BY <1>1, <1>2 DEF v

LEMMA LinkTypes ==
  ASSUME LinksType, NEW d \in Doc, NEW v \in Uri,
         Counted(d, v) \/ Added(d, v)
  PROVE  /\ LinksType' /\ DOMAIN links \subseteq DOMAIN links'
         /\ \A i \in DOMAIN links :
              /\ links'[i].doc = links[i].doc /\ links'[i].uri = links[i].uri
              /\ links'[i].home = links[i].home
         /\ \A i \in DOMAIN links' : i \notin DOMAIN links =>
              /\ i = Len(links) + 1 /\ links'[i].doc = d
              /\ links'[i].uri = v /\ links'[i].home = v
<1>0. \A i \in DOMAIN links : links[i] \in LinkRow
  BY DEF LinksType
<1>1. CASE Counted(d, v)
  <2>1. PICK i \in DOMAIN links :
          /\ links[i].doc = d /\ links[i].uri = v
          /\ links' = [links EXCEPT ![i].count = @ + 1]
    BY <1>1 DEF Counted
  <2>2. [links[i] EXCEPT !.count = @ + 1] \in LinkRow
    BY <1>0 DEF LinkRow
  <2>3. links' \in Seq(LinkRow) /\ DOMAIN links' = DOMAIN links
    BY <2>1, <2>2 DEF LinksType
  <2>4. \A j \in DOMAIN links :
          /\ links'[j].doc = links[j].doc /\ links'[j].uri = links[j].uri
          /\ links'[j].home = links[j].home
    BY <1>0, <2>1 DEF LinkRow
  <2>. QED
    BY <2>3, <2>4 DEF LinksType, OneRow
<1>2. CASE Added(d, v)
  <2> DEFINE r == [doc |-> d, uri |-> v, count |-> 1, home |-> v]
  <2>1. r \in LinkRow
    BY DEF LinkRow
  <2> HIDE DEF r
  <2>2. links' = Append(links, r)
    BY <1>2 DEF Added, r
  <2>3. /\ links' \in Seq(LinkRow) /\ DOMAIN links' = 1 .. Len(links) + 1
        /\ DOMAIN links = 1 .. Len(links) /\ Len(links) \in Nat
        /\ \A j \in DOMAIN links : links'[j] = links[j]
        /\ links'[Len(links) + 1] = r
    BY <2>1, <2>2 DEF LinksType
  <2>4. r.doc = d /\ r.uri = v /\ r.home = v
    BY DEF r
  <2>5. \A j \in DOMAIN links : links[j].doc = d => links[j].uri # v
    BY <1>2 DEF Added, Rows
  <2>6. OneRow'
    <3> SUFFICES ASSUME NEW i \in DOMAIN links', NEW j \in DOMAIN links',
                        links'[i].uri = links'[j].uri, links'[i].doc = links'[j].doc
                 PROVE  i = j \/ links'[i].uri = Nowhere
      BY DEF OneRow
    <3>1. CASE i \in DOMAIN links /\ j \in DOMAIN links
      BY <2>3, <3>1 DEF LinksType, OneRow
    <3>2. CASE i \in DOMAIN links /\ j = Len(links) + 1
      BY <2>3, <2>4, <2>5, <3>2
    <3>3. CASE i = Len(links) + 1 /\ j \in DOMAIN links
      BY <2>3, <2>4, <2>5, <3>3
    <3>. QED
      BY <2>3, <3>1, <3>2, <3>3
  <2>. QED
    BY <2>3, <2>4, <2>6 DEF LinksType
<1>. QED
  BY <1>1, <1>2

\* What a fold leaves of each row.
Folded(g, loser, survivor, to) ==
  /\ g \in Seq(LinkRow) /\ DOMAIN g = DOMAIN links
  /\ \A i \in DOMAIN links :
       /\ g[i].doc = links[i].doc /\ g[i].home = links[i].home
       /\ g[i].uri = IF links[i].uri # loser THEN links[i].uri
                     ELSE IF Rows(links[i].doc, survivor) # {} THEN Nowhere ELSE to

LEMMA FoldEffect ==
  ASSUME LinksType, NEW loser \in Uri, NEW survivor \in Uri,
         loser # survivor, NEW to \in Uri
  PROVE  Folded(FoldLinks(loser, survivor, to), loser, survivor, to)
<1> DEFINE g == FoldLinks(loser, survivor, to)
<1>1. \A i \in DOMAIN links : links[i] \in LinkRow
  BY DEF LinksType
<1>2. ASSUME NEW i \in DOMAIN links
      PROVE  /\ g[i] \in LinkRow
             /\ g[i].doc = links[i].doc /\ g[i].home = links[i].home
             /\ g[i].uri = IF links[i].uri # loser THEN links[i].uri
                           ELSE IF Rows(links[i].doc, survivor) # {}
                                  THEN Nowhere ELSE to
  <2>1. CASE links[i].uri = survivor /\ Rows(links[i].doc, loser) # {}
    <3> DEFINE j == CHOOSE n \in Rows(links[i].doc, loser) : TRUE
    <3>1. j \in DOMAIN links
      BY <2>1 DEF Rows
    <3>2. g[i] = [links[i] EXCEPT !.count = @ + links[j].count]
      BY <2>1 DEF FoldLinks
    <3> HIDE DEF j
    <3>. QED
      BY <1>1, <2>1, <3>1, <3>2 DEF LinkRow
  <2>2. CASE links[i].uri = loser
    <3>1. g[i] = [links[i] EXCEPT !.uri = IF Rows(links[i].doc, survivor) # {}
                                            THEN Nowhere ELSE to]
      BY <2>2 DEF FoldLinks
    <3>. QED
      BY <1>1, <2>2, <3>1 DEF LinkRow
  <2>3. CASE links[i].uri # loser
             /\ ~(links[i].uri = survivor /\ Rows(links[i].doc, loser) # {})
    <3>1. g[i] = links[i]
      BY <2>3 DEF FoldLinks
    <3>. QED
      BY <1>1, <2>3, <3>1
  <2>. QED
    BY <2>1, <2>2, <2>3
<1>3. g \in [DOMAIN links -> LinkRow] /\ DOMAIN g = DOMAIN links
  BY <1>2 DEF FoldLinks
<1>4. g \in Seq(LinkRow)
  BY <1>3 DEF LinksType
<1>. QED
  BY <1>2, <1>3, <1>4 DEF Folded

\* What the trigger makes of a survivor.
LEMMA TargetType ==
  ASSUME RegistryType, NEW reg, NEW survivor \in Uri
  PROVE  Target(reg, survivor) \in Uri
BY LiveOfType DEF Target

LEMMA MergeTypes ==
  ASSUME TypeInv,
         NEW reg \in [Uri -> Uri \union {Live, Absent}],
         NEW names \in [Uri -> SUBSET Name],
         NEW loser \in Uri, NEW survivor \in Uri, loser # survivor,
         NEW kind \in {"merge", "minted", "revived"},
         NEW back \in Uri \union {Nowhere}, kind = "revived" => back \in Uri,
         DoMerge(reg, names, loser, survivor, kind, back)
  PROVE  RegistryType' /\ aliases' \in [Uri -> SUBSET Name]
         /\ LinksType' /\ FactsType' /\ LogType'
<1> DEFINE to == Target(reg, survivor)
           known == IF reg[loser] = Absent THEN {} ELSE {NameOf[loser]} \union names[loser]
           undo == Capture(loser, survivor, known, names[survivor])
           entry == [loser |-> loser, survivor |-> survivor,
                     links |-> undo.links, facts |-> undo.facts,
                     added |-> undo.added, kind |-> kind, back |-> back,
                     reverted |-> FALSE]
<1>1. to \in Uri /\ known \in SUBSET Name
  BY EntityAssumption, TargetType DEF TypeInv
<1>2. links' = FoldLinks(loser, survivor, to)
  BY DEF DoMerge
<1>3. to # survivor =>
        \A i \in DOMAIN links : links[i].uri = loser => Rows(links[i].doc, to) = {}
  BY DEF DoMerge
<1>4. RegistryType' /\ aliases' \in [Uri -> SUBSET Name]
  BY <1>1 DEF DoMerge, RegistryType
<1>5. LinksType' /\ DOMAIN links' = DOMAIN links
  <2> HIDE DEF to
  <2>1. /\ links' \in Seq(LinkRow) /\ DOMAIN links' = DOMAIN links
        /\ \A i \in DOMAIN links :
             /\ links'[i].doc = links[i].doc
             /\ links'[i].uri = IF links[i].uri # loser THEN links[i].uri
                                ELSE IF Rows(links[i].doc, survivor) # {}
                                       THEN Nowhere ELSE to
    <3>1. LinksType /\ to \in Uri
      BY <1>1 DEF TypeInv
    <3>2. Folded(FoldLinks(loser, survivor, to), loser, survivor, to)
      BY <3>1, FoldEffect
    <3>. QED
      BY <1>2, <3>2 DEF Folded
  <2>2. \A i, j \in DOMAIN links :
          links[i].uri = loser /\ links[j].uri # loser /\ links[i].doc = links[j].doc
            => links'[i].uri # links[j].uri \/ links'[i].uri = Nowhere
    BY <1>3, <2>1 DEF Rows
  <2>3. OneRow'
    <3> SUFFICES ASSUME NEW i \in DOMAIN links, NEW j \in DOMAIN links, i # j,
                        links'[i].uri = links'[j].uri, links'[i].doc = links'[j].doc
                 PROVE  links'[i].uri = Nowhere
      BY <2>1 DEF OneRow
    <3>1. links[i].doc = links[j].doc
      BY <2>1
    <3>2. links[i].uri = links[j].uri => links[i].uri = Nowhere
      BY <3>1 DEF TypeInv, LinksType, OneRow
    <3>3. loser # Nowhere
      BY EntityAssumption
    <3>. QED
      BY <2>1, <2>2, <3>1, <3>2, <3>3
  <2>. QED
    BY <2>1, <2>3 DEF LinksType
<1>6. FactsType' /\ DOMAIN facts' = DOMAIN facts
  <2>1. \A i \in DOMAIN facts : facts[i] \in FactRow
    BY DEF TypeInv, FactsType
  <2>2. \A i \in DOMAIN facts : [facts[i] EXCEPT !.uri = survivor] \in FactRow
    BY <2>1 DEF FactRow
  <2>3. facts' \in [DOMAIN facts -> FactRow] /\ DOMAIN facts' = DOMAIN facts
    BY <2>1, <2>2 DEF DoMerge
  <2>. QED
    BY <2>3 DEF TypeInv, FactsType
<1>7. undo.links \subseteq DOMAIN links /\ undo.facts \subseteq DOMAIN facts
      /\ undo.added \subseteq Name
  BY <1>1 DEF Capture
<1>8. entry \in Entry
  <2>1. DOMAIN links \subseteq Nat /\ DOMAIN facts \subseteq Nat
    BY DEF TypeInv, LinksType, FactsType
  <2>. QED
    BY <1>7, <2>1 DEF Entry
<1>9. log' = Append(log, entry)
  BY DEF DoMerge
<1>10. LogType'
  <2>1. entry.loser # entry.survivor /\ entry.links \subseteq DOMAIN links
        /\ entry.facts \subseteq DOMAIN facts
        /\ (entry.kind = "revived" => entry.back \in Uri)
    BY <1>7
  <2> HIDE DEF entry
  <2>2. /\ log' \in Seq(Entry) /\ DOMAIN log' = 1 .. Len(log) + 1
        /\ DOMAIN log = 1 .. Len(log) /\ Len(log) \in Nat
        /\ \A k \in DOMAIN log : log'[k] = log[k]
        /\ log'[Len(log) + 1] = entry
    BY <1>8, <1>9 DEF TypeInv, LogType
  <2>3. \A k \in DOMAIN log' : k \in DOMAIN log \/ k = Len(log) + 1
    BY <2>2
  <2>. QED
    BY <1>5, <1>6, <2>1, <2>2, <2>3 DEF TypeInv, LogType
<1>. QED
  BY <1>4, <1>5, <1>6, <1>10

\* A merge that is undone is one of the log's.
LEMMA EntryShape ==
  ASSUME LogType, NEW k \in DOMAIN log
  PROVE  /\ log[k] \in Entry
         /\ log[k].loser \in Uri /\ log[k].survivor \in Uri
         /\ log[k].loser # log[k].survivor
         /\ log[k].links \subseteq DOMAIN links /\ log[k].facts \subseteq DOMAIN facts
         /\ log[k].added \subseteq Name /\ log[k].reverted \in BOOLEAN
         /\ log[k].kind = "revived" => log[k].back \in Uri
<1>1. log[k] \in Entry
  BY DEF LogType
<1>. QED
  BY <1>1 DEF LogType, Entry

LEMMA UnmergeTypes ==
  ASSUME TypeInv, NEW k \in DOMAIN log, Unmerge(k)
  PROVE  TypeInv'
<1> DEFINE m == log[k]
           reg == [merged EXCEPT ![m.loser] = Live]
<1>1. /\ m \in Entry
      /\ m.loser \in Uri /\ m.survivor \in Uri /\ m.loser # m.survivor
      /\ m.links \subseteq DOMAIN links /\ m.facts \subseteq DOMAIN facts
      /\ m.added \subseteq Name
      /\ m.kind = "revived" => m.back \in Uri
  BY EntryShape DEF TypeInv
<1> HIDE DEF m
<1>2. reg \in [Uri -> Uri \union {Live, Absent}]
  BY <1>1 DEF TypeInv, RegistryType
<1>3. RegistryType'
  <2>1. merged' = PutBack(m, reg)
    BY DEF Unmerge, m
  <2> HIDE DEF reg
  <2>. QED
    BY <1>1, <1>2, <2>1 DEF PutBack, RegistryType
<1>4. aliases' \in [Uri -> SUBSET Name]
  BY <1>1 DEF Unmerge, TypeInv, m
<1>5. LinksType' /\ DOMAIN links' = DOMAIN links
  <2>1. \A i \in DOMAIN links : links[i] \in LinkRow
    BY DEF TypeInv, LinksType
  <2>2. links' = [i \in DOMAIN links |->
                    IF i \in m.links /\ links[i].uri = m.survivor
                      THEN [links[i] EXCEPT !.uri = m.loser] ELSE links[i]]
    BY DEF Unmerge, m
  <2>3. \A i \in DOMAIN links :
          /\ links'[i] \in LinkRow /\ links'[i].doc = links[i].doc
          /\ links'[i].uri = IF i \in m.links /\ links[i].uri = m.survivor
                               THEN m.loser ELSE links[i].uri
    BY <1>1, <2>1, <2>2 DEF LinkRow
  <2>4. links' \in Seq(LinkRow) /\ DOMAIN links' = DOMAIN links
    <3>1. links' \in [DOMAIN links -> LinkRow]
      BY <2>2, <2>3
    <3>. QED
      BY <3>1 DEF TypeInv, LinksType
  <2>5. \A i, j \in DOMAIN links :
          /\ i \in m.links /\ links[i].uri = m.survivor
          /\ ~(j \in m.links /\ links[j].uri = m.survivor)
          => ~(links[j].uri = m.loser /\ links[j].doc = links[i].doc)
    BY DEF Unmerge, Rows, m
  <2>6. m.loser # Nowhere /\ m.survivor # Nowhere
    BY EntityAssumption, <1>1
  <2>7. OneRow'
    <3> SUFFICES ASSUME NEW i \in DOMAIN links, NEW j \in DOMAIN links, i # j,
                        links'[i].uri = links'[j].uri, links'[i].doc = links'[j].doc
                 PROVE  links'[i].uri = Nowhere
      BY <2>4 DEF OneRow
    <3>1. links[i].doc = links[j].doc
      BY <2>3
    <3>2. links[i].uri = links[j].uri => links[i].uri = Nowhere
      BY <3>1 DEF TypeInv, LinksType, OneRow
    <3>. QED
      BY <2>3, <2>5, <2>6, <3>1, <3>2
  <2>. QED
    BY <2>4, <2>7 DEF LinksType
<1>6. FactsType' /\ DOMAIN facts' = DOMAIN facts
  <2>1. \A i \in DOMAIN facts : facts[i] \in FactRow
    BY DEF TypeInv, FactsType
  <2>2. facts' = [i \in DOMAIN facts |->
                    IF i \in m.facts /\ facts[i].uri = m.survivor
                      THEN [facts[i] EXCEPT !.uri = m.loser] ELSE facts[i]]
    BY DEF Unmerge, m
  <2>3. \A i \in DOMAIN facts : [facts[i] EXCEPT !.uri = m.loser] \in FactRow
    BY <1>1, <2>1 DEF FactRow
  <2>4. facts' \in [DOMAIN facts -> FactRow]
    BY <2>1, <2>2, <2>3
  <2>. QED
    BY <2>4 DEF TypeInv, FactsType
<1>7. LogType'
  <2>1. log' = [log EXCEPT ![k].reverted = TRUE]
    BY DEF Unmerge
  <2>2. [m EXCEPT !.reverted = TRUE] \in Entry
    BY <1>1 DEF Entry
  <2>3. log' \in Seq(Entry) /\ DOMAIN log' = DOMAIN log
    BY <2>1, <2>2 DEF TypeInv, LogType, m
  <2>4. \A n \in DOMAIN log :
          /\ log'[n].loser = log[n].loser /\ log'[n].survivor = log[n].survivor
          /\ log'[n].links = log[n].links /\ log'[n].facts = log[n].facts
          /\ log'[n].kind = log[n].kind /\ log'[n].back = log[n].back
    <3>1. \A n \in DOMAIN log : log[n] \in Entry
      BY DEF TypeInv, LogType
    <3>. QED
      BY <2>1, <3>1 DEF TypeInv, LogType, Entry
  <2>. QED
    BY <1>5, <1>6, <2>3, <2>4 DEF TypeInv, LogType
<1>8. applied' \subseteq Event /\ CallsType' /\ local' \in [Doc -> Nat]
  BY DEF Unmerge, TypeInv, CallsType
<1>9. inOrder' \in BOOLEAN
  BY DEF Unmerge, TypeInv
<1>. QED
  BY <1>3, <1>4, <1>5, <1>6, <1>7, <1>8, <1>9 DEF TypeInv

\* A link changes the counts and may add a row, and nothing else.
LEMMA LinkKeepsTypes ==
  ASSUME TypeInv, NEW d \in Doc, NEW u \in Uri, Link(d, u),
         UNCHANGED <<merged, aliases, facts, log, call, inOrder>>,
         applied' \subseteq Event, local' \in [Doc -> Nat]
  PROVE  TypeInv'
<1>1. LiveOf(u) \in Uri
  BY LiveOfType DEF TypeInv
<1>2. Counted(d, LiveOf(u)) \/ Added(d, LiveOf(u))
  BY <1>1, LinkEffect DEF TypeInv
<1>3. LinksType' /\ DOMAIN links \subseteq DOMAIN links'
  BY <1>1, <1>2, LinkTypes DEF TypeInv
<1>. QED
  BY <1>3 DEF TypeInv, RegistryType, FactsType, LogType, CallsType

LEMMA BeginTypes ==
  ASSUME TypeInv, NEW c \in Slot, NEW step \in {"merge", "retype"},
         NEW u \in Uri, NEW v \in Uri \ {u}, Begin(c, step, u, v)
  PROVE  TypeInv'
<1>1. CallsType'
  BY DEF TypeInv, CallsType, Begin
<1>. QED
  BY <1>1 DEF TypeInv, RegistryType, LinksType, OneRow, FactsType, LogType, Begin

LEMMA IdleTypes ==
  ASSUME CallsType, NEW c \in Slot, call' = [call EXCEPT ![c] = Idle]
  PROVE  CallsType'
BY DEF CallsType, Idle

\* Every way a retype ends is a merge in a registry of its own.
RetypeMerge(u, v, reg, names, kind, back) ==
  /\ reg \in [Uri -> Uri \union {Live, Absent}] /\ names \in [Uri -> SUBSET Name]
  /\ kind \in {"merge", "minted", "revived"} /\ back \in Uri \union {Nowhere}
  /\ kind = "revived" => back \in Uri
  /\ DoMerge(reg, names, u, v, kind, back)

LEMMA RetypeMerges ==
  ASSUME TypeInv, NEW c \in Slot, Retype(c)
  PROVE  \E reg, names, kind, back :
           RetypeMerge(call[c].loser, call[c].survivor, reg, names, kind, back)
<1> DEFINE u == call[c].loser
           v == call[c].survivor
           reg == [merged EXCEPT ![v] = Live]
           names == [aliases EXCEPT ![v] = aliases[u]]
<1>1. u \in Uri /\ v \in Uri
  BY DEF Retype, TypeInv, CallsType
<1> HIDE DEF u, v
<1>2. /\ merged \in [Uri -> Uri \union {Live, Absent}]
      /\ aliases \in [Uri -> SUBSET Name]
      /\ reg \in [Uri -> Uri \union {Live, Absent}]
      /\ names \in [Uri -> SUBSET Name]
  BY <1>1 DEF TypeInv, RegistryType
<1>3. \/ DoMerge(merged, aliases, u, v, "merge", Nowhere)
      \/ DoMerge(reg, names, u, v, "minted", Nowhere)
      \/ merged[v] \in Uri /\ DoMerge(reg, aliases, u, v, "revived", merged[v])
  BY DEF Retype, Tombstone, u, v
<1> HIDE DEF reg, names
<1>4. CASE DoMerge(merged, aliases, u, v, "merge", Nowhere)
  <2>1. RetypeMerge(u, v, merged, aliases, "merge", Nowhere)
    BY <1>2, <1>4 DEF RetypeMerge
  <2>. QED
    BY <2>1 DEF u, v
<1>5. CASE DoMerge(reg, names, u, v, "minted", Nowhere)
  <2>1. RetypeMerge(u, v, reg, names, "minted", Nowhere)
    BY <1>2, <1>5 DEF RetypeMerge
  <2>. QED
    BY <2>1 DEF u, v
<1>6. CASE merged[v] \in Uri /\ DoMerge(reg, aliases, u, v, "revived", merged[v])
  <2>1. RetypeMerge(u, v, reg, aliases, "revived", merged[v])
    BY <1>2, <1>6 DEF RetypeMerge
  <2>. QED
    BY <2>1 DEF u, v
<1>. QED
  BY <1>3, <1>4, <1>5, <1>6

LEMMA TypeStep == TypeInv /\ [Next]_vars => TypeInv'
<1> SUFFICES ASSUME TypeInv, [Next]_vars
             PROVE  TypeInv'
  OBVIOUS
<1>1. ASSUME NEW d \in Doc, NEW u \in Uri, Mention(d, u)
      PROVE  TypeInv'
  <2>1. Link(d, u) /\ UNCHANGED <<merged, aliases, facts, applied, log, call, inOrder>>
        /\ local' = [local EXCEPT ![d] = @ + 1]
    BY <1>1 DEF Mention
  <2>2. applied' \subseteq Event /\ local' \in [Doc -> Nat]
    BY <2>1 DEF TypeInv
  <2>. QED
    BY <2>1, <2>2, LinkKeepsTypes
<1>2. ASSUME NEW e \in Event, ApplyDoclink(e)
      PROVE  TypeInv'
  <2>1. Link(DocOf[e], UriOf[e]) /\ UNCHANGED <<merged, aliases, facts, log, call, local, inOrder>>
        /\ applied' = applied \union {e}
    BY <1>2 DEF ApplyDoclink
  <2>2. applied' \subseteq Event /\ local' \in [Doc -> Nat]
        /\ DocOf[e] \in Doc /\ UriOf[e] \in Uri
    BY EntityAssumption, <2>1 DEF TypeInv
  <2>. QED
    BY <2>1, <2>2, LinkKeepsTypes
<1>3. ASSUME NEW u \in Uri, Fact(u)
      PROVE  TypeInv'
  <2>1. [uri |-> u, home |-> u] \in FactRow
    BY DEF FactRow
  <2>2. FactsType' /\ DOMAIN facts \subseteq DOMAIN facts'
    BY <1>3, <2>1 DEF Fact, TypeInv, FactsType
  <2>. QED
    BY <1>3, <2>2 DEF Fact, TypeInv, RegistryType, LinksType, OneRow, LogType, CallsType
<1>4. ASSUME NEW c \in Slot, NEW u \in Uri, NEW v \in Uri,
             CheckMerge(c, u, v) \/ CheckRetype(c, u, v)
      PROVE  TypeInv'
  BY EntityAssumption, <1>4, BeginTypes DEF CheckMerge, CheckRetype
<1>5. ASSUME NEW c \in Slot, Merge(c)
      PROVE  TypeInv'
  <2>1. call[c].loser \in Uri /\ call[c].survivor \in Uri /\ call[c].loser # call[c].survivor
    BY <1>5 DEF Merge, TypeInv, CallsType
  <2>2. DoMerge(merged, aliases, call[c].loser, call[c].survivor, "merge", Nowhere)
    BY <1>5 DEF Merge
  <2>3. RegistryType' /\ aliases' \in [Uri -> SUBSET Name]
        /\ LinksType' /\ FactsType' /\ LogType'
    BY <2>1, <2>2, MergeTypes DEF TypeInv, RegistryType
  <2>4. CallsType'
    BY <1>5, IdleTypes DEF Merge, TypeInv
  <2>. QED
    BY <1>5, <2>3, <2>4 DEF Merge, TypeInv
<1>6. ASSUME NEW c \in Slot, Retype(c)
      PROVE  TypeInv'
  <2>1. call[c].loser \in Uri /\ call[c].survivor \in Uri /\ call[c].loser # call[c].survivor
    BY <1>6 DEF Retype, TypeInv, CallsType
  <2>2. PICK reg, names, kind, back :
          RetypeMerge(call[c].loser, call[c].survivor, reg, names, kind, back)
    BY <1>6, RetypeMerges
  <2>3. RegistryType' /\ aliases' \in [Uri -> SUBSET Name]
        /\ LinksType' /\ FactsType' /\ LogType'
    BY <2>1, <2>2, MergeTypes DEF RetypeMerge
  <2>4. CallsType'
    BY <1>6, IdleTypes DEF Retype, TypeInv
  <2>. QED
    BY <1>6, <2>3, <2>4 DEF Retype, TypeInv
<1>7. ASSUME NEW c \in Slot, Fail(c)
      PROVE  TypeInv'
  <2>1. CallsType'
    BY <1>7, IdleTypes DEF Fail, TypeInv
  <2>. QED
    BY <1>7, <2>1 DEF Fail, TypeInv, RegistryType, LinksType, OneRow, FactsType, LogType
<1>8. CASE UNCHANGED vars
  BY <1>8 DEF vars, TypeInv, RegistryType, LinksType, OneRow, FactsType, LogType, CallsType
<1>. QED
  BY <1>1, <1>2, <1>3, <1>4, <1>5, <1>6, <1>7, <1>8, UnmergeTypes
     DEF Next, AddFact, ApplyFact

LEMMA TypeIsInvariant == Spec => []TypeInv
<1>1. Init => TypeInv
  BY EntityAssumption DEF Init, TypeInv, RegistryType, LinksType, OneRow,
     FactsType, LogType, CallsType, Idle
<1>. QED
  BY <1>1, TypeStep, PTL DEF Spec

\* Every variable keeps its type: rows are unique per document and entity,
\* whatever is folded, redirected or undone, and what a merge has captured are
\* rows there are.
THEOREM TypesAreKept == Spec => []TypeOK
BY TypeIsInvariant, TypeInvImpliesTypeOK, PTL

-----------------------------------------------------------------------------
(* Tombstones.  While the administrator's calls do not overlap, a merge finds *)
(* both entities live, and the registry it leaves has no circle: every set of *)
(* entities has one whose survivor, if any, is outside the set.              *)

OneAtATime == \A c1, c2 \in Slot : c1 = c2

\* No more than MaxMergeChain tombstones are chained: what LiveOf can follow.
NoLongChain ==
  ~\E f \in [0 .. MaxMergeChain -> Uri] :
     /\ \A n, k \in 0 .. MaxMergeChain : f[n] = f[k] => n = k
     /\ \A n \in 0 .. MaxMergeChain - 1 : merged[f[n]] = f[n + 1]
     /\ Tombstone(f[MaxMergeChain])

Grounded(reg) == \A T \in SUBSET Uri : T # {} => \E u \in T : reg[u] \notin T

Kept(reg) == \A u \in Uri : reg[u] \in Uri => reg[reg[u]] # Absent

CallsLive ==
  \A c \in Slot : call[c].step # "idle" =>
    /\ merged[call[c].loser] = Live
    /\ call[c].step = "merge" => merged[call[c].survivor] = Live

ChainInv ==
  /\ Kept(merged) /\ CallsLive
  /\ RevivedIsKept => Grounded(merged)

LEMMA WalkStops ==
  ASSUME RegistryType, NEW u \in Uri, NEW f, Walk(f, u),
         NEW n \in 0 .. MaxMergeChain, ~Tombstone(f[n])
  PROVE  ~Tombstone(f[MaxMergeChain])
<1> DEFINE M == MaxMergeChain
           T == {k \in n .. M : Tombstone(f[k])}
<1>0. M \in Nat
  BY EntityAssumption
<1>1. SUFFICES ASSUME T # {} PROVE FALSE
  BY <1>0
<1>2. PICK k \in T : \A j \in T : k <= j
  <2>1. T \in SUBSET Nat
    BY <1>0
  <2> HIDE DEF T
  <2>. QED
    BY <1>1, <2>1, LeastNumber
<1>3. k # n /\ k - 1 \in n .. M /\ k - 1 \notin T
  BY <1>0, <1>2
<1>4. k - 1 \in 0 .. M - 1 /\ ~Tombstone(f[k - 1])
  BY <1>0, <1>3
<1>5. f[(k - 1) + 1] = f[k - 1]
  BY <1>4 DEF Walk
<1>6. (k - 1) + 1 = k
  BY <1>0, <1>2
<1>. QED
  BY <1>2, <1>4, <1>5, <1>6

\* A walk that meets no live entity in a registry without circles would be a
\* chain that is too long.
LEMMA WalkEnds ==
  ASSUME RegistryType, Grounded(merged), NoLongChain, NEW u \in Uri, NEW f, Walk(f, u)
  PROVE  ~Tombstone(f[MaxMergeChain])
<1> DEFINE M == MaxMergeChain
<1>0. M \in Nat
  BY EntityAssumption
<1>1. SUFFICES ASSUME Tombstone(f[M]) PROVE FALSE
  OBVIOUS
<1>2. \A n \in 0 .. M : Tombstone(f[n])
  BY <1>1, WalkStops
<1>3. \A n \in 0 .. M - 1 : merged[f[n]] = f[n + 1]
  BY <1>0, <1>2 DEF Walk
<1>4. ASSUME NEW n \in 0 .. M, NEW k \in 0 .. M, n < k, f[n] = f[k]
      PROVE  FALSE
  <2> DEFINE T == {f[j] : j \in n .. k - 1}
  <2>1. T \in SUBSET Uri /\ f[n] \in T
    BY <1>0, <1>4 DEF Walk
  <2>2. PICK v \in T : merged[v] \notin T
    BY <2>1 DEF Grounded
  <2>3. PICK j \in n .. k - 1 : v = f[j]
    OBVIOUS
  <2>4. merged[v] = f[j + 1] /\ j + 1 \in n .. k
    BY <1>0, <1>3, <2>3
  <2>5. j + 1 = k \/ j + 1 \in n .. k - 1
    BY <1>0, <2>3
  <2>. QED
    BY <1>4, <2>1, <2>2, <2>4, <2>5
<1>5. \A n, k \in 0 .. M : f[n] = f[k] => n = k
  BY <1>0, <1>4
<1>. QED
  BY <1>1, <1>3, <1>5 DEF NoLongChain, Walk

LEMMA LeadsToLive ==
  ASSUME RegistryType, Kept(merged), Grounded(merged), NoLongChain,
         NEW u \in Uri, merged[u] # Absent
  PROVE  merged[LiveOf(u)] = Live
<1> DEFINE M == MaxMergeChain
<1>0. M \in Nat
  BY EntityAssumption
<1>1. PICK f : /\ Walk(f, u)
               /\ LiveOf(u) = IF merged[f[M]] = Live THEN f[M] ELSE u
  BY LiveOfWalks
<1>2. ~Tombstone(f[M]) /\ f[M] \in Uri
  BY <1>0, <1>1, WalkEnds DEF Walk
<1> DEFINE T == {n \in 0 .. M : merged[f[n]] = Absent}
<1>3. T = {}
  <2>1. SUFFICES ASSUME T # {} PROVE FALSE
    OBVIOUS
  <2>2. PICK n \in T : \A k \in T : n <= k
    <3>1. T \in SUBSET Nat
      BY <1>0
    <3> HIDE DEF T
    <3>. QED
      BY <2>1, <3>1, LeastNumber
  <2>3. n # 0
    BY <1>1 DEF Walk
  <2>4. n - 1 \in 0 .. M - 1 /\ n - 1 \notin T /\ (n - 1) + 1 = n
    BY <1>0, <2>2, <2>3
  <2>5. f[n - 1] \in Uri
    BY <1>0, <1>1, <2>4 DEF Walk
  <2>6. f[n] = IF Tombstone(f[n - 1]) THEN merged[f[n - 1]] ELSE f[n - 1]
    BY <1>1, <2>4 DEF Walk
  <2>7. merged[f[n - 1]] # Absent
    BY <1>0, <2>4
  <2>. QED
    BY <2>2, <2>5, <2>6, <2>7 DEF Kept, Tombstone
<1>4. merged[f[M]] = Live
  BY <1>0, <1>2, <1>3 DEF RegistryType, Tombstone
<1>. QED
  BY <1>1, <1>4

LEMMA MarksDiffer ==
  /\ Live # Absent /\ Live # Nowhere /\ Absent # Nowhere
  /\ Live \notin Uri /\ Absent \notin Uri /\ Nowhere \notin Uri
<1>1. \A x, y : IsFiniteSet({x, y}) /\ Cardinality({x, y}) <= 2
  <2> TAKE x, y
  <2>1. IsFiniteSet({y}) /\ Cardinality({y}) = 1
    BY FS_Singleton
  <2>2. {x, y} = {y} \union {x}
    OBVIOUS
  <2>. QED
    BY <2>1, <2>2, FS_AddElement
<1>2. Cardinality({Live, Absent, Nowhere}) = 3
  BY EntityAssumption
<1>3. Live # Absent
  <2>1. SUFFICES ASSUME Live = Absent PROVE FALSE
    OBVIOUS
  <2>2. {Live, Absent, Nowhere} = {Live, Nowhere}
    BY <2>1
  <2>3. Cardinality({Live, Nowhere}) <= 2
    BY <1>1
  <2>. QED
    BY <1>2, <2>2, <2>3
<1>4. Live # Nowhere
  <2>1. SUFFICES ASSUME Live = Nowhere PROVE FALSE
    OBVIOUS
  <2>2. {Live, Absent, Nowhere} = {Live, Absent}
    BY <2>1
  <2>3. Cardinality({Live, Absent}) <= 2
    BY <1>1
  <2>. QED
    BY <1>2, <2>2, <2>3
<1>5. Absent # Nowhere
  <2>1. SUFFICES ASSUME Absent = Nowhere PROVE FALSE
    OBVIOUS
  <2>2. {Live, Absent, Nowhere} = {Live, Absent}
    BY <2>1
  <2>3. Cardinality({Live, Absent}) <= 2
    BY <1>1
  <2>. QED
    BY <1>2, <2>2, <2>3
<1>. QED
  BY <1>3, <1>4, <1>5, EntityAssumption

\* A merge between live entities: reg and names are what the transaction had
\* made of the registry and the aliases before it.
Mint(u, v, reg, names) ==
  /\ merged[v] = Absent /\ reg = [merged EXCEPT ![v] = Live]
  /\ names = [aliases EXCEPT ![v] = aliases[u]]

KnownBy(u, names) == {NameOf[u]} \union names[u]

NewEntry(u, v, names, kind, back) ==
  [loser |-> u, survivor |-> v,
   links |-> {i \in DOMAIN links : links[i].uri = u},
   facts |-> {i \in DOMAIN facts : facts[i].uri = u},
   added |-> KnownBy(u, names) \ names[v],
   kind |-> kind, back |-> back, reverted |-> FALSE]

Moved(u, v, reg, names, kind, back) ==
  /\ merged' = [reg EXCEPT ![u] = v]
  /\ aliases' = [names EXCEPT ![v] = @ \union KnownBy(u, names)]
  /\ links' = FoldLinks(u, v, v)
  /\ facts' = [i \in DOMAIN facts |->
                 IF facts[i].uri = u THEN [facts[i] EXCEPT !.uri = v] ELSE facts[i]]
  /\ log' = Append(log, NewEntry(u, v, names, kind, back))

CleanMerge(u, v, reg, names, kind, back) ==
  /\ u \in Uri /\ v \in Uri /\ u # v /\ merged[u] = Live
  /\ \/ kind = "merge" /\ merged[v] = Live /\ reg = merged /\ names = aliases
     \/ kind = "minted" /\ Mint(u, v, reg, names)
     \/ /\ kind = "revived" /\ merged[v] \in Uri /\ back = merged[v]
        /\ reg = [merged EXCEPT ![v] = Live] /\ names = aliases
  /\ reg[u] = Live /\ reg[v] = Live
  /\ Moved(u, v, reg, names, kind, back)
  /\ UNCHANGED <<applied, local, inOrder>>
  /\ \A c \in Slot : call'[c].step = "idle"

LEMMA LiveMerge ==
  ASSUME TypeInv, NEW u \in Uri, NEW v \in Uri, u # v,
         NEW reg, NEW names, NEW kind, NEW back, reg[u] = Live, reg[v] = Live,
         DoMerge(reg, names, u, v, kind, back)
  PROVE  Moved(u, v, reg, names, kind, back)
<1>1. Target(reg, v) = v
  BY DEF Target
<1>2. reg[u] # Absent
  BY MarksDiffer
<1>. QED
  BY <1>1, <1>2 DEF DoMerge, Capture, NewEntry, KnownBy, Moved

LEMMA MergeIsClean ==
  ASSUME OneAtATime, TypeInv, CallsLive, NEW c \in Slot, Merge(c) \/ Retype(c)
  PROVE  \E u, v, reg, names, kind, back : CleanMerge(u, v, reg, names, kind, back)
<1> DEFINE u == call[c].loser
           v == call[c].survivor
           reg == [merged EXCEPT ![v] = Live]
           names == [aliases EXCEPT ![v] = aliases[u]]
<1>1. /\ u \in Uri /\ v \in Uri /\ u # v /\ merged[u] = Live
      /\ call[c].step = "merge" => merged[v] = Live
  BY DEF Merge, Retype, TypeInv, CallsType, CallsLive
<1>2. /\ UNCHANGED <<applied, local, inOrder>>
      /\ \A c2 \in Slot : call'[c2].step = "idle"
  BY DEF Merge, Retype, OneAtATime, TypeInv, CallsType, Idle
<1>3. \/ merged[v] = Live /\ DoMerge(merged, aliases, u, v, "merge", Nowhere)
      \/ merged[v] = Absent /\ DoMerge(reg, names, u, v, "minted", Nowhere)
      \/ merged[v] \in Uri /\ DoMerge(reg, aliases, u, v, "revived", merged[v])
  <2>1. CASE Merge(c)
    BY <1>1, <2>1 DEF Merge
  <2>2. CASE Retype(c)
    BY <2>2 DEF Retype, Tombstone
  <2>. QED
    BY <2>1, <2>2
<1>4. reg[u] = Live /\ reg[v] = Live
  BY <1>1 DEF TypeInv, RegistryType
<1> HIDE DEF u, v
<1>5. CASE merged[v] = Live /\ DoMerge(merged, aliases, u, v, "merge", Nowhere)
  <2>1. CleanMerge(u, v, merged, aliases, "merge", Nowhere)
    BY <1>1, <1>2, <1>5, LiveMerge DEF CleanMerge
  <2>. QED
    BY <2>1
<1>6. CASE merged[v] = Absent /\ DoMerge(reg, names, u, v, "minted", Nowhere)
  <2>1. Mint(u, v, reg, names)
    BY <1>6 DEF Mint
  <2> HIDE DEF reg, names
  <2>2. CleanMerge(u, v, reg, names, "minted", Nowhere)
    BY <1>1, <1>2, <1>4, <1>6, <2>1, LiveMerge DEF CleanMerge
  <2>. QED
    BY <2>2
<1>7. CASE merged[v] \in Uri /\ DoMerge(reg, aliases, u, v, "revived", merged[v])
  <2>1. reg = [merged EXCEPT ![v] = Live]
    OBVIOUS
  <2> HIDE DEF reg
  <2>2. CleanMerge(u, v, reg, aliases, "revived", merged[v])
    BY <1>1, <1>2, <1>4, <1>7, <2>1, LiveMerge DEF CleanMerge
  <2>. QED
    BY <2>2
<1>. QED
  BY <1>3, <1>5, <1>6, <1>7

\* The registry after a merge, in one step.
LEMMA RegistryMoves ==
  ASSUME TypeInv, NEW u, NEW v, NEW reg, NEW names, NEW kind, NEW back,
         CleanMerge(u, v, reg, names, kind, back)
  PROVE  /\ u \in Uri /\ v \in Uri /\ u # v /\ merged[u] = Live /\ RegistryType'
         /\ merged'[u] = v /\ merged'[v] = Live
         /\ \A w \in Uri \ {u, v} : merged'[w] = merged[w]
<1>1. reg \in [Uri -> Uri \union {Live, Absent}] /\ merged' = [reg EXCEPT ![u] = v]
      /\ u \in Uri /\ v \in Uri /\ u # v /\ merged[u] = Live /\ reg[v] = Live
  BY DEF CleanMerge, Mint, Moved, TypeInv, RegistryType
<1>2. \A w \in Uri \ {u, v} : reg[w] = merged[w]
  BY DEF CleanMerge, Mint, TypeInv, RegistryType
<1>. QED
  BY <1>1, <1>2 DEF RegistryType

LEMMA RedirectingGrounds ==
  ASSUME NEW reg, NEW later, NEW u \in Uri, NEW v \in Uri, u # v,
         later[u] = v, later[v] = Live, \A w \in Uri \ {u, v} : later[w] = reg[w],
         Grounded(reg)
  PROVE  Grounded(later)
<1> SUFFICES ASSUME NEW T \in SUBSET Uri, T # {}
             PROVE  \E w \in T : later[w] \notin T
  BY DEF Grounded
<1>1. CASE v \in T
  BY <1>1, MarksDiffer
<1>2. CASE v \notin T /\ u \in T
  BY <1>2
<1>3. CASE v \notin T /\ u \notin T
  <2>1. PICK w \in T : reg[w] \notin T
    BY DEF Grounded
  <2>. QED
    BY <1>3, <2>1
<1>. QED
  BY <1>1, <1>2, <1>3

LEMMA RedirectingKeeps ==
  ASSUME NEW reg, NEW later, NEW u \in Uri, NEW v \in Uri, u # v, reg[u] = Live,
         later[u] = v, later[v] = Live, \A w \in Uri \ {u, v} : later[w] = reg[w],
         Kept(reg)
  PROVE  Kept(later)
<1> SUFFICES ASSUME NEW w \in Uri, later[w] \in Uri
             PROVE  later[later[w]] # Absent
  BY DEF Kept
<1>1. CASE w = u
  BY <1>1, MarksDiffer
<1>2. CASE w # u
  <2>1. w # v /\ later[w] = reg[w]
    BY <1>2, MarksDiffer
  <2>2. reg[w] \in Uri /\ reg[reg[w]] # Absent
    BY <2>1 DEF Kept
  <2>. QED
    BY <2>1, <2>2, MarksDiffer
<1>. QED
  BY <1>1, <1>2

LEMMA MergeGrounds ==
  ASSUME TypeInv, NEW u, NEW v, NEW reg, NEW names, NEW kind, NEW back,
         CleanMerge(u, v, reg, names, kind, back), Grounded(merged)
  PROVE  Grounded(merged')
BY RegistryMoves, RedirectingGrounds

LEMMA MergeKeeps ==
  ASSUME TypeInv, NEW u, NEW v, NEW reg, NEW names, NEW kind, NEW back,
         CleanMerge(u, v, reg, names, kind, back), Kept(merged)
  PROVE  Kept(merged')
BY RegistryMoves, RedirectingKeeps

\* The registry after an undoing.
LEMMA RegistryReturns ==
  ASSUME TypeInv, NEW k \in DOMAIN log, Unmerge(k)
  PROVE  /\ RegistryType' /\ log[k].loser \in Uri /\ log[k].survivor \in Uri
         /\ log[k].loser # log[k].survivor /\ merged[log[k].loser] = log[k].survivor
         /\ merged'[log[k].loser] = Live
         /\ merged'[log[k].survivor] =
              CASE log[k].kind = "minted"  -> Absent
                [] log[k].kind = "revived" -> log[k].back
                [] OTHER                   -> merged[log[k].survivor]
         /\ \A w \in Uri \ {log[k].loser, log[k].survivor} : merged'[w] = merged[w]
         /\ log[k].kind = "revived" => log[k].back \in Uri
<1> DEFINE m == log[k]
<1>1. /\ m.loser \in Uri /\ m.survivor \in Uri /\ m.loser # m.survivor
      /\ m.kind = "revived" => m.back \in Uri
  BY EntryShape DEF TypeInv
<1>2. /\ merged' = PutBack(m, [merged EXCEPT ![m.loser] = Live])
      /\ merged[m.loser] = m.survivor
  BY DEF Unmerge
<1>3. RegistryType'
  BY UnmergeTypes DEF TypeInv
<1> HIDE DEF m
<1>4. CASE m.kind = "minted"
  BY <1>1, <1>2, <1>3, <1>4 DEF PutBack, TypeInv, RegistryType, m
<1>5. CASE m.kind = "revived"
  BY <1>1, <1>2, <1>3, <1>5 DEF PutBack, TypeInv, RegistryType, m
<1>6. CASE m.kind # "minted" /\ m.kind # "revived"
  BY <1>1, <1>2, <1>3, <1>6 DEF PutBack, TypeInv, RegistryType, m
<1>. QED
  BY <1>4, <1>5, <1>6

LEMMA UnmergeKeeps ==
  ASSUME TypeInv, NEW k \in DOMAIN log, Unmerge(k), Kept(merged)
  PROVE  Kept(merged')
<1> DEFINE l == log[k].loser
           s == log[k].survivor
<1>1. /\ RegistryType' /\ l \in Uri /\ s \in Uri /\ l # s
      /\ merged[l] = s /\ merged'[l] = Live
      /\ merged'[s] = CASE log[k].kind = "minted"  -> Absent
                        [] log[k].kind = "revived" -> log[k].back
                        [] OTHER                   -> merged[s]
      /\ \A w \in Uri \ {l, s} : merged'[w] = merged[w]
      /\ log[k].kind = "revived" => log[k].back \in Uri
  BY RegistryReturns
<1>2. /\ log[k].kind = "minted" => \A w \in Uri \ {l} : merged[w] # s
      /\ log[k].kind = "revived" => merged[log[k].back] # Absent
  BY <1>1 DEF Unmerge, TypeInv, RegistryType
<1> HIDE DEF l, s
<1> SUFFICES ASSUME NEW w \in Uri, merged'[w] \in Uri
             PROVE  merged'[merged'[w]] # Absent
  BY DEF Kept
<1>3. w # l
  BY <1>1, MarksDiffer
<1>4. \A x \in Uri : merged[x] # Absent /\ merged'[x] = Absent =>
        x = s /\ log[k].kind = "minted"
  BY <1>1, MarksDiffer
<1>5. CASE merged'[w] = merged[w]
  <2>1. merged[merged[w]] # Absent
    BY <1>5 DEF Kept
  <2>. QED
    BY <1>2, <1>3, <1>4, <1>5, <2>1
<1>6. CASE merged'[w] # merged[w]
  <2>1. w = s /\ log[k].kind = "revived" /\ merged'[w] = log[k].back
    BY <1>1, <1>3, <1>6, MarksDiffer
  <2>. QED
    BY <1>1, <1>2, <1>4, <2>1
<1>. QED
  BY <1>5, <1>6

LEMMA UnmergeGrounds ==
  ASSUME TypeInv, NEW k \in DOMAIN log, Unmerge(k), log[k].kind # "revived",
         Grounded(merged)
  PROVE  Grounded(merged')
<1> DEFINE l == log[k].loser
           s == log[k].survivor
<1>1. /\ l \in Uri /\ s \in Uri /\ l # s /\ merged'[l] = Live
      /\ merged'[s] = Absent \/ merged'[s] = merged[s]
      /\ \A w \in Uri \ {l, s} : merged'[w] = merged[w]
  BY RegistryReturns
<1> HIDE DEF l, s
<1> SUFFICES ASSUME NEW T \in SUBSET Uri, T # {}
             PROVE  \E w \in T : merged'[w] \notin T
  BY DEF Grounded
<1>2. CASE l \in T
  BY <1>1, <1>2, MarksDiffer
<1>3. CASE l \notin T
  <2>1. PICK w \in T : merged[w] \notin T
    BY DEF Grounded
  <2>. QED
    BY <1>1, <1>3, <2>1, MarksDiffer
<1>. QED
  BY <1>2, <1>3

\* What a row of the links names.
LinksAreLive == \A i \in Present : ~Tombstone(links[i].uri)

\* A link lands on an entity that was not merged away.
LEMMA LinkLands ==
  ASSUME TypeInv, Kept(merged), Grounded(merged), NoLongChain, NEW u \in Uri
  PROVE  ~Tombstone(LiveOf(u))
<1>1. CASE merged[u] = Absent
  BY <1>1, LiveOfType, MarksDiffer DEF Tombstone, TypeInv
<1>2. CASE merged[u] # Absent
  BY <1>2, LeadsToLive, MarksDiffer DEF Tombstone, TypeInv
<1>. QED
  BY <1>1, <1>2

LEMMA LinkNamesLive ==
  ASSUME TypeInv, Kept(merged), Grounded(merged), NoLongChain, LinksAreLive,
         NEW d \in Doc, NEW u \in Uri, Link(d, u), UNCHANGED merged
  PROVE  LinksAreLive'
<1>1. LiveOf(u) \in Uri /\ ~Tombstone(LiveOf(u))
  BY LinkLands, LiveOfType DEF TypeInv
<1>2. Counted(d, LiveOf(u)) \/ Added(d, LiveOf(u))
  BY <1>1, LinkEffect DEF TypeInv
<1>3. /\ \A i \in DOMAIN links : links'[i].uri = links[i].uri
      /\ \A i \in DOMAIN links' : i \notin DOMAIN links => links'[i].uri = LiveOf(u)
  BY <1>1, <1>2, LinkTypes DEF TypeInv
<1>. QED
  BY <1>1, <1>3 DEF LinksAreLive, Present, Tombstone

LEMMA MergeNamesLive ==
  ASSUME TypeInv, NEW u, NEW v, NEW reg, NEW names, NEW kind, NEW back,
         CleanMerge(u, v, reg, names, kind, back), LinksAreLive
  PROVE  LinksAreLive'
<1>1. /\ u \in Uri /\ v \in Uri /\ u # v
      /\ merged'[u] = v /\ merged'[v] = Live
      /\ \A w \in Uri \ {u, v} : merged'[w] = merged[w]
  BY RegistryMoves
<1>2. Folded(links', u, v, v)
  <2>1. Folded(FoldLinks(u, v, v), u, v, v)
    BY <1>1, FoldEffect DEF TypeInv
  <2>. QED
    BY <2>1 DEF CleanMerge, Moved
<1>3. \A w \in Uri : w # u /\ ~Tombstone(w) => ~(Tombstone(w)')
  BY <1>1, MarksDiffer DEF Tombstone
<1>4. ASSUME NEW i \in Present'
      PROVE  ~(Tombstone(links[i].uri)')
  <2>1. i \in DOMAIN links /\ links'[i].uri # Nowhere
    BY <1>2, <1>4 DEF Present, Folded
  <2>2. links[i] \in LinkRow
    BY <2>1 DEF TypeInv, LinksType
  <2>3. links'[i].uri = IF links[i].uri # u THEN links[i].uri
                        ELSE IF Rows(links[i].doc, v) # {} THEN Nowhere ELSE v
    BY <1>2, <2>1 DEF Folded
  <2>4. CASE links[i].uri = u
    <3>1. links'[i].uri = v
      BY <2>1, <2>2, <2>3, <2>4
    <3>. QED
      BY <1>1, <3>1, MarksDiffer DEF Tombstone
  <2>5. CASE links[i].uri # u
    <3>1. links'[i].uri = links[i].uri /\ i \in Present /\ links[i].uri \in Uri
      BY <2>1, <2>2, <2>3, <2>5 DEF Present, LinkRow
    <3>. QED
      BY <1>3, <2>5, <3>1 DEF LinksAreLive, Tombstone
  <2>. QED
    BY <2>4, <2>5
<1>. QED
  BY <1>4 DEF LinksAreLive

LEMMA UnmergeNamesLive ==
  ASSUME TypeInv, NEW k \in DOMAIN log, Unmerge(k), log[k].kind # "revived",
         LinksAreLive
  PROVE  LinksAreLive'
<1> DEFINE m == log[k]
<1>1. /\ m.loser \in Uri /\ m.survivor \in Uri /\ merged'[m.loser] = Live
      /\ merged'[m.survivor] = Absent \/ merged'[m.survivor] = merged[m.survivor]
      /\ \A w \in Uri \ {m.loser, m.survivor} : merged'[w] = merged[w]
  BY RegistryReturns
<1>2. \A w \in Uri : ~Tombstone(w) => ~(Tombstone(w)')
  BY <1>1, MarksDiffer DEF Tombstone
<1>3. links' = [i \in DOMAIN links |->
                  IF i \in m.links /\ links[i].uri = m.survivor
                    THEN [links[i] EXCEPT !.uri = m.loser] ELSE links[i]]
  BY DEF Unmerge
<1> HIDE DEF m
<1>4. ASSUME NEW i \in Present'
      PROVE  ~(Tombstone(links[i].uri)')
  <2>1. i \in DOMAIN links /\ links'[i].uri # Nowhere /\ links[i] \in LinkRow
    BY <1>3, <1>4 DEF Present, TypeInv, LinksType
  <2>2. links'[i].uri = m.loser \/ links'[i].uri = links[i].uri
    BY <1>3, <2>1 DEF LinkRow
  <2>3. CASE links'[i].uri = m.loser
    BY <1>1, <2>3, MarksDiffer DEF Tombstone
  <2>4. CASE links'[i].uri = links[i].uri
    <3>1. i \in Present /\ links[i].uri \in Uri
      BY <2>1, <2>4 DEF Present, LinkRow
    <3>. QED
      BY <1>2, <2>4, <3>1 DEF LinksAreLive, Tombstone
  <2>. QED
    BY <2>2, <2>3, <2>4
<1>. QED
  BY <1>4 DEF LinksAreLive

\* A reverted entry stays one.
LEMMA RevivedIsMonotone ==
  ASSUME TypeInv,
         \/ UNCHANGED log
         \/ \E r : log' = Append(log, r)
         \/ \E k \in DOMAIN log : log' = [log EXCEPT ![k].reverted = TRUE],
         RevivedIsKept'
  PROVE  RevivedIsKept
<1>1. \A n \in DOMAIN log : log[n] \in Entry
  BY DEF TypeInv, LogType
<1>2. CASE UNCHANGED log
  BY <1>2 DEF RevivedIsKept
<1>3. ASSUME NEW r, log' = Append(log, r)
      PROVE  RevivedIsKept
  <2>1. \A n \in DOMAIN log : n \in DOMAIN log' /\ log'[n] = log[n]
    BY <1>3 DEF TypeInv, LogType
  <2>. QED
    BY <2>1 DEF RevivedIsKept
<1>4. ASSUME NEW k \in DOMAIN log, log' = [log EXCEPT ![k].reverted = TRUE]
      PROVE  RevivedIsKept
  <2>1. \A n \in DOMAIN log :
          /\ n \in DOMAIN log' /\ log'[n].kind = log[n].kind
          /\ log[n].reverted => log'[n].reverted
    BY <1>1, <1>4 DEF Entry, TypeInv, LogType
  <2>. QED
    BY <2>1 DEF RevivedIsKept
<1>. QED
  BY <1>2, <1>3, <1>4

NamesInv == RevivedIsKept => LinksAreLive

\* A step that leaves the registry and the calls alone, or begins or ends one.
LEMMA CallSteps ==
  ASSUME TypeInv, ChainInv, UNCHANGED <<merged, log>>,
         \/ UNCHANGED call
         \/ \E c \in Slot : call' = [call EXCEPT ![c] = Idle]
         \/ \E c \in Slot, u, v \in Uri :
              CheckMerge(c, u, v) \/ CheckRetype(c, u, v)
  PROVE  ChainInv'
<1>1. CallsLive'
  BY DEF ChainInv, CallsLive, TypeInv, CallsType, Idle, CheckMerge, CheckRetype, Begin
<1>. QED
  BY <1>1 DEF ChainInv, RevivedIsKept, Kept, Grounded

LEMMA MergeChains ==
  ASSUME TypeInv, ChainInv,
         NEW u, NEW v, NEW reg, NEW names, NEW kind, NEW back,
         CleanMerge(u, v, reg, names, kind, back)
  PROVE  ChainInv' /\ (RevivedIsKept' => RevivedIsKept)
<1>1. RevivedIsKept' => RevivedIsKept
  BY RevivedIsMonotone DEF CleanMerge, Moved
<1>2. CallsLive'
  BY DEF CleanMerge, CallsLive
<1>. QED
  BY <1>1, <1>2, MergeGrounds, MergeKeeps DEF ChainInv

LEMMA UnmergeChains ==
  ASSUME OneAtATime, TypeInv, ChainInv, NEW k \in DOMAIN log, Unmerge(k)
  PROVE  ChainInv' /\ (RevivedIsKept' => RevivedIsKept /\ log[k].kind # "revived")
<1>1. log' = [log EXCEPT ![k].reverted = TRUE]
  BY DEF Unmerge
<1>2. RevivedIsKept' => RevivedIsKept
  BY <1>1, RevivedIsMonotone
<1>3. RevivedIsKept' => log[k].kind # "revived"
  <2>1. k \in DOMAIN log' /\ log'[k].kind = log[k].kind /\ log'[k].reverted
    BY <1>1, EntryShape DEF Entry, TypeInv, LogType
  <2>. QED
    BY <2>1 DEF RevivedIsKept
<1>4. CallsLive'
  BY DEF Unmerge, OneAtATime, CallsLive
<1>. QED
  BY <1>2, <1>3, <1>4, UnmergeKeeps, UnmergeGrounds DEF ChainInv

LEMMA ChainStep ==
  ASSUME OneAtATime, TypeInv, ChainInv, [Next]_vars
  PROVE  ChainInv'
<1>1. ASSUME NEW d \in Doc, NEW u \in Uri, Mention(d, u)
      PROVE  ChainInv'
  BY <1>1, CallSteps DEF Mention
<1>2. ASSUME NEW e \in Event, ApplyDoclink(e)
      PROVE  ChainInv'
  BY <1>2, CallSteps DEF ApplyDoclink
<1>3. ASSUME NEW u \in Uri, Fact(u)
      PROVE  ChainInv'
  BY <1>3, CallSteps DEF Fact
<1>4. ASSUME NEW c \in Slot, NEW u \in Uri, NEW v \in Uri,
             CheckMerge(c, u, v) \/ CheckRetype(c, u, v)
      PROVE  ChainInv'
  <2>1. UNCHANGED <<merged, log>>
    BY <1>4 DEF CheckMerge, CheckRetype, Begin
  <2>. QED
    BY <1>4, <2>1, CallSteps
<1>5. ASSUME NEW c \in Slot, Merge(c) \/ Retype(c)
      PROVE  ChainInv'
  BY <1>5, MergeIsClean, MergeChains DEF ChainInv
<1>6. ASSUME NEW c \in Slot, Fail(c)
      PROVE  ChainInv'
  BY <1>6, CallSteps DEF Fail
<1>7. CASE UNCHANGED vars
  BY <1>7, CallSteps DEF vars
<1>. QED
  BY <1>1, <1>2, <1>3, <1>4, <1>5, <1>6, <1>7, UnmergeChains
     DEF Next, AddFact, ApplyFact

LEMMA NamesStep ==
  ASSUME OneAtATime, NoLongChain, TypeInv, ChainInv, NamesInv, [Next]_vars
  PROVE  NamesInv'
<1>1. ASSUME UNCHANGED <<merged, links, log>>
      PROVE  NamesInv'
  BY <1>1 DEF NamesInv, RevivedIsKept, LinksAreLive, Present, Tombstone
<1>2. ASSUME NEW d \in Doc, NEW u \in Uri, Link(d, u), UNCHANGED <<merged, log>>
      PROVE  NamesInv'
  <2>1. RevivedIsKept' => RevivedIsKept
    BY <1>2, RevivedIsMonotone
  <2>. QED
    BY <1>2, <2>1, LinkNamesLive DEF NamesInv, ChainInv
<1>3. ASSUME NEW d \in Doc, NEW u \in Uri, Mention(d, u)
      PROVE  NamesInv'
  BY <1>2, <1>3 DEF Mention
<1>4. ASSUME NEW e \in Event, ApplyDoclink(e)
      PROVE  NamesInv'
  BY <1>2, <1>4, EntityAssumption DEF ApplyDoclink
<1>5. ASSUME NEW u \in Uri, Fact(u)
      PROVE  NamesInv'
  BY <1>1, <1>5 DEF Fact
<1>6. ASSUME NEW c \in Slot, Merge(c) \/ Retype(c)
      PROVE  NamesInv'
  BY <1>6, MergeIsClean, MergeChains, MergeNamesLive DEF ChainInv, NamesInv
<1>7. ASSUME NEW k \in DOMAIN log, Unmerge(k)
      PROVE  NamesInv'
  BY <1>7, UnmergeChains, UnmergeNamesLive DEF NamesInv
<1>. QED
  BY <1>1, <1>3, <1>4, <1>5, <1>6, <1>7
     DEF Next, vars, AddFact, ApplyFact, CheckMerge, CheckRetype, Begin, Fail

LEMMA ChainIsInvariant ==
  ASSUME OneAtATime
  PROVE  Spec => []ChainInv
<1>1. Init => ChainInv
  BY MarksDiffer DEF Init, ChainInv, Kept, CallsLive, Idle, Grounded
<1>2. TypeInv /\ ChainInv /\ [Next]_vars => ChainInv'
  BY ChainStep
<1>. QED
  BY <1>1, <1>2, TypeIsInvariant, PTL DEF Spec

\* While the administrator's calls do not overlap and no chain of merges is
\* longer than the trigger follows, no link names an entity that was merged
\* away, up to the undoing of a retype that revived one.
THEOREM NoLinkNamesATombstone ==
  ASSUME OneAtATime
  PROVE  Spec /\ []NoLongChain => []LinksNameLive
<1>1. Init => NamesInv
  BY DEF Init, NamesInv, LinksAreLive, Present
<1>2. NoLongChain /\ TypeInv /\ ChainInv /\ NamesInv /\ [Next]_vars => NamesInv'
  BY NamesStep
<1>3. NamesInv => LinksNameLive
  BY DEF NamesInv, LinksNameLive, LinksAreLive
<1>. QED
  BY <1>1, <1>2, <1>3, TypeIsInvariant, ChainIsInvariant, PTL DEF Spec

\* Under the same conditions every tombstone leads to a live entity.
THEOREM TombstonesResolve ==
  ASSUME OneAtATime
  PROVE  Spec /\ []NoLongChain => []ResolvesToLive
<1>1. TypeInv /\ ChainInv /\ NoLongChain => ResolvesToLive
  BY LeadsToLive DEF TypeInv, ChainInv, ResolvesToLive
<1>. QED
  BY <1>1, TypeIsInvariant, ChainIsInvariant, PTL

-----------------------------------------------------------------------------
(* Undoing.  A row names the survivor of the last merge in force that moved   *)
(* it, and each of those took it from where the ones before had left it.     *)

PlacedIn(entries, home, ks) ==
  IF ks = {} THEN home
             ELSE entries[CHOOSE k \in ks : \A n \in ks : n <= k].survivor

Traced(entries, home, ks) ==
  \A k \in ks : entries[k].loser = PlacedIn(entries, home, {n \in ks : n < k})

LEMMA GreatestNumber ==
  ASSUME NEW L \in Nat, NEW ks \in SUBSET (1 .. L), ks # {}
  PROVE  \E k \in ks : \A n \in ks : n <= k
<1> DEFINE T == {L - n : n \in ks}
<1>1. T \in SUBSET Nat /\ T # {}
  <2>1. \A n \in ks : n \in 1 .. L
    OBVIOUS
  <2>2. \A n \in 1 .. L : L - n \in Nat
    OBVIOUS
  <2>3. PICK n \in ks : TRUE
    OBVIOUS
  <2>4. L - n \in T
    BY <2>3
  <2>. QED
    BY <2>1, <2>2, <2>4
<1>2. PICK t \in T : \A s \in T : t <= s
  <2> HIDE DEF T
  <2>. QED
    BY <1>1, LeastNumber
<1>3. PICK k \in ks : t = L - k
  OBVIOUS
<1>4. \A n \in ks : L - k <= L - n
  BY <1>2, <1>3
<1>. QED
  BY <1>4

LEMMA TopIsPlace ==
  ASSUME NEW entries, NEW home, NEW ks \in SUBSET Nat,
         NEW k \in ks, \A n \in ks : n <= k
  PROVE  PlacedIn(entries, home, ks) = entries[k].survivor
<1> DEFINE j == CHOOSE m \in ks : \A n \in ks : n <= m
<1>1. j \in ks /\ \A n \in ks : n <= j
  OBVIOUS
<1>2. j = k
  <2> HIDE DEF j
  <2>1. j <= k /\ k <= j /\ j \in Nat /\ k \in Nat
    BY <1>1
  <2>. QED
    BY <2>1
<1>. QED
  BY <1>2 DEF PlacedIn

\* Two logs that agree on the entries.
SameMoves(entries, later, L) ==
  \A n \in 1 .. L :
    later[n].loser = entries[n].loser /\ later[n].survivor = entries[n].survivor

LEMMA PlaceStays ==
  ASSUME NEW entries, NEW later, NEW L \in Nat, SameMoves(entries, later, L),
         NEW home, NEW ks \in SUBSET (1 .. L)
  PROVE  PlacedIn(later, home, ks) = PlacedIn(entries, home, ks)
<1>1. CASE ks = {}
  BY <1>1 DEF PlacedIn
<1>2. CASE ks # {}
  <2>1. PICK k \in ks : \A n \in ks : n <= k
    BY <1>2, GreatestNumber
  <2>2. PlacedIn(later, home, ks) = later[k].survivor
    BY <2>1, TopIsPlace
  <2>3. PlacedIn(entries, home, ks) = entries[k].survivor
    BY <2>1, TopIsPlace
  <2>. QED
    BY <2>2, <2>3 DEF SameMoves
<1>. QED
  BY <1>1, <1>2

LEMMA TraceStays ==
  ASSUME NEW entries, NEW later, NEW L \in Nat, SameMoves(entries, later, L),
         NEW home, NEW ks \in SUBSET (1 .. L), Traced(entries, home, ks)
  PROVE  Traced(later, home, ks)
<1> SUFFICES ASSUME NEW k \in ks
             PROVE  later[k].loser = PlacedIn(later, home, {n \in ks : n < k})
  BY DEF Traced
<1> DEFINE before == {n \in ks : n < k}
<1>1. before \in SUBSET (1 .. L)
  OBVIOUS
<1>2. entries[k].loser = PlacedIn(entries, home, before)
  BY DEF Traced
<1> HIDE DEF before
<1>3. PlacedIn(later, home, before) = PlacedIn(entries, home, before)
  BY <1>1, PlaceStays
<1>. QED
  BY <1>2, <1>3 DEF SameMoves, before

\* A merge that takes a row from where it is.
LEMMA MergeTraces ==
  ASSUME NEW entries, NEW later, NEW L \in Nat, SameMoves(entries, later, L),
         NEW home, NEW ks \in SUBSET (1 .. L), Traced(entries, home, ks),
         later[L + 1].loser = PlacedIn(entries, home, ks)
  PROVE  /\ Traced(later, home, ks \union {L + 1})
         /\ PlacedIn(later, home, ks \union {L + 1}) = later[L + 1].survivor
<1> DEFINE all == ks \union {L + 1}
<1>1. all \in SUBSET (1 .. L + 1) /\ L + 1 \in all /\ \A n \in all : n <= L + 1
  OBVIOUS
<1>2. PlacedIn(later, home, all) = later[L + 1].survivor
  <2>1. all \in SUBSET Nat
    OBVIOUS
  <2> HIDE DEF all
  <2>. QED
    BY <1>1, <2>1, TopIsPlace
<1>3. Traced(later, home, ks) /\ PlacedIn(later, home, ks) = PlacedIn(entries, home, ks)
  BY PlaceStays, TraceStays
<1>4. ASSUME NEW k \in all
      PROVE  later[k].loser = PlacedIn(later, home, {n \in all : n < k})
  <2>1. CASE k = L + 1
    <3>1. \A n \in all : n < k <=> n \in ks
      <4>1. \A n \in ks : n \in Nat /\ n < L + 1
        OBVIOUS
      <4>. QED
        BY <2>1, <4>1
    <3>2. {n \in all : n < k} = ks
      <4>1. ks \subseteq all
        OBVIOUS
      <4> HIDE DEF all
      <4>. QED
        BY <3>1, <4>1
    <3>. QED
      BY <1>3, <2>1, <3>2
  <2>2. CASE k \in ks
    <3>1. {n \in all : n < k} = {n \in ks : n < k}
      BY <2>2
    <3>. QED
      BY <1>3, <2>2, <3>1 DEF Traced
  <2>. QED
    BY <2>1, <2>2
<1>. QED
  BY <1>2, <1>4 DEF Traced

\* The last merge in force that has moved a row is undone.
LEMMA UndoTraces ==
  ASSUME NEW entries, NEW later, NEW L \in Nat, SameMoves(entries, later, L),
         NEW home, NEW ks \in SUBSET (1 .. L), Traced(entries, home, ks),
         NEW k \in ks, \A n \in ks : n <= k
  PROVE  /\ PlacedIn(entries, home, ks) = entries[k].survivor
         /\ PlacedIn(later, home, ks \ {k}) = entries[k].loser
         /\ Traced(later, home, ks \ {k})
<1> DEFINE rest == ks \ {k}
<1>1. PlacedIn(entries, home, ks) = entries[k].survivor
  BY TopIsPlace
<1>2. rest = {n \in ks : n < k} /\ rest \in SUBSET (1 .. L)
  <2>1. \A n \in ks : n \in Nat /\ (n < k <=> n # k)
    OBVIOUS
  <2>. QED
    BY <2>1
<1>3. entries[k].loser = PlacedIn(entries, home, rest)
  BY <1>2 DEF Traced
<1>4. ASSUME NEW j \in rest
      PROVE  entries[j].loser = PlacedIn(entries, home, {n \in rest : n < j})
  <2>1. {n \in rest : n < j} = {n \in ks : n < j}
    BY <1>2
  <2>. QED
    BY <2>1 DEF Traced
<1>5. Traced(entries, home, rest)
  BY <1>4 DEF Traced
<1> HIDE DEF rest
<1>6. PlacedIn(later, home, rest) = entries[k].loser /\ Traced(later, home, rest)
  BY <1>2, <1>3, <1>5, PlaceStays, TraceStays
<1>. QED
  BY <1>1, <1>6 DEF rest

LinkTraced(i) ==
  /\ Traced(log, links[i].home, LinkMoves(i))
  /\ links[i].uri # Nowhere =>
       links[i].uri = PlacedIn(log, links[i].home, LinkMoves(i))

FactTraced(i) ==
  /\ Traced(log, facts[i].home, FactMoves(i))
  /\ facts[i].uri = PlacedIn(log, facts[i].home, FactMoves(i))

UndoInv ==
  inOrder => /\ \A i \in DOMAIN links : LinkTraced(i)
             /\ \A i \in DOMAIN facts : FactTraced(i)

LEMMA MovesAreEntries ==
  ASSUME TypeInv, NEW i
  PROVE  /\ Len(log) \in Nat /\ DOMAIN log = 1 .. Len(log)
         /\ LinkMoves(i) \in SUBSET (1 .. Len(log))
         /\ FactMoves(i) \in SUBSET (1 .. Len(log))
BY DEF TypeInv, LogType, LinkMoves, FactMoves

\* A row that is new was moved by no merge.
LEMMA NewRowIsUnmoved ==
  ASSUME TypeInv, NEW i
  PROVE  /\ i \notin DOMAIN links => LinkMoves(i) = {}
         /\ i \notin DOMAIN facts => FactMoves(i) = {}
BY DEF TypeInv, LogType, LinkMoves, FactMoves

LEMMA LinkUndo ==
  ASSUME TypeInv, UndoInv, NEW d \in Doc, NEW u \in Uri, Link(d, u),
         UNCHANGED <<facts, log, inOrder>>
  PROVE  UndoInv'
<1>1. LiveOf(u) \in Uri
  BY LiveOfType DEF TypeInv
<1>2. Counted(d, LiveOf(u)) \/ Added(d, LiveOf(u))
  BY <1>1, LinkEffect DEF TypeInv
<1>3. /\ \A i \in DOMAIN links :
           links'[i].uri = links[i].uri /\ links'[i].home = links[i].home
      /\ \A i \in DOMAIN links' : i \notin DOMAIN links => links'[i].uri = links'[i].home
  BY <1>1, <1>2, LinkTypes DEF TypeInv
<1>4. \A i : LinkMoves(i)' = LinkMoves(i) /\ FactMoves(i)' = FactMoves(i)
  BY DEF LinkMoves, FactMoves
<1>5. ASSUME inOrder', NEW i \in DOMAIN links'
      PROVE  LinkTraced(i)'
  <2>1. CASE i \in DOMAIN links
    BY <1>3, <1>4, <1>5, <2>1 DEF UndoInv, LinkTraced
  <2>2. CASE i \notin DOMAIN links
    <3>1. LinkMoves(i) = {}
      BY <2>2, NewRowIsUnmoved
    <3>. QED
      BY <1>3, <1>4, <2>2, <3>1 DEF LinkTraced, Traced, PlacedIn
  <2>. QED
    BY <2>1, <2>2
<1>6. ASSUME inOrder', NEW i \in DOMAIN facts'
      PROVE  FactTraced(i)'
  BY <1>4, <1>6 DEF UndoInv, FactTraced
<1>. QED
  BY <1>5, <1>6 DEF UndoInv

LEMMA FactUndo ==
  ASSUME TypeInv, UndoInv, NEW u \in Uri, Fact(u)
  PROVE  UndoInv'
<1>1. \A i : LinkMoves(i)' = LinkMoves(i) /\ FactMoves(i)' = FactMoves(i)
  BY DEF Fact, LinkMoves, FactMoves
<1>2. /\ \A i \in DOMAIN facts : facts'[i] = facts[i]
      /\ \A i \in DOMAIN facts' : i \notin DOMAIN facts => facts'[i].uri = facts'[i].home
  BY DEF Fact, TypeInv, FactsType
<1>3. ASSUME inOrder', NEW i \in DOMAIN facts'
      PROVE  FactTraced(i)'
  <2>1. CASE i \in DOMAIN facts
    BY <1>1, <1>2, <1>3, <2>1 DEF UndoInv, FactTraced, Fact
  <2>2. CASE i \notin DOMAIN facts
    <3>1. FactMoves(i) = {}
      BY <2>2, NewRowIsUnmoved
    <3>. QED
      BY <1>1, <1>2, <2>2, <3>1 DEF FactTraced, Traced, PlacedIn
  <2>. QED
    BY <2>1, <2>2
<1>4. ASSUME inOrder', NEW i \in DOMAIN links'
      PROVE  LinkTraced(i)'
  BY <1>1, <1>4 DEF UndoInv, LinkTraced, Fact
<1>. QED
  BY <1>3, <1>4 DEF UndoInv

\* What a merge adds to the log and to the moves of each row.
LEMMA MergeMoves ==
  ASSUME TypeInv, NEW u, NEW v, NEW reg, NEW names, NEW kind, NEW back,
         CleanMerge(u, v, reg, names, kind, back)
  PROVE  LET L == Len(log) IN
         /\ SameMoves(log, log', L)
         /\ log'[L + 1].loser = u /\ log'[L + 1].survivor = v
         /\ \A i : LinkMoves(i)' = IF i \in DOMAIN links /\ links[i].uri = u
                                     THEN LinkMoves(i) \union {L + 1} ELSE LinkMoves(i)
         /\ \A i : FactMoves(i)' = IF i \in DOMAIN facts /\ facts[i].uri = u
                                     THEN FactMoves(i) \union {L + 1} ELSE FactMoves(i)
<1> DEFINE L == Len(log)
           r == NewEntry(u, v, names, kind, back)
<1>1. log' = Append(log, r)
  BY DEF CleanMerge, Moved
<1>2. /\ r.loser = u /\ r.survivor = v /\ ~r.reverted
      /\ \A i : i \in r.links <=> i \in DOMAIN links /\ links[i].uri = u
      /\ \A i : i \in r.facts <=> i \in DOMAIN facts /\ facts[i].uri = u
  BY DEF NewEntry
<1> HIDE DEF r
<1>3. /\ L \in Nat /\ DOMAIN log = 1 .. L /\ DOMAIN log' = 1 .. L + 1
      /\ \A n \in 1 .. L : log'[n] = log[n]
      /\ log'[L + 1] = r
  BY <1>1 DEF TypeInv, LogType
<1>4. SameMoves(log, log', L)
  BY <1>3 DEF SameMoves
<1>5. \A n : n \in 1 .. L + 1 <=> n \in 1 .. L \/ n = L + 1
  BY <1>3
<1> HIDE DEF L
<1>6. ASSUME NEW i
      PROVE  LinkMoves(i)' = IF i \in DOMAIN links /\ links[i].uri = u
                               THEN LinkMoves(i) \union {L + 1} ELSE LinkMoves(i)
  <2>1. LinkMoves(i)' = {k \in DOMAIN log' : ~log'[k].reverted /\ i \in log'[k].links}
    BY DEF LinkMoves
  <2>2. \A k : k \in LinkMoves(i)' <=>
                 k \in LinkMoves(i) \/ (k = L + 1 /\ i \in r.links)
    BY <1>2, <1>3, <1>5, <2>1 DEF LinkMoves
  <2>. QED
    BY <1>2, <2>2
<1>7. ASSUME NEW i
      PROVE  FactMoves(i)' = IF i \in DOMAIN facts /\ facts[i].uri = u
                               THEN FactMoves(i) \union {L + 1} ELSE FactMoves(i)
  <2>1. FactMoves(i)' = {k \in DOMAIN log' : ~log'[k].reverted /\ i \in log'[k].facts}
    BY DEF FactMoves
  <2>2. \A k : k \in FactMoves(i)' <=>
                 k \in FactMoves(i) \/ (k = L + 1 /\ i \in r.facts)
    BY <1>2, <1>3, <1>5, <2>1 DEF FactMoves
  <2>. QED
    BY <1>2, <2>2
<1>. QED
  BY <1>2, <1>3, <1>4, <1>6, <1>7 DEF L

LEMMA MergeUndo ==
  ASSUME TypeInv, UndoInv, NEW u, NEW v, NEW reg, NEW names, NEW kind, NEW back,
         CleanMerge(u, v, reg, names, kind, back)
  PROVE  UndoInv'
<1> DEFINE L == Len(log)
<1>1. /\ u \in Uri /\ v \in Uri /\ u # v /\ inOrder' = inOrder /\ u # Nowhere
  BY MarksDiffer DEF CleanMerge
<1>2. Folded(links', u, v, v)
  <2>1. Folded(FoldLinks(u, v, v), u, v, v)
    BY <1>1, FoldEffect DEF TypeInv
  <2>. QED
    BY <2>1 DEF CleanMerge, Moved
<1>3. /\ SameMoves(log, log', L)
      /\ log'[L + 1].loser = u /\ log'[L + 1].survivor = v
      /\ \A i : LinkMoves(i)' = IF i \in DOMAIN links /\ links[i].uri = u
                                  THEN LinkMoves(i) \union {L + 1} ELSE LinkMoves(i)
      /\ \A i : FactMoves(i)' = IF i \in DOMAIN facts /\ facts[i].uri = u
                                  THEN FactMoves(i) \union {L + 1} ELSE FactMoves(i)
  BY MergeMoves
<1>4. L \in Nat /\ \A i : /\ LinkMoves(i) \in SUBSET (1 .. L)
                          /\ FactMoves(i) \in SUBSET (1 .. L)
  BY MovesAreEntries
<1> HIDE DEF L
<1>5. ASSUME NEW home, NEW ks \in SUBSET (1 .. L), Traced(log, home, ks)
      PROVE  /\ Traced(log', home, ks)
             /\ PlacedIn(log', home, ks) = PlacedIn(log, home, ks)
             /\ PlacedIn(log, home, ks) = u =>
                  /\ Traced(log', home, ks \union {L + 1})
                  /\ PlacedIn(log', home, ks \union {L + 1}) = v
  <2>1. Traced(log', home, ks) /\ PlacedIn(log', home, ks) = PlacedIn(log, home, ks)
    BY <1>3, <1>4, <1>5, TraceStays, PlaceStays
  <2>2. ASSUME PlacedIn(log, home, ks) = u
        PROVE  /\ Traced(log', home, ks \union {L + 1})
               /\ PlacedIn(log', home, ks \union {L + 1}) = v
    BY <1>3, <1>4, <1>5, <2>2, MergeTraces
  <2>. QED
    BY <2>1, <2>2
<1>6. ASSUME inOrder', NEW i \in DOMAIN links'
      PROVE  LinkTraced(i)'
  <2> DEFINE ks == LinkMoves(i)
             home == links[i].home
  <2>1. /\ i \in DOMAIN links /\ links'[i].home = home
        /\ links[i].uri # u => links'[i].uri = links[i].uri
        /\ links[i].uri = u => links'[i].uri \in {v, Nowhere}
    BY <1>2, <1>6 DEF Folded
  <2>2. /\ Traced(log, home, ks)
        /\ links[i].uri # Nowhere => links[i].uri = PlacedIn(log, home, ks)
    BY <1>1, <1>6, <2>1 DEF UndoInv, LinkTraced
  <2>3. ks \in SUBSET (1 .. L)
    BY <1>4
  <2>4. LinkMoves(i)' = IF links[i].uri = u THEN ks \union {L + 1} ELSE ks
    BY <1>3, <2>1
  <2> HIDE DEF ks, home
  <2>5. CASE links[i].uri = u
    BY <1>1, <1>5, <2>1, <2>2, <2>3, <2>4, <2>5 DEF LinkTraced
  <2>6. CASE links[i].uri # u
    BY <1>5, <2>1, <2>2, <2>3, <2>4, <2>6 DEF LinkTraced
  <2>. QED
    BY <2>5, <2>6
<1>7. ASSUME inOrder', NEW i \in DOMAIN facts'
      PROVE  FactTraced(i)'
  <2> DEFINE ks == FactMoves(i)
             home == facts[i].home
  <2>1. facts' = [n \in DOMAIN facts |->
                    IF facts[n].uri = u THEN [facts[n] EXCEPT !.uri = v] ELSE facts[n]]
    BY DEF CleanMerge, Moved
  <2>2. i \in DOMAIN facts /\ facts[i] \in FactRow
    BY <1>7, <2>1 DEF TypeInv, FactsType
  <2>3. /\ facts'[i].home = home
        /\ facts'[i].uri = IF facts[i].uri = u THEN v ELSE facts[i].uri
    BY <2>1, <2>2 DEF FactRow
  <2>4. Traced(log, home, ks) /\ facts[i].uri = PlacedIn(log, home, ks)
    BY <1>1, <1>7, <2>2 DEF UndoInv, FactTraced
  <2>5. ks \in SUBSET (1 .. L)
    BY <1>4
  <2>6. FactMoves(i)' = IF facts[i].uri = u THEN ks \union {L + 1} ELSE ks
    BY <1>3, <2>2
  <2> HIDE DEF ks, home
  <2>7. CASE facts[i].uri = u
    <3>1. /\ Traced(log', home, ks \union {L + 1})
          /\ PlacedIn(log', home, ks \union {L + 1}) = v
      BY <1>5, <2>4, <2>5, <2>7
    <3>. QED
      BY <3>1, <2>3, <2>6, <2>7 DEF FactTraced
  <2>8. CASE facts[i].uri # u
    BY <1>5, <2>3, <2>4, <2>5, <2>6, <2>8 DEF FactTraced
  <2>. QED
    BY <2>7, <2>8
<1>. QED
  BY <1>6, <1>7 DEF UndoInv

LEMMA UnmergeUndo ==
  ASSUME TypeInv, UndoInv, NEW k \in DOMAIN log, Unmerge(k)
  PROVE  UndoInv'
<1> DEFINE L == Len(log)
           m == log[k]
<1> SUFFICES ASSUME inOrder'
             PROVE  /\ \A i \in DOMAIN links' : LinkTraced(i)'
                    /\ \A i \in DOMAIN facts' : FactTraced(i)'
  BY DEF UndoInv
<1>1. /\ inOrder /\ \A n \in DOMAIN log : n > k => log[n].reverted
      /\ ~m.reverted /\ log' = [log EXCEPT ![k].reverted = TRUE]
  BY DEF Unmerge
<1>2. /\ links' = [i \in DOMAIN links |->
                     IF i \in m.links /\ links[i].uri = m.survivor
                       THEN [links[i] EXCEPT !.uri = m.loser] ELSE links[i]]
      /\ facts' = [i \in DOMAIN facts |->
                     IF i \in m.facts /\ facts[i].uri = m.survivor
                       THEN [facts[i] EXCEPT !.uri = m.loser] ELSE facts[i]]
  BY DEF Unmerge
<1>3. /\ L \in Nat /\ DOMAIN log = 1 .. L
      /\ \A i : LinkMoves(i) \in SUBSET (1 .. L) /\ FactMoves(i) \in SUBSET (1 .. L)
  BY MovesAreEntries
<1>4. \A n \in 1 .. L :
        /\ log'[n].loser = log[n].loser /\ log'[n].survivor = log[n].survivor
        /\ log'[n].links = log[n].links /\ log'[n].facts = log[n].facts
        /\ log'[n].reverted = (n = k \/ log[n].reverted)
  <2>1. \A n \in 1 .. L : log[n] \in Entry
    BY <1>3 DEF TypeInv, LogType
  <2>. QED
    BY <1>1, <1>3, <2>1 DEF Entry
<1>5. SameMoves(log, log', L) /\ DOMAIN log' = 1 .. L
  BY <1>1, <1>3, <1>4 DEF SameMoves
<1>6. /\ \A i : LinkMoves(i)' = LinkMoves(i) \ {k}
      /\ \A i : FactMoves(i)' = FactMoves(i) \ {k}
  BY <1>3, <1>4, <1>5 DEF LinkMoves, FactMoves
<1>7. /\ \A i : \A n \in LinkMoves(i) \union FactMoves(i) : n <= k
      /\ \A i : k \in LinkMoves(i) <=> i \in m.links
      /\ \A i : k \in FactMoves(i) <=> i \in m.facts
  <2>1. \A n \in DOMAIN log : ~log[n].reverted => n <= k
    BY <1>1, <1>3
  <2>. QED
    BY <1>1, <2>1 DEF LinkMoves, FactMoves
<1>8. m.survivor # Nowhere /\ m.loser # Nowhere
  BY EntryShape, MarksDiffer DEF TypeInv
<1> HIDE DEF L, m
<1>9. ASSUME NEW home, NEW ks \in SUBSET (1 .. L), Traced(log, home, ks),
             \A n \in ks : n <= k
      PROVE  /\ Traced(log', home, ks \ {k})
             /\ k \in ks => /\ PlacedIn(log, home, ks) = m.survivor
                            /\ PlacedIn(log', home, ks \ {k}) = m.loser
             /\ k \notin ks =>
                  PlacedIn(log', home, ks \ {k}) = PlacedIn(log, home, ks)
  <2>1. CASE k \in ks
    <3>1. /\ Traced(log', home, ks \ {k})
          /\ PlacedIn(log, home, ks) = log[k].survivor
          /\ PlacedIn(log', home, ks \ {k}) = log[k].loser
      BY <1>3, <1>5, <1>9, <2>1, UndoTraces
    <3>. QED
      BY <2>1, <3>1 DEF m
  <2>2. CASE k \notin ks
    <3>1. ks \ {k} = ks
      BY <2>2
    <3>. QED
      BY <1>3, <1>5, <1>9, <2>2, <3>1, PlaceStays, TraceStays
  <2>. QED
    BY <2>1, <2>2
<1>10. ASSUME NEW i \in DOMAIN links'
       PROVE  LinkTraced(i)'
  <2> DEFINE ks == LinkMoves(i)
             home == links[i].home
  <2>1. i \in DOMAIN links /\ links[i] \in LinkRow
    BY <1>2, <1>10 DEF TypeInv, LinksType
  <2>2. /\ links'[i].home = home
        /\ links'[i].uri = IF i \in m.links /\ links[i].uri = m.survivor
                             THEN m.loser ELSE links[i].uri
    BY <1>2, <2>1 DEF LinkRow
  <2>3. /\ Traced(log, home, ks)
        /\ links[i].uri # Nowhere => links[i].uri = PlacedIn(log, home, ks)
    BY <1>1, <2>1 DEF UndoInv, LinkTraced
  <2>4. /\ ks \in SUBSET (1 .. L) /\ \A n \in ks : n <= k
        /\ k \in ks <=> i \in m.links
        /\ LinkMoves(i)' = ks \ {k}
    BY <1>3, <1>6, <1>7
  <2> HIDE DEF ks, home
  <2>5. CASE k \in ks
    <3>1. /\ Traced(log', home, ks \ {k}) /\ PlacedIn(log, home, ks) = m.survivor
          /\ PlacedIn(log', home, ks \ {k}) = m.loser
      BY <1>9, <2>3, <2>4, <2>5
    <3>. QED
      BY <2>2, <2>3, <2>4, <2>5, <3>1 DEF LinkTraced
  <2>6. CASE k \notin ks
    <3>1. /\ Traced(log', home, ks \ {k})
          /\ PlacedIn(log', home, ks \ {k}) = PlacedIn(log, home, ks)
      BY <1>9, <2>3, <2>4, <2>6
    <3>. QED
      BY <2>2, <2>3, <2>4, <2>6, <3>1 DEF LinkTraced
  <2>. QED
    BY <2>5, <2>6
<1>11. ASSUME NEW i \in DOMAIN facts'
       PROVE  FactTraced(i)'
  <2> DEFINE ks == FactMoves(i)
             home == facts[i].home
  <2>1. i \in DOMAIN facts /\ facts[i] \in FactRow
    BY <1>2, <1>11 DEF TypeInv, FactsType
  <2>2. /\ facts'[i].home = home
        /\ facts'[i].uri = IF i \in m.facts /\ facts[i].uri = m.survivor
                             THEN m.loser ELSE facts[i].uri
    BY <1>2, <2>1 DEF FactRow
  <2>3. Traced(log, home, ks) /\ facts[i].uri = PlacedIn(log, home, ks)
    BY <1>1, <2>1 DEF UndoInv, FactTraced
  <2>4. /\ ks \in SUBSET (1 .. L) /\ \A n \in ks : n <= k
        /\ k \in ks <=> i \in m.facts
        /\ FactMoves(i)' = ks \ {k}
    BY <1>3, <1>6, <1>7
  <2> HIDE DEF ks, home
  <2>5. CASE k \in ks
    <3>1. /\ Traced(log', home, ks \ {k}) /\ PlacedIn(log, home, ks) = m.survivor
          /\ PlacedIn(log', home, ks \ {k}) = m.loser
      BY <1>9, <2>3, <2>4, <2>5
    <3>. QED
      BY <2>2, <2>3, <2>4, <2>5, <3>1 DEF FactTraced
  <2>6. CASE k \notin ks
    <3>1. /\ Traced(log', home, ks \ {k})
          /\ PlacedIn(log', home, ks \ {k}) = PlacedIn(log, home, ks)
      BY <1>9, <2>3, <2>4, <2>6
    <3>. QED
      BY <2>2, <2>3, <2>4, <2>6, <3>1 DEF FactTraced
  <2>. QED
    BY <2>5, <2>6
<1>. QED
  BY <1>10, <1>11

LEMMA UndoStep ==
  ASSUME OneAtATime, TypeInv, ChainInv, UndoInv, [Next]_vars
  PROVE  UndoInv'
<1>1. ASSUME UNCHANGED <<links, facts, log, inOrder>>
      PROVE  UndoInv'
  BY <1>1 DEF UndoInv, LinkTraced, FactTraced, LinkMoves, FactMoves
<1>2. ASSUME NEW d \in Doc, NEW u \in Uri, Mention(d, u)
      PROVE  UndoInv'
  BY <1>2, LinkUndo DEF Mention
<1>3. ASSUME NEW e \in Event, ApplyDoclink(e)
      PROVE  UndoInv'
  BY <1>3, LinkUndo, EntityAssumption DEF ApplyDoclink
<1>4. ASSUME NEW c \in Slot, Merge(c) \/ Retype(c)
      PROVE  UndoInv'
  BY <1>4, MergeIsClean, MergeUndo DEF ChainInv
<1>. QED
  BY <1>1, <1>2, <1>3, <1>4, FactUndo, UnmergeUndo
     DEF Next, vars, AddFact, ApplyFact, CheckMerge, CheckRetype, Begin, Fail

\* While the administrator's calls do not overlap, merges that are undone last
\* first put each row back where they took it from.
THEOREM UndoingIsExact ==
  ASSUME OneAtATime
  PROVE  Spec => []UndoIsExact
<1>1. Init => UndoInv
  BY DEF Init, UndoInv
<1>2. TypeInv /\ ChainInv /\ UndoInv /\ [Next]_vars => UndoInv'
  BY UndoStep
<1>3. UndoInv => UndoIsExact
  <2>1. \A home, ks : Placed(home, ks) = PlacedIn(log, home, ks)
    BY DEF Placed, PlacedIn
  <2>. QED
    BY <2>1 DEF UndoInv, LinkTraced, FactTraced, UndoIsExact, Present
<1>. QED
  BY <1>1, <1>2, <1>3, TypeIsInvariant, ChainIsInvariant, PTL DEF Spec

-----------------------------------------------------------------------------
(* Mentions.  What MapThenSumSet adds up over a finite set does not depend on *)
(* the order its CHOOSE imposes, so that one row can be told from the rest.   *)

First(s) == CHOOSE x \in s : TRUE

Total(rows, S) == MapThenSumSet(LAMBDA i : rows[i].count, S)

\* The function MapThenSumSet is built from.
Adder(rows, S, f) ==
  f = [s \in SUBSET S |->
         IF s = {} THEN 0 ELSE rows[First(s)].count + f[s \ {First(s)}]]

LEMMA TotalIsAdders ==
  ASSUME NEW rows, NEW S
  PROVE  Total(rows, S) = (CHOOSE f : Adder(rows, S, f))[S]
BY DEF Total, MapThenSumSet, MapThenFoldSet, Adder, First

\* The smallest set of those that are bad.
LEMMA SmallestSet ==
  ASSUME NEW D, D # {}, \A T \in D : IsFiniteSet(T)
  PROVE  \E T \in D : \A U : /\ IsFiniteSet(U) /\ Cardinality(U) < Cardinality(T)
                             => U \notin D
<1> DEFINE N == {Cardinality(T) : T \in D}
<1>1. N \in SUBSET Nat /\ N # {}
  BY FS_CardinalityType
<1>2. PICK m \in N : \A n \in N : m <= n
  <2> HIDE DEF N
  <2>. QED
    BY <1>1, LeastNumber
<1>3. PICK T \in D : m = Cardinality(T)
  BY <1>2
<1>4. ASSUME NEW U \in D, Cardinality(U) < Cardinality(T)
      PROVE  FALSE
  <2>1. Cardinality(U) \in N
    OBVIOUS
  <2>. QED
    BY <1>1, <1>2, <1>3, <1>4, <2>1
<1>. QED
  BY <1>3, <1>4

\* Taking an element away makes a set smaller.
LEMMA Smaller ==
  ASSUME NEW S, IsFiniteSet(S), NEW x \in S
  PROVE  IsFiniteSet(S \ {x}) /\ Cardinality(S \ {x}) < Cardinality(S)
<1>1. Cardinality(S) \in Nat
  BY FS_CardinalityType
<1>. QED
  BY <1>1, FS_RemoveElement

LEMMA FirstIsIn == ASSUME NEW s, s # {} PROVE First(s) \in s
BY DEF First

LEMMA AddersAgree ==
  ASSUME NEW rows, NEW S, NEW T, NEW f, NEW g, Adder(rows, S, f), Adder(rows, T, g),
         NEW u, IsFiniteSet(u), u \subseteq S, u \subseteq T
  PROVE  f[u] = g[u]
<1> DEFINE D == {s \in SUBSET u : f[s] # g[s]}
<1>1. SUFFICES ASSUME D # {} PROVE FALSE
  OBVIOUS
<1>2. \A s \in D : IsFiniteSet(s)
  BY FS_Subset
<1>3. PICK s \in D : \A r : IsFiniteSet(r) /\ Cardinality(r) < Cardinality(s) => r \notin D
  <2> HIDE DEF D
  <2>. QED
    BY <1>1, <1>2, SmallestSet
<1>4. s # {} /\ s \in SUBSET S /\ s \in SUBSET T
  BY DEF Adder
<1>5. First(s) \in s
  BY <1>4, FirstIsIn
<1> DEFINE r == s \ {First(s)}
<1>6. f[s] = rows[First(s)].count + f[r] /\ g[s] = rows[First(s)].count + g[r]
  BY <1>4 DEF Adder
<1>7. r \in SUBSET u /\ r \notin D
  BY <1>2, <1>3, <1>5, Smaller
<1>. QED
  BY <1>6, <1>7

LEMMA AdderExists ==
  ASSUME NEW rows, NEW S, IsFiniteSet(S)
  PROVE  \E f : Adder(rows, S, f)
<1> DEFINE D == {T \in SUBSET S : ~\E f : Adder(rows, T, f)}
<1>1. SUFFICES ASSUME D # {} PROVE FALSE
  OBVIOUS
<1>2. \A T \in D : IsFiniteSet(T)
  BY FS_Subset
<1>3. PICK T \in D : \A U : IsFiniteSet(U) /\ Cardinality(U) < Cardinality(T) => U \notin D
  <2> HIDE DEF D
  <2>. QED
    BY <1>1, <1>2, SmallestSet
<1> DEFINE sum(s) == (CHOOSE f : Adder(rows, s, f))[s]
           F == [s \in SUBSET T |->
                   IF s = {} THEN 0 ELSE rows[First(s)].count + sum(s \ {First(s)})]
<1>4. ASSUME NEW s \in SUBSET T, s # T
      PROVE  Adder(rows, s, CHOOSE f : Adder(rows, s, f))
  <2>1. IsFiniteSet(s) /\ Cardinality(s) < Cardinality(T)
    BY <1>2, <1>4, FS_Subset, FS_CardinalityType
  <2>. QED
    BY <1>3, <2>1
<1>5. ASSUME NEW s \in SUBSET T, s # T
      PROVE  sum(s) = F[s]
  <2> DEFINE f == CHOOSE f : Adder(rows, s, f)
             r == s \ {First(s)}
             g == CHOOSE g : Adder(rows, r, g)
  <2>1. Adder(rows, s, f)
    BY <1>4, <1>5
  <2>2. f[s] = IF s = {} THEN 0 ELSE rows[First(s)].count + f[r]
    BY <2>1 DEF Adder
  <2>3. Adder(rows, r, g) /\ IsFiniteSet(r)
    BY <1>2, <1>4, <1>5, FS_Subset
  <2>4. f[r] = g[r]
    BY <2>1, <2>3, AddersAgree
  <2>. QED
    BY <2>2, <2>4
<1>6. ASSUME NEW s \in SUBSET T, s # {}
      PROVE  F[s] = rows[First(s)].count + F[s \ {First(s)}]
  <2>1. s \ {First(s)} \in SUBSET T /\ s \ {First(s)} # T
    BY <1>6, FirstIsIn
  <2>. QED
    BY <1>5, <1>6, <2>1
<1>7. F[{}] = 0
  OBVIOUS
<1>8. Adder(rows, T, F)
  <2> HIDE DEF sum
  <2>1. F = [s \in SUBSET T |-> F[s]]
    OBVIOUS
  <2> HIDE DEF F
  <2>. QED
    BY <1>6, <1>7, <2>1 DEF Adder
<1>. QED
  BY <1>8

LEMMA TotalUnfolds ==
  ASSUME NEW rows, NEW S, IsFiniteSet(S)
  PROVE  Total(rows, S) = IF S = {} THEN 0
                          ELSE rows[First(S)].count + Total(rows, S \ {First(S)})
<1> DEFINE f == CHOOSE f : Adder(rows, S, f)
           r == S \ {First(S)}
           g == CHOOSE g : Adder(rows, r, g)
<1>1. IsFiniteSet(r)
  BY FS_Subset
<1>2. Adder(rows, S, f) /\ Adder(rows, r, g)
  BY <1>1, AdderExists
<1>3. f[r] = g[r]
  BY <1>1, <1>2, AddersAgree
<1>4. f[S] = IF S = {} THEN 0 ELSE rows[First(S)].count + f[r]
  BY <1>2 DEF Adder
<1>5. Total(rows, S) = f[S] /\ Total(rows, r) = g[r]
  BY TotalIsAdders
<1> HIDE DEF f, g
<1>. QED
  BY <1>3, <1>4, <1>5

\* Any row can be told from the rest.
LEMMA TotalSplits ==
  ASSUME NEW rows, NEW S, IsFiniteSet(S), \A i \in S : rows[i].count \in Nat
  PROVE  /\ Total(rows, S) \in Nat
         /\ \A x \in S : Total(rows, S) = rows[x].count + Total(rows, S \ {x})
<1> DEFINE Splits(T) == /\ Total(rows, T) \in Nat
                        /\ \A x \in T : Total(rows, T) = rows[x].count + Total(rows, T \ {x})
           D == {T \in SUBSET S : ~Splits(T)}
<1>1. SUFFICES ASSUME D # {} PROVE FALSE
  OBVIOUS
<1>2. \A T \in SUBSET S : IsFiniteSet(T)
  BY FS_Subset
<1>3. PICK T \in D : \A U : IsFiniteSet(U) /\ Cardinality(U) < Cardinality(T) => U \notin D
  <2>1. \A T \in D : IsFiniteSet(T)
    BY <1>2
  <2> HIDE DEF D
  <2>. QED
    BY <1>1, <2>1, SmallestSet
<1> DEFINE c == First(T)
<1>4. Total(rows, T) = IF T = {} THEN 0 ELSE rows[c].count + Total(rows, T \ {c})
  BY <1>2, TotalUnfolds
<1>5. T # {}
  <2>1. SUFFICES ASSUME T = {} PROVE FALSE
    OBVIOUS
  <2>2. Splits(T)
    BY <1>4, <2>1
  <2>. QED
    BY <2>2
<1>6. c \in T
  BY <1>5, FirstIsIn
<1> HIDE DEF c
<1>7. \A x \in T : Splits(T \ {x})
  <2> TAKE x \in T
  <2>1. T \ {x} \in SUBSET S /\ T \ {x} \notin D
    BY <1>2, <1>3, Smaller
  <2>. QED
    BY <2>1
<1>8. Total(rows, T) \in Nat
  BY <1>4, <1>5, <1>6, <1>7
<1>9. ASSUME NEW x \in T
      PROVE  Total(rows, T) = rows[x].count + Total(rows, T \ {x})
  <2>1. CASE x = c
    BY <1>4, <1>5, <2>1
  <2>2. CASE x # c
    <3>1. Total(rows, T \ {c}) = rows[x].count + Total(rows, (T \ {c}) \ {x})
      BY <1>6, <1>7, <2>2
    <3>2. Total(rows, T \ {x}) = rows[c].count + Total(rows, (T \ {x}) \ {c})
      BY <1>6, <1>7, <2>2
    <3>3. (T \ {c}) \ {x} = (T \ {x}) \ {c}
      OBVIOUS
    <3>4. Total(rows, (T \ {x}) \ {c}) \in Nat
      <4>1. (T \ {x}) \ {c} \in SUBSET S /\ (T \ {x}) \ {c} \notin D
        <5>1. /\ IsFiniteSet(T \ {x}) /\ Cardinality(T \ {x}) < Cardinality(T)
              /\ IsFiniteSet((T \ {x}) \ {c}) /\ c \in T \ {x}
          BY <1>2, <1>6, <2>2, Smaller
        <5>2. Cardinality((T \ {x}) \ {c}) < Cardinality(T \ {x})
          BY <5>1, Smaller
        <5>3. /\ Cardinality((T \ {x}) \ {c}) \in Nat /\ Cardinality(T \ {x}) \in Nat
              /\ Cardinality(T) \in Nat
          BY <1>2, <5>1, FS_CardinalityType
        <5>4. Cardinality((T \ {x}) \ {c}) < Cardinality(T)
          BY <5>1, <5>2, <5>3
        <5>. QED
          BY <1>3, <5>1, <5>4
      <4>. QED
        BY <4>1
    <3>5. rows[x].count \in Nat /\ rows[c].count \in Nat
      BY <1>6
    <3> DEFINE rest == Total(rows, (T \ {x}) \ {c})
    <3>6. Total(rows, T \ {c}) = rows[x].count + rest
      BY <3>1, <3>3
    <3>7. Total(rows, T) = rows[c].count + Total(rows, T \ {c})
      BY <1>4, <1>5
    <3> HIDE DEF rest
    <3>8. rest \in Nat
      BY <3>4 DEF rest
    <3>9. Total(rows, T \ {x}) = rows[c].count + rest
      BY <3>2 DEF rest
    <3>. QED
      BY <3>5, <3>6, <3>7, <3>8, <3>9
  <2>. QED
    BY <2>1, <2>2
<1>10. Splits(T)
  BY <1>8, <1>9
<1>. QED
  BY <1>10

LEMMA TotalSame ==
  ASSUME NEW rows, NEW later, NEW S, IsFiniteSet(S),
         \A i \in S : later[i].count = rows[i].count
  PROVE  Total(later, S) = Total(rows, S)
<1> DEFINE D == {T \in SUBSET S : Total(later, T) # Total(rows, T)}
<1>1. SUFFICES ASSUME D # {} PROVE FALSE
  OBVIOUS
<1>2. \A T \in SUBSET S : IsFiniteSet(T)
  BY FS_Subset
<1>3. PICK T \in D : \A U : IsFiniteSet(U) /\ Cardinality(U) < Cardinality(T) => U \notin D
  <2>1. \A T \in D : IsFiniteSet(T)
    BY <1>2
  <2> HIDE DEF D
  <2>. QED
    BY <1>1, <2>1, SmallestSet
<1> DEFINE c == First(T)
<1>4. /\ Total(rows, T) = IF T = {} THEN 0 ELSE rows[c].count + Total(rows, T \ {c})
      /\ Total(later, T) = IF T = {} THEN 0 ELSE later[c].count + Total(later, T \ {c})
  BY <1>2, TotalUnfolds
<1>5. T # {}
  BY <1>4
<1>6. c \in T
  BY <1>5, FirstIsIn
<1> HIDE DEF c
<1>7. T \ {c} \in SUBSET S /\ T \ {c} \notin D
  BY <1>2, <1>3, <1>6, Smaller
<1>. QED
  BY <1>4, <1>5, <1>6, <1>7

\* The rows of a document that name something.
OfDoc(d) == {i \in Present : links[i].doc = d}

Mentions(d) == Total(links, OfDoc(d))

Events(d) == {e \in applied : DocOf[e] = d}

MentionInv ==
  /\ IsFiniteSet(applied)
  /\ \A d \in Doc : Mentions(d) = local[d] + Cardinality(Events(d))

LEMMA RowsAreCounted ==
  ASSUME LinksType
  PROVE  /\ IsFiniteSet(DOMAIN links) /\ DOMAIN links = 1 .. Len(links)
         /\ Len(links) \in Nat
         /\ \A i \in DOMAIN links : links[i] \in LinkRow /\ links[i].count \in Nat
         /\ \A d : /\ IsFiniteSet(OfDoc(d)) /\ OfDoc(d) \subseteq DOMAIN links
                   /\ Mentions(d) \in Nat
<1>1. /\ DOMAIN links = 1 .. Len(links) /\ Len(links) \in Nat
      /\ \A i \in DOMAIN links : links[i] \in LinkRow
  BY DEF LinksType
<1>2. IsFiniteSet(DOMAIN links)
  BY <1>1, FS_Interval
<1>3. \A i \in DOMAIN links : links[i].count \in Nat
  BY <1>1 DEF LinkRow
<1>4. \A d : IsFiniteSet(OfDoc(d)) /\ OfDoc(d) \subseteq DOMAIN links
  BY <1>2, FS_Subset DEF OfDoc, Present
<1>5. \A d : Mentions(d) \in Nat
  BY <1>3, <1>4, TotalSplits DEF Mentions
<1>. QED
  BY <1>1, <1>2, <1>3, <1>4, <1>5

\* Whoever rewrites rows without touching a document, a count, or what is gone,
\* leaves the mentions alone.
LEMMA RewritingKeepsMentions ==
  ASSUME LinksType, NEW d, OfDoc(d)' = OfDoc(d),
         \A i \in OfDoc(d) : links'[i].count = links[i].count
  PROVE  Mentions(d)' = Mentions(d)
BY RowsAreCounted, TotalSame DEF Mentions

LEMMA CountingMentions ==
  ASSUME LinksType, NEW d \in Doc, NEW v \in Uri, Counted(d, v), NEW e \in Doc
  PROVE  Mentions(e)' = IF e = d THEN Mentions(e) + 1 ELSE Mentions(e)
<1>1. PICK i \in DOMAIN links :
        /\ links[i].doc = d /\ links[i].uri = v
        /\ links' = [links EXCEPT ![i].count = @ + 1]
  BY DEF Counted
<1>2. /\ DOMAIN links' = DOMAIN links
      /\ \A j \in DOMAIN links :
           /\ links'[j].doc = links[j].doc /\ links'[j].uri = links[j].uri
           /\ links'[j].count = IF j = i THEN links[j].count + 1 ELSE links[j].count
  BY <1>1, RowsAreCounted DEF LinkRow
<1>3. OfDoc(e)' = OfDoc(e)
  BY <1>2 DEF OfDoc, Present
<1>4. CASE e = d
  <2>1. i \in OfDoc(e)
    BY <1>1, <1>4, MarksDiffer DEF OfDoc, Present
  <2>2. \A j \in OfDoc(e) : links'[j].count \in Nat /\ links[j].count \in Nat
    BY <1>2, RowsAreCounted
  <2>3. Total(links', OfDoc(e)) = links'[i].count + Total(links', OfDoc(e) \ {i})
    BY <2>1, <2>2, RowsAreCounted, TotalSplits
  <2>4. Total(links, OfDoc(e)) = links[i].count + Total(links, OfDoc(e) \ {i})
    BY <2>1, <2>2, RowsAreCounted, TotalSplits
  <2>5. IsFiniteSet(OfDoc(e) \ {i})
    BY RowsAreCounted, FS_Subset
  <2>6. Total(links', OfDoc(e) \ {i}) = Total(links, OfDoc(e) \ {i})
    BY <1>2, <2>5, RowsAreCounted, TotalSame
  <2>7. Total(links, OfDoc(e) \ {i}) \in Nat
    BY <2>2, <2>5, TotalSplits
  <2>8. links'[i].count = links[i].count + 1 /\ links[i].count \in Nat
    BY <1>2, RowsAreCounted
  <2>. QED
    BY <1>3, <1>4, <2>3, <2>4, <2>6, <2>7, <2>8 DEF Mentions
<1>5. CASE e # d
  <2>1. \A j \in OfDoc(e) : links'[j].count = links[j].count
    BY <1>1, <1>2, <1>5 DEF OfDoc, Present
  <2>. QED
    BY <1>3, <1>5, <2>1, RewritingKeepsMentions
<1>. QED
  BY <1>4, <1>5

LEMMA AddingMentions ==
  ASSUME LinksType, NEW d \in Doc, NEW v \in Uri, Added(d, v), NEW e \in Doc
  PROVE  Mentions(e)' = IF e = d THEN Mentions(e) + 1 ELSE Mentions(e)
<1> DEFINE r == [doc |-> d, uri |-> v, count |-> 1, home |-> v]
           n == Len(links) + 1
<1>1. r \in LinkRow /\ r.doc = d /\ r.uri = v /\ r.count = 1
  BY DEF LinkRow
<1> HIDE DEF r
<1>2. links' = Append(links, r)
  BY DEF Added, r
<1>3. /\ DOMAIN links' = DOMAIN links \union {n} /\ n \notin DOMAIN links
      /\ \A j \in DOMAIN links : links'[j] = links[j]
      /\ links'[n] = r
  BY <1>1, <1>2 DEF LinksType
<1> HIDE DEF n
<1>4. CASE e = d
  <2>1. OfDoc(e)' = OfDoc(e) \union {n} /\ n \notin OfDoc(e)
    BY <1>1, <1>3, <1>4, MarksDiffer DEF OfDoc, Present
  <2>2. IsFiniteSet(OfDoc(e)') /\ \A j \in OfDoc(e)' : links'[j].count \in Nat
    BY <1>1, <1>3, <2>1, RowsAreCounted, FS_AddElement
  <2>3. Total(links', OfDoc(e)') = links'[n].count + Total(links', OfDoc(e)' \ {n})
    BY <2>1, <2>2, TotalSplits
  <2>4. OfDoc(e)' \ {n} = OfDoc(e)
    BY <2>1
  <2>5. Total(links', OfDoc(e)) = Total(links, OfDoc(e))
    BY <1>3, RowsAreCounted, TotalSame
  <2>6. Mentions(e) \in Nat
    BY RowsAreCounted
  <2>7. Mentions(e)' = Total(links', OfDoc(e)') /\ Mentions(e) = Total(links, OfDoc(e))
    BY DEF Mentions
  <2>8. Mentions(e)' = 1 + Mentions(e)
    BY <1>1, <1>3, <2>3, <2>4, <2>5, <2>7
  <2>. QED
    BY <1>4, <2>6, <2>8
<1>5. CASE e # d
  <2>1. OfDoc(e)' = OfDoc(e)
    BY <1>1, <1>3, <1>5 DEF OfDoc, Present
  <2>2. \A j \in OfDoc(e) : links'[j].count = links[j].count
    BY <1>3, RowsAreCounted
  <2>. QED
    BY <1>5, <2>1, <2>2, RewritingKeepsMentions
<1>. QED
  BY <1>4, <1>5

\* What a fold makes of the counts.
CountsFolded(g, loser, survivor) ==
  \A i \in DOMAIN links :
    g[i].count = IF links[i].uri = survivor /\ Rows(links[i].doc, loser) # {}
                   THEN links[i].count + links[First(Rows(links[i].doc, loser))].count
                   ELSE links[i].count

LEMMA FoldCounts ==
  ASSUME LinksType, NEW loser \in Uri, NEW survivor \in Uri, loser # survivor,
         NEW to \in Uri
  PROVE  CountsFolded(FoldLinks(loser, survivor, to), loser, survivor)
<1> DEFINE g == FoldLinks(loser, survivor, to)
<1> SUFFICES ASSUME NEW i \in DOMAIN links
             PROVE  g[i].count =
                      IF links[i].uri = survivor /\ Rows(links[i].doc, loser) # {}
                        THEN links[i].count + links[First(Rows(links[i].doc, loser))].count
                        ELSE links[i].count
  BY DEF CountsFolded
<1>0. links[i] \in LinkRow
  BY DEF LinksType
<1>1. CASE links[i].uri = survivor /\ Rows(links[i].doc, loser) # {}
  <2> DEFINE j == CHOOSE n \in Rows(links[i].doc, loser) : TRUE
  <2>1. g[i] = [links[i] EXCEPT !.count = @ + links[j].count]
    BY <1>1 DEF FoldLinks
  <2>2. j = First(Rows(links[i].doc, loser))
    BY DEF First
  <2> HIDE DEF j
  <2>. QED
    BY <1>0, <1>1, <2>1, <2>2 DEF LinkRow
<1>2. CASE links[i].uri = loser
  <2>1. g[i] = [links[i] EXCEPT !.uri = IF Rows(links[i].doc, survivor) # {}
                                          THEN Nowhere ELSE to]
    BY <1>2 DEF FoldLinks
  <2>. QED
    BY <1>0, <1>2, <2>1 DEF LinkRow
<1>3. CASE /\ links[i].uri # loser
           /\ ~(links[i].uri = survivor /\ Rows(links[i].doc, loser) # {})
  <2>1. g[i] = links[i]
    BY <1>3 DEF FoldLinks
  <2>. QED
    BY <1>3, <2>1
<1>. QED
  BY <1>1, <1>2, <1>3

\* A row that is folded takes its count to the survivor's row of the document.
LEMMA FoldingKeepsMentions ==
  ASSUME LinksType, NEW loser \in Uri, NEW survivor \in Uri, loser # survivor,
         NEW to \in Uri, links' = FoldLinks(loser, survivor, to), NEW d
  PROVE  Mentions(d)' = Mentions(d)
<1>1. /\ DOMAIN links' = DOMAIN links
      /\ \A i \in DOMAIN links :
           /\ links'[i].doc = links[i].doc
           /\ links'[i].uri = IF links[i].uri # loser THEN links[i].uri
                              ELSE IF Rows(links[i].doc, survivor) # {} THEN Nowhere ELSE to
  <2>1. Folded(links', loser, survivor, to)
    BY FoldEffect
  <2>. QED
    BY <2>1 DEF Folded
<1>2. \A i \in DOMAIN links : links'[i].count =
        IF links[i].uri = survivor /\ Rows(links[i].doc, loser) # {}
          THEN links[i].count + links[First(Rows(links[i].doc, loser))].count
          ELSE links[i].count
  <2>1. CountsFolded(links', loser, survivor)
    BY FoldCounts
  <2>. QED
    BY <2>1 DEF CountsFolded
<1>3. CASE Rows(d, loser) = {} \/ Rows(d, survivor) = {}
  <2>1. \A i \in DOMAIN links : links[i].doc = d =>
          /\ links'[i].count = links[i].count
          /\ links'[i].uri = Nowhere <=> links[i].uri = Nowhere
    <3> SUFFICES ASSUME NEW i \in DOMAIN links, links[i].doc = d
                 PROVE  /\ links'[i].count = links[i].count
                        /\ links'[i].uri = Nowhere <=> links[i].uri = Nowhere
      OBVIOUS
    <3>1. /\ links[i].uri = loser => Rows(d, loser) # {}
          /\ links[i].uri = survivor => Rows(d, survivor) # {}
      BY DEF Rows
    <3>2. links'[i].count = links[i].count
      BY <1>2, <1>3, <3>1
    <3>3. links'[i].uri = Nowhere <=> links[i].uri = Nowhere
      BY <1>1, <1>3, <3>1, MarksDiffer
    <3>. QED
      BY <3>2, <3>3
  <2>2. OfDoc(d)' = OfDoc(d)
    BY <1>1, <2>1 DEF OfDoc, Present
  <2>3. \A i \in OfDoc(d) : links'[i].count = links[i].count
    BY <2>1 DEF OfDoc, Present
  <2>. QED
    BY <2>2, <2>3, RewritingKeepsMentions
<1>4. ASSUME NEW a \in Rows(d, loser), NEW b \in Rows(d, survivor)
      PROVE  Mentions(d)' = Mentions(d)
  <2> DEFINE S == OfDoc(d)
             rest == (S \ {a}) \ {b}
  <2>1. /\ a \in DOMAIN links /\ b \in DOMAIN links /\ a # b
        /\ links[a].doc = d /\ links[b].doc = d
        /\ links[a].uri = loser /\ links[b].uri = survivor
    BY <1>4 DEF Rows
  <2>2. /\ \A i \in Rows(d, loser) : i = a
        /\ \A i \in Rows(d, survivor) : i = b
    BY <1>4, MarksDiffer DEF Rows, LinksType, OneRow
  <2>3. First(Rows(d, loser)) = a
    BY <1>4, <2>2, FirstIsIn
  <2>4. a \in S /\ b \in S \ {a} /\ IsFiniteSet(S \ {a}) /\ IsFiniteSet(rest)
    BY <2>1, MarksDiffer, RowsAreCounted, FS_Subset DEF OfDoc, Present
  <2>5. OfDoc(d)' = S \ {a}
    <3>1. links'[a].uri = Nowhere
      BY <1>1, <1>4, <2>1
    <3>2. \A i \in DOMAIN links : i # a /\ links[i].doc = d =>
            links'[i].uri = links[i].uri
      BY <1>1, <2>2 DEF Rows
    <3>. QED
      BY <1>1, <2>1, <3>1, <3>2 DEF OfDoc, Present
  <2>6. /\ links'[b].count = links[b].count + links[a].count
        /\ links[a].count \in Nat /\ links[b].count \in Nat
    BY <1>2, <1>4, <2>1, <2>3, RowsAreCounted
  <2>7. \A i \in rest : links'[i].count = links[i].count
    BY <1>2, <2>2, RowsAreCounted DEF Rows, OfDoc, Present
  <2>8. \A i \in S : links[i].count \in Nat
    BY RowsAreCounted
  <2>9. \A i \in S \ {a} : links'[i].count \in Nat
    BY <2>6, <2>7, <2>8
  <2> HIDE DEF S, rest
  <2>10. /\ Total(links, S) = links[a].count + Total(links, S \ {a})
         /\ Total(links, S \ {a}) = links[b].count + Total(links, rest)
         /\ Total(links, rest) \in Nat
    <3>1. IsFiniteSet(S)
      BY RowsAreCounted DEF S
    <3>2. \A x \in S : Total(links, S) = links[x].count + Total(links, S \ {x})
      BY <2>8, <3>1, TotalSplits
    <3>3. Total(links, S \ {a}) = links[b].count + Total(links, rest)
      BY <2>4, <2>8, TotalSplits DEF rest
    <3>4. Total(links, rest) \in Nat
      <4>1. \A i \in rest : links[i].count \in Nat
        BY <2>8 DEF rest
      <4>. QED
        BY <2>4, <4>1, TotalSplits
    <3>. QED
      BY <2>4, <3>2, <3>3, <3>4
  <2>11. Total(links', S \ {a}) = links'[b].count + Total(links', rest)
    <3> DEFINE g == links'
    <3>1. \A i \in S \ {a} : g[i].count \in Nat
      BY <2>9
    <3> HIDE DEF g
    <3>2. Total(g, S \ {a}) = g[b].count + Total(g, rest)
      BY <2>4, <3>1, TotalSplits DEF rest
    <3>. QED
      BY <3>2 DEF g
  <2>12. Total(links', rest) = Total(links, rest)
    <3> DEFINE g == links'
    <3>1. \A i \in rest : g[i].count = links[i].count
      BY <2>7
    <3> HIDE DEF g
    <3>2. Total(g, rest) = Total(links, rest)
      BY <2>4, <3>1, TotalSame
    <3>. QED
      BY <3>2 DEF g
  <2>13. Mentions(d)' = Total(links', S \ {a}) /\ Mentions(d) = Total(links, S)
    BY <2>5 DEF Mentions, S
  <2>. QED
    BY <2>6, <2>10, <2>11, <2>12, <2>13
<1>. QED
  BY <1>3, <1>4

LEMMA MergingKeepsMentions ==
  ASSUME TypeInv, NEW reg, NEW names, NEW loser \in Uri, NEW survivor \in Uri,
         loser # survivor, NEW kind, NEW back,
         DoMerge(reg, names, loser, survivor, kind, back), NEW d
  PROVE  Mentions(d)' = Mentions(d)
<1>1. Target(reg, survivor) \in Uri
  BY TargetType DEF TypeInv
<1>2. links' = FoldLinks(loser, survivor, Target(reg, survivor))
  BY DEF DoMerge
<1>. QED
  BY <1>1, <1>2, FoldingKeepsMentions DEF TypeInv

LEMMA UndoingKeepsMentions ==
  ASSUME TypeInv, NEW k \in DOMAIN log, Unmerge(k), NEW d
  PROVE  Mentions(d)' = Mentions(d)
<1> DEFINE m == log[k]
<1>1. m.loser # Nowhere /\ m.survivor # Nowhere
  BY EntryShape, MarksDiffer DEF TypeInv
<1>2. links' = [i \in DOMAIN links |->
                  IF i \in m.links /\ links[i].uri = m.survivor
                    THEN [links[i] EXCEPT !.uri = m.loser] ELSE links[i]]
  BY DEF Unmerge
<1> HIDE DEF m
<1>3. LinksType
  BY DEF TypeInv
<1>4. \A i \in DOMAIN links :
        /\ links'[i].doc = links[i].doc /\ links'[i].count = links[i].count
        /\ links'[i].uri = Nowhere <=> links[i].uri = Nowhere
  BY <1>1, <1>2, <1>3, RowsAreCounted DEF LinkRow
<1>5. OfDoc(d)' = OfDoc(d)
  BY <1>2, <1>4 DEF OfDoc, Present
<1>6. \A i \in OfDoc(d) : links'[i].count = links[i].count
  BY <1>3, <1>4, RowsAreCounted
<1>. QED
  BY <1>3, <1>5, <1>6, RewritingKeepsMentions

LEMMA LinkingMentions ==
  ASSUME TypeInv, NEW d \in Doc, NEW u \in Uri, Link(d, u), NEW e \in Doc
  PROVE  Mentions(e)' = IF e = d THEN Mentions(e) + 1 ELSE Mentions(e)
<1>1. LiveOf(u) \in Uri
  BY LiveOfType DEF TypeInv
<1>2. Counted(d, LiveOf(u)) \/ Added(d, LiveOf(u))
  BY <1>1, LinkEffect DEF TypeInv
<1>. QED
  BY <1>1, <1>2, CountingMentions, AddingMentions DEF TypeInv

LEMMA EventsAreCounted ==
  ASSUME IsFiniteSet(applied), NEW d
  PROVE  IsFiniteSet(Events(d)) /\ Cardinality(Events(d)) \in Nat
<1>1. IsFiniteSet(Events(d))
  BY FS_Subset DEF Events
<1>. QED
  BY <1>1, FS_CardinalityType

LEMMA MentionStep == TypeInv /\ MentionInv /\ [Next]_vars => MentionInv'
<1> SUFFICES ASSUME TypeInv, MentionInv, [Next]_vars
             PROVE  MentionInv'
  OBVIOUS
<1>0. \A d \in Doc : /\ local[d] \in Nat /\ Cardinality(Events(d)) \in Nat
                     /\ Mentions(d) = local[d] + Cardinality(Events(d))
  BY EventsAreCounted DEF TypeInv, MentionInv
<1>1. ASSUME NEW d \in Doc, NEW u \in Uri, Mention(d, u)
      PROVE  MentionInv'
  <2>1. /\ Link(d, u) /\ local' = [local EXCEPT ![d] = @ + 1] /\ applied' = applied
    BY <1>1 DEF Mention
  <2>2. \A e : Events(e)' = Events(e)
    BY <2>1 DEF Events
  <2>3. \A e \in Doc : local'[e] = IF e = d THEN local[e] + 1 ELSE local[e]
    BY <2>1 DEF TypeInv
  <2>4. \A e \in Doc : Mentions(e)' = IF e = d THEN Mentions(e) + 1 ELSE Mentions(e)
    BY <2>1, LinkingMentions
  <2>5. \A e \in Doc : Mentions(e)' = local'[e] + Cardinality(Events(e))
    BY <1>0, <2>3, <2>4
  <2>. QED
    BY <2>1, <2>2, <2>5 DEF MentionInv
<1>2. ASSUME NEW e \in Event, ApplyDoclink(e)
      PROVE  MentionInv'
  <2>1. /\ Link(DocOf[e], UriOf[e]) /\ applied' = applied \union {e} /\ local' = local
        /\ e \notin applied /\ DocOf[e] \in Doc /\ UriOf[e] \in Uri
    BY <1>2, EntityAssumption DEF ApplyDoclink
  <2>2. IsFiniteSet(applied)
    BY DEF MentionInv
  <2>3. ASSUME NEW d \in Doc
        PROVE  Mentions(d)' = local'[d] + Cardinality(Events(d)')
    <3>1. Mentions(d)' = IF d = DocOf[e] THEN Mentions(d) + 1 ELSE Mentions(d)
      BY <2>1, LinkingMentions
    <3>2. CASE d = DocOf[e]
      <4>1. Events(d)' = Events(d) \union {e} /\ e \notin Events(d)
        BY <2>1, <3>2 DEF Events
      <4>2. Cardinality(Events(d) \union {e}) = Cardinality(Events(d)) + 1
        BY <2>2, <4>1, EventsAreCounted, FS_AddElement
      <4>. QED
        BY <1>0, <2>1, <3>1, <3>2, <4>1, <4>2
    <3>3. CASE d # DocOf[e]
      <4>1. Events(d)' = Events(d)
        BY <2>1, <3>3 DEF Events
      <4>. QED
        BY <1>0, <2>1, <3>1, <3>3, <4>1
    <3>. QED
      BY <3>2, <3>3
  <2>4. IsFiniteSet(applied')
    BY <2>1, <2>2, FS_AddElement
  <2>. QED
    BY <2>3, <2>4 DEF MentionInv
<1>3. ASSUME UNCHANGED <<applied, local>>, \A d \in Doc : Mentions(d)' = Mentions(d)
      PROVE  MentionInv'
  <2>1. \A d : Events(d)' = Events(d)
    BY <1>3 DEF Events
  <2>. QED
    BY <1>3, <2>1 DEF MentionInv
<1>4. ASSUME UNCHANGED <<links, applied, local>>
      PROVE  MentionInv'
  <2>1. \A d \in Doc : Mentions(d)' = Mentions(d)
    BY <1>4 DEF Mentions, OfDoc, Present
  <2>. QED
    BY <1>3, <1>4, <2>1
<1>5. ASSUME NEW c \in Slot, Merge(c)
      PROVE  MentionInv'
  <2>1. /\ call[c].loser \in Uri /\ call[c].survivor \in Uri
        /\ call[c].loser # call[c].survivor /\ UNCHANGED <<applied, local>>
        /\ DoMerge(merged, aliases, call[c].loser, call[c].survivor, "merge", Nowhere)
    BY <1>5 DEF Merge, TypeInv, CallsType
  <2>2. \A d \in Doc : Mentions(d)' = Mentions(d)
    BY <2>1, MergingKeepsMentions
  <2>. QED
    BY <1>3, <2>1, <2>2
<1>6. ASSUME NEW c \in Slot, Retype(c)
      PROVE  MentionInv'
  <2>1. /\ call[c].loser \in Uri /\ call[c].survivor \in Uri
        /\ call[c].loser # call[c].survivor /\ UNCHANGED <<applied, local>>
    BY <1>6 DEF Retype, TypeInv, CallsType
  <2>2. PICK reg, names, kind, back :
          DoMerge(reg, names, call[c].loser, call[c].survivor, kind, back)
    BY <1>6, RetypeMerges DEF RetypeMerge
  <2>3. \A d \in Doc : Mentions(d)' = Mentions(d)
    BY <2>1, <2>2, MergingKeepsMentions
  <2>. QED
    BY <1>3, <2>1, <2>3
<1>7. ASSUME NEW k \in DOMAIN log, Unmerge(k)
      PROVE  MentionInv'
  <2>1. \A d \in Doc : Mentions(d)' = Mentions(d)
    BY <1>7, UndoingKeepsMentions
  <2>2. UNCHANGED <<applied, local>>
    BY <1>7 DEF Unmerge
  <2>. QED
    BY <1>3, <2>1, <2>2
<1>8. ASSUME NEW u \in Uri, Fact(u)
      PROVE  MentionInv'
  BY <1>4, <1>8 DEF Fact
<1>9. ASSUME NEW c \in Slot, NEW u \in Uri, NEW v \in Uri,
             CheckMerge(c, u, v) \/ CheckRetype(c, u, v)
      PROVE  MentionInv'
  BY <1>4, <1>9 DEF CheckMerge, CheckRetype, Begin
<1>10. ASSUME NEW c \in Slot, Fail(c)
       PROVE  MentionInv'
  BY <1>4, <1>10 DEF Fail
<1>11. CASE UNCHANGED vars
  BY <1>4, <1>11 DEF vars
<1>. QED
  BY <1>1, <1>2, <1>5, <1>6, <1>7, <1>8, <1>9, <1>10, <1>11
     DEF Next, AddFact, ApplyFact

\* No fold, redirection or undoing loses or doubles a mention, for any number of
\* calls at once and any merges, retypes and undoings: _do_merge adds the count
\* of each row it drops to a row of the same document.
THEOREM NoMentionIsLost == Spec => []MentionsAreKept
<1>1. Init => MentionInv
  <2>1. SUFFICES ASSUME Init PROVE MentionInv
    OBVIOUS
  <2>2. links = <<>> /\ applied = {} /\ \A d \in Doc : local[d] = 0
    BY <2>1 DEF Init
  <2>3. \A d : OfDoc(d) = {} /\ Events(d) = {}
    BY <2>2 DEF OfDoc, Present, Events
  <2>4. Total(links, {}) = 0
    BY FS_EmptySet, TotalUnfolds
  <2>5. \A d \in Doc : Mentions(d) = 0 /\ Cardinality(Events(d)) = 0
    <3> TAKE d \in Doc
    <3>1. Mentions(d) = Total(links, {})
      BY <2>3 DEF Mentions
    <3>. QED
      BY <2>3, <2>4, <3>1, FS_EmptySet
  <2>6. \A d \in Doc : Mentions(d) = local[d] + Cardinality(Events(d))
    BY <2>2, <2>5
  <2>. QED
    BY <2>2, <2>6, FS_EmptySet DEF MentionInv
<1>2. MentionInv => MentionsAreKept
  BY DEF MentionInv, MentionsAreKept, Mentions, Total, OfDoc, Events
<1>. QED
  BY <1>1, <1>2, MentionStep, TypeIsInvariant, PTL DEF Spec

-----------------------------------------------------------------------------
(* Names.  Merges undone last first return through the registries they came   *)
(* by, and in each of those the survivor knows what the loser was known by.   *)

Snapshot == [reg : [Uri -> Uri \union {Live, Absent}], names : [Uri -> SUBSET Name]]

Now == [reg |-> merged, names |-> aliases]

Sound(s) ==
  /\ Grounded(s.reg) /\ Kept(s.reg)
  /\ \A u \in Uri : s.reg[u] = Absent => s.names[u] = {}
  /\ \A u \in Uri : s.reg[u] \in Uri => KnownBy(u, s.names) \subseteq s.names[s.reg[u]]

\* t is what the merge m made of s.
Made(m, s, t) ==
  /\ s.reg[m.loser] = Live
  /\ CASE m.kind = "minted"  -> s.reg[m.survivor] = Absent
       [] m.kind = "revived" -> s.reg[m.survivor] = m.back /\ m.back \in Uri
       [] OTHER              -> s.reg[m.survivor] = Live
  /\ t.reg = [s.reg EXCEPT ![m.survivor] = Live, ![m.loser] = m.survivor]
  /\ t.names = [s.names EXCEPT ![m.survivor] =
                  (IF m.kind = "minted" THEN s.names[m.loser] ELSE @)
                     \union KnownBy(m.loser, s.names)]
  /\ m.kind # "minted" => m.added = KnownBy(m.loser, s.names) \ s.names[m.survivor]

\* h is what the merges of the log have gone through.
Stacked(h, entries, L) ==
  /\ h \in [1 .. L + 1 -> Snapshot]
  /\ \A k \in 1 .. L + 1 : Sound(h[k])
  /\ \A k \in 1 .. L : IF entries[k].reverted THEN h[k + 1] = h[k]
                                              ELSE Made(entries[k], h[k], h[k + 1])

NamesStack ==
  inOrder => \E h : Stacked(h, log, Len(log)) /\ h[Len(log) + 1] = Now

LEMMA MadeIsSound ==
  ASSUME NEW m, m.loser \in Uri, m.survivor \in Uri, m.loser # m.survivor,
         NEW s \in Snapshot, NEW t \in Snapshot, Sound(s), Made(m, s, t)
  PROVE  Sound(t)
<1> DEFINE u == m.loser
           v == m.survivor
<1>1. /\ u \in Uri /\ v \in Uri /\ u # v
      /\ s.reg \in [Uri -> Uri \union {Live, Absent}] /\ s.names \in [Uri -> SUBSET Name]
      /\ t.reg \in [Uri -> Uri \union {Live, Absent}] /\ t.names \in [Uri -> SUBSET Name]
  BY DEF Snapshot
<1>2. /\ s.reg[u] = Live
      /\ t.reg[u] = v /\ t.reg[v] = Live
      /\ \A w \in Uri \ {u, v} : t.reg[w] = s.reg[w]
  BY <1>1 DEF Made
<1>3. /\ \A w \in Uri \ {v} : t.names[w] = s.names[w]
      /\ KnownBy(u, s.names) \subseteq t.names[v]
      /\ m.kind # "minted" => s.names[v] \subseteq t.names[v]
  BY <1>1 DEF Made
<1>4. m.kind = "minted" => s.reg[v] = Absent
  BY DEF Made
<1>5. /\ Grounded(s.reg) /\ Kept(s.reg)
      /\ \A w \in Uri : s.reg[w] = Absent => s.names[w] = {}
      /\ \A w \in Uri : s.reg[w] \in Uri => KnownBy(w, s.names) \subseteq s.names[s.reg[w]]
  BY DEF Sound
<1> HIDE DEF u, v
<1>6. Grounded(t.reg)
  BY <1>1, <1>2, <1>5, RedirectingGrounds
<1>7. Kept(t.reg)
  BY <1>1, <1>2, <1>5, RedirectingKeeps
<1>8. ASSUME NEW w \in Uri, t.reg[w] = Absent
      PROVE  t.names[w] = {}
  <2>1. w # u /\ w # v
    BY <1>1, <1>2, <1>8, MarksDiffer
  <2>. QED
    BY <1>2, <1>3, <1>5, <1>8, <2>1
<1>9. s.names[v] \subseteq t.names[v]
  BY <1>1, <1>3, <1>4, <1>5
<1>10. ASSUME NEW w \in Uri, t.reg[w] \in Uri
       PROVE  KnownBy(w, t.names) \subseteq t.names[t.reg[w]]
  <2>1. w # v
    BY <1>2, <1>10, MarksDiffer
  <2>2. KnownBy(w, t.names) = KnownBy(w, s.names)
    BY <1>3, <2>1 DEF KnownBy
  <2>3. CASE w = u
    BY <1>2, <1>3, <2>2, <2>3
  <2>4. CASE w # u
    <3>1. t.reg[w] = s.reg[w] /\ KnownBy(w, s.names) \subseteq s.names[s.reg[w]]
      BY <1>2, <1>5, <1>10, <2>1, <2>4
    <3>2. s.names[t.reg[w]] \subseteq t.names[t.reg[w]]
      BY <1>3, <1>9, <1>10
    <3>. QED
      BY <2>2, <3>1, <3>2
  <2>. QED
    BY <2>3, <2>4
<1>. QED
  BY <1>6, <1>7, <1>8, <1>10 DEF Sound

LEMMA MergeIsMade ==
  ASSUME TypeInv, NEW u, NEW v, NEW reg, NEW names, NEW kind, NEW back,
         CleanMerge(u, v, reg, names, kind, back), NEW m,
         m = NewEntry(u, v, names, kind, back)
  PROVE  Made(m, Now, Now')
<1>1. /\ m.loser = u /\ m.survivor = v /\ m.kind = kind /\ m.back = back
      /\ m.added = KnownBy(u, names) \ names[v]
  BY DEF NewEntry
<1>2. /\ Now.reg = merged /\ Now.names = aliases
      /\ Now'.reg = merged' /\ Now'.names = aliases'
  BY DEF Now
<1>3. /\ u \in Uri /\ v \in Uri /\ u # v /\ merged[u] = Live
      /\ merged' = [reg EXCEPT ![u] = v]
      /\ aliases' = [names EXCEPT ![v] = @ \union KnownBy(u, names)]
  BY DEF CleanMerge, Moved
<1>4. /\ merged \in [Uri -> Uri \union {Live, Absent}]
      /\ aliases \in [Uri -> SUBSET Name]
  BY DEF TypeInv, RegistryType
<1>5. CASE kind = "merge" /\ merged[v] = Live /\ reg = merged /\ names = aliases
  <2>1. merged' = [merged EXCEPT ![v] = Live, ![u] = v]
    BY <1>3, <1>4, <1>5
  <2>2. aliases' = [aliases EXCEPT ![v] = @ \union KnownBy(u, aliases)]
    BY <1>3, <1>5
  <2>. QED
    BY <1>1, <1>2, <1>3, <1>5, <2>1, <2>2 DEF Made
<1>6. CASE kind = "minted" /\ Mint(u, v, reg, names)
  <2>1. KnownBy(u, names) = KnownBy(u, aliases)
    BY <1>3, <1>4, <1>6 DEF Mint, KnownBy
  <2>2. merged' = [merged EXCEPT ![v] = Live, ![u] = v]
    BY <1>3, <1>6 DEF Mint
  <2>3. aliases' = [aliases EXCEPT ![v] = aliases[u] \union KnownBy(u, aliases)]
    BY <1>3, <1>4, <1>6, <2>1 DEF Mint
  <2>4. merged[v] = Absent
    BY <1>6 DEF Mint
  <2>. QED
    BY <1>1, <1>2, <1>3, <1>6, <2>2, <2>3, <2>4 DEF Made
<1>7. CASE /\ kind = "revived" /\ merged[v] \in Uri /\ back = merged[v]
           /\ reg = [merged EXCEPT ![v] = Live] /\ names = aliases
  <2>1. merged' = [merged EXCEPT ![v] = Live, ![u] = v]
    BY <1>3, <1>7
  <2>2. aliases' = [aliases EXCEPT ![v] = @ \union KnownBy(u, aliases)]
    BY <1>3, <1>7
  <2>. QED
    BY <1>1, <1>2, <1>3, <1>7, <2>1, <2>2 DEF Made
<1>. QED
  BY <1>5, <1>6, <1>7 DEF CleanMerge

LEMMA NowIsSnapshot == TypeInv => Now \in Snapshot
BY DEF TypeInv, RegistryType, Now, Snapshot

LEMMA MergeStacks ==
  ASSUME TypeInv, TypeInv', NamesStack,
         NEW u, NEW v, NEW reg, NEW names, NEW kind, NEW back,
         CleanMerge(u, v, reg, names, kind, back)
  PROVE  NamesStack'
<1> SUFFICES ASSUME inOrder'
             PROVE  \E g : Stacked(g, log', Len(log')) /\ g[Len(log') + 1] = Now'
  BY DEF NamesStack
<1> DEFINE L == Len(log)
           m == NewEntry(u, v, names, kind, back)
<1>1. inOrder /\ log' = Append(log, m)
  BY DEF CleanMerge, Moved
<1>2. /\ L \in Nat /\ Len(log') = L + 1 /\ log'[L + 1] = m
      /\ \A k \in 1 .. L : log'[k] = log[k]
  BY <1>1 DEF TypeInv, LogType
<1>3. PICK h : Stacked(h, log, L) /\ h[L + 1] = Now
  BY <1>1 DEF NamesStack
<1>4. /\ m.loser = u /\ m.survivor = v /\ u \in Uri /\ v \in Uri /\ u # v
      /\ m.reverted = FALSE
  BY DEF CleanMerge, NewEntry
<1>5. Now \in Snapshot /\ Now' \in Snapshot /\ Made(m, Now, Now')
  <2>1. Now \in Snapshot /\ Made(m, Now, Now')
    BY NowIsSnapshot, MergeIsMade
  <2>2. Now' \in Snapshot
    BY DEF TypeInv, RegistryType, Now, Snapshot
  <2>. QED
    BY <2>1, <2>2
<1> DEFINE g == [k \in 1 .. L + 2 |-> IF k = L + 2 THEN Now' ELSE h[k]]
<1> HIDE DEF L, m
<1>6. /\ h \in [1 .. L + 1 -> Snapshot] /\ \A k \in 1 .. L + 1 : Sound(h[k])
      /\ \A k \in 1 .. L : IF log[k].reverted THEN h[k + 1] = h[k]
                                              ELSE Made(log[k], h[k], h[k + 1])
  BY <1>3 DEF Stacked
<1>7. Sound(Now')
  <2>1. Sound(Now)
    BY <1>2, <1>3, <1>6
  <2> DEFINE s == Now
             t == Now'
  <2>2. s \in Snapshot /\ t \in Snapshot /\ Sound(s) /\ Made(m, s, t)
    BY <1>5, <2>1
  <2> HIDE DEF s, t
  <2>3. Sound(t)
    BY <1>4, <2>2, MadeIsSound
  <2>. QED
    BY <2>3 DEF t
<1>8. /\ g \in [1 .. L + 2 -> Snapshot] /\ g[L + 2] = Now' /\ g[L + 1] = Now
      /\ \A k \in 1 .. L + 1 : g[k] = h[k]
  BY <1>2, <1>3, <1>5, <1>6
<1> HIDE DEF g
<1>9. \A k \in 1 .. L + 2 : Sound(g[k])
  <2>1. \A k \in 1 .. L + 2 : k = L + 2 \/ k \in 1 .. L + 1
    BY <1>2
  <2>. QED
    BY <1>6, <1>7, <1>8, <2>1
<1>10. ASSUME NEW k \in 1 .. L + 1
       PROVE  IF log'[k].reverted THEN g[k + 1] = g[k]
                                  ELSE Made(log'[k], g[k], g[k + 1])
  <2>1. CASE k = L + 1
    <3>1. k + 1 = L + 2
      BY <1>2, <2>1
    <3>. QED
      BY <1>2, <1>4, <1>5, <1>8, <2>1, <3>1
  <2>2. CASE k \in 1 .. L
    <3>1. k + 1 \in 1 .. L + 1 /\ log'[k] = log[k]
      BY <1>2, <2>2
    <3>2. g[k] = h[k] /\ g[k + 1] = h[k + 1]
      BY <1>8, <3>1
    <3>. QED
      BY <1>6, <2>2, <3>1, <3>2
  <2>. QED
    BY <1>2, <2>1, <2>2
<1>11. (L + 1) + 1 = L + 2
  BY <1>2
<1>12. Stacked(g, log', L + 1)
  BY <1>8, <1>9, <1>10, <1>11 DEF Stacked
<1>. QED
  BY <1>2, <1>8, <1>11, <1>12

LEMMA UndoReturns ==
  ASSUME TypeInv, NEW k \in DOMAIN log, Unmerge(k),
         NEW s \in Snapshot, Sound(s), Made(log[k], s, Now)
  PROVE  Now' = s
<1> DEFINE m == log[k]
           u == m.loser
           v == m.survivor
<1>1. /\ u \in Uri /\ v \in Uri /\ u # v
      /\ s.reg \in [Uri -> Uri \union {Live, Absent}] /\ s.names \in [Uri -> SUBSET Name]
      /\ s = [reg |-> s.reg, names |-> s.names]
  BY EntryShape DEF TypeInv, Snapshot
<1>2. /\ merged = [s.reg EXCEPT ![v] = Live, ![u] = v]
      /\ aliases = [s.names EXCEPT ![v] =
                      (IF m.kind = "minted" THEN s.names[u] ELSE @)
                         \union KnownBy(u, s.names)]
      /\ s.reg[u] = Live
      /\ m.kind = "minted" => s.reg[v] = Absent
      /\ m.kind = "revived" => s.reg[v] = m.back
      /\ m.kind # "minted" /\ m.kind # "revived" => s.reg[v] = Live
      /\ m.kind # "minted" => m.added = KnownBy(u, s.names) \ s.names[v]
  BY DEF Made, Now
<1>3. /\ merged' = PutBack(m, [merged EXCEPT ![u] = Live])
      /\ aliases' = [aliases EXCEPT ![v] = IF m.kind = "minted" THEN {} ELSE @ \ m.added]
  BY DEF Unmerge
<1>4. /\ merged' \in [Uri -> Uri \union {Live, Absent}] /\ merged'[u] = Live
      /\ merged'[v] = CASE m.kind = "minted"  -> Absent
                        [] m.kind = "revived" -> m.back
                        [] OTHER              -> merged[v]
      /\ \A w \in Uri \ {u, v} : merged'[w] = merged[w]
  BY RegistryReturns DEF RegistryType
<1>5. m.kind = "minted" => s.names[v] = {}
  BY <1>1, <1>2 DEF Sound
<1> HIDE DEF m, u, v
<1>6. merged' = s.reg
  <2>1. \A w \in Uri : merged'[w] = s.reg[w]
    BY <1>1, <1>2, <1>4
  <2>. QED
    BY <1>1, <1>4, <2>1
<1>7. aliases' = s.names
  <2>1. aliases'[v] = s.names[v]
    BY <1>1, <1>2, <1>3, <1>5
  <2>2. \A w \in Uri \ {v} : aliases'[w] = s.names[w]
    BY <1>1, <1>2, <1>3
  <2>3. aliases' \in [Uri -> SUBSET Name]
    BY UnmergeTypes DEF TypeInv
  <2>. QED
    BY <1>1, <2>1, <2>2, <2>3
<1>. QED
  BY <1>1, <1>6, <1>7 DEF Now

LEMMA UnmergeStacks ==
  ASSUME TypeInv, NamesStack, NEW k \in DOMAIN log, Unmerge(k)
  PROVE  NamesStack'
<1> SUFFICES ASSUME inOrder'
             PROVE  \E g : Stacked(g, log', Len(log')) /\ g[Len(log') + 1] = Now'
  BY DEF NamesStack
<1> DEFINE L == Len(log)
<1>1. /\ inOrder /\ \A n \in DOMAIN log : n > k => log[n].reverted
      /\ ~log[k].reverted /\ log' = [log EXCEPT ![k].reverted = TRUE]
  BY DEF Unmerge
<1>2. L \in Nat /\ DOMAIN log = 1 .. L /\ Len(log') = L /\ k \in 1 .. L
  BY <1>1 DEF TypeInv, LogType
<1>3. /\ log'[k].reverted /\ \A n \in 1 .. L : n # k => log'[n] = log[n]
  BY <1>1, <1>2, EntryShape DEF TypeInv, Entry
<1>4. PICK h : Stacked(h, log, L) /\ h[L + 1] = Now
  BY <1>1 DEF NamesStack
<1> HIDE DEF L
<1>5. /\ h \in [1 .. L + 1 -> Snapshot] /\ \A n \in 1 .. L + 1 : Sound(h[n])
      /\ \A n \in 1 .. L : IF log[n].reverted THEN h[n + 1] = h[n]
                                              ELSE Made(log[n], h[n], h[n + 1])
  BY <1>4 DEF Stacked
<1>6. h[k + 1] = Now
  <2> DEFINE T == {n \in 1 .. L + 1 : n > k /\ h[n] # Now}
  <2>1. SUFFICES ASSUME T # {} PROVE FALSE
    BY <1>2
  <2>2. PICK n \in T : \A j \in T : j <= n
    <3>1. L + 1 \in Nat /\ T \in SUBSET (1 .. L + 1)
      BY <1>2
    <3> HIDE DEF T
    <3>. QED
      BY <2>1, <3>1, GreatestNumber
  <2>3. n # L + 1
    BY <1>4
  <2>4. n \in 1 .. L /\ n + 1 \in 1 .. L + 1 /\ n > k /\ n + 1 > k /\ n + 1 > n
    BY <1>2, <2>3
  <2>5. h[n + 1] = h[n]
    BY <1>1, <1>2, <1>5, <2>4
  <2>6. n + 1 \notin T
    BY <2>2, <2>4
  <2>. QED
    BY <2>4, <2>5, <2>6
<1>7. h[k] \in Snapshot /\ Sound(h[k]) /\ Made(log[k], h[k], Now)
  BY <1>1, <1>2, <1>5, <1>6
<1>8. Now' = h[k]
  BY <1>7, UndoReturns
<1> DEFINE g == [n \in 1 .. L + 1 |-> IF n <= k THEN h[n] ELSE h[k]]
<1>9. /\ g \in [1 .. L + 1 -> Snapshot] /\ g[L + 1] = Now'
      /\ \A n \in 1 .. L + 1 : g[n] = IF n <= k THEN h[n] ELSE h[k]
  BY <1>2, <1>5, <1>7, <1>8
<1> HIDE DEF g
<1>10. \A n \in 1 .. L + 1 : Sound(g[n])
  BY <1>5, <1>7, <1>9
<1>11. ASSUME NEW n \in 1 .. L
       PROVE  IF log'[n].reverted THEN g[n + 1] = g[n]
                                  ELSE Made(log'[n], g[n], g[n + 1])
  <2>0. n \in 1 .. L + 1 /\ n + 1 \in 1 .. L + 1
    BY <1>2
  <2>1. CASE n < k
    <3>1. n <= k /\ n + 1 <= k /\ log'[n] = log[n]
      BY <1>2, <1>3, <2>1
    <3>2. g[n] = h[n] /\ g[n + 1] = h[n + 1]
      BY <1>9, <2>0, <3>1
    <3>. QED
      BY <1>5, <3>1, <3>2
  <2>2. CASE n >= k
    <3>1. log'[n].reverted
      BY <1>1, <1>2, <1>3, <2>2
    <3>2. g[n] = h[k] /\ g[n + 1] = h[k]
      BY <1>2, <1>9, <2>0, <2>2
    <3>. QED
      BY <3>1, <3>2
  <2>. QED
    BY <1>2, <2>1, <2>2
<1>12. Stacked(g, log', L)
  BY <1>9, <1>10, <1>11 DEF Stacked
<1>. QED
  BY <1>2, <1>9, <1>12

LEMMA NamesStackStep ==
  ASSUME OneAtATime, TypeInv, TypeInv', ChainInv, NamesStack, [Next]_vars
  PROVE  NamesStack'
<1>1. ASSUME UNCHANGED <<merged, aliases, log, inOrder>>
      PROVE  NamesStack'
  BY <1>1 DEF NamesStack, Now
<1>2. ASSUME NEW c \in Slot, Merge(c) \/ Retype(c)
      PROVE  NamesStack'
  BY <1>2, MergeIsClean, MergeStacks DEF ChainInv
<1>3. ASSUME NEW k \in DOMAIN log, Unmerge(k)
      PROVE  NamesStack'
  BY <1>3, UnmergeStacks
<1>. QED
  BY <1>1, <1>2, <1>3
     DEF Next, vars, Mention, ApplyDoclink, AddFact, ApplyFact, Fact, CheckMerge,
         CheckRetype, Begin, Fail

LEMMA NamesAreInherited ==
  ASSUME TypeInv, NoLongChain, Sound(Now), NEW u \in Uri, Tombstone(u)
  PROVE  NameOf[u] \in aliases[LiveOf(u)]
<1> DEFINE M == MaxMergeChain
<1>0. M \in Nat
  BY EntityAssumption
<1>1. /\ RegistryType /\ Grounded(merged) /\ Kept(merged)
      /\ \A w \in Uri : merged[w] \in Uri =>
           NameOf[w] \in aliases[merged[w]] /\ aliases[w] \subseteq aliases[merged[w]]
  BY DEF TypeInv, Sound, Now, KnownBy
<1>2. merged[u] # Absent /\ merged[u] # Live /\ merged[u] \in Uri
  BY MarksDiffer DEF Tombstone
<1>3. PICK f : /\ Walk(f, u)
               /\ LiveOf(u) = IF merged[f[M]] = Live THEN f[M] ELSE u
  BY <1>1, LiveOfWalks
<1>4. LiveOf(u) = f[M] /\ LiveOf(u) # u
  BY <1>1, <1>2, <1>3, LeadsToLive
<1>5. /\ f \in [0 .. M -> Uri] /\ f[0] = u
      /\ \A n \in 0 .. M - 1 :
           f[n + 1] = IF merged[f[n]] \in Uri THEN merged[f[n]] ELSE f[n]
  BY <1>3 DEF Walk, Tombstone
<1> DEFINE T == {n \in 1 .. M : NameOf[u] \notin aliases[f[n]]}
<1>6. T = {}
  <2>1. SUFFICES ASSUME T # {} PROVE FALSE
    OBVIOUS
  <2>2. PICK n \in T : \A k \in T : n <= k
    <3>1. T \in SUBSET Nat
      BY <1>0
    <3> HIDE DEF T
    <3>. QED
      BY <2>1, <3>1, LeastNumber
  <2>3. n - 1 \in 0 .. M - 1 /\ (n - 1) + 1 = n /\ n - 1 \notin T /\ f[n - 1] \in Uri
    BY <1>0, <1>5, <2>2
  <2>4. f[n] = IF merged[f[n - 1]] \in Uri THEN merged[f[n - 1]] ELSE f[n - 1]
    BY <1>5, <2>3
  <2>5. CASE n = 1
    BY <1>1, <1>2, <1>5, <2>4, <2>5
  <2>6. CASE n # 1
    <3>1. NameOf[u] \in aliases[f[n - 1]]
      BY <1>0, <2>2, <2>3, <2>6
    <3>. QED
      BY <1>1, <2>3, <2>4, <3>1
  <2>. QED
    BY <2>5, <2>6
<1>7. M # 0
  BY <1>4, <1>5
<1>. QED
  BY <1>0, <1>4, <1>6, <1>7

\* As long as merges are undone last first, what was merged away is found by its
\* name at the entity it leads to: the aliases an undoing takes away are those
\* its merge had added, and each registry it returns to was sound.
THEOREM MergedNamesAreFound ==
  ASSUME OneAtATime
  PROVE  Spec /\ []NoLongChain => []Findable
<1>1. Init => NamesStack
  <2>1. SUFFICES ASSUME Init
                 PROVE  \E h : Stacked(h, log, Len(log)) /\ h[Len(log) + 1] = Now
    BY DEF NamesStack
  <2> DEFINE h == [k \in 1 .. 1 |-> Now]
  <2>2. log = <<>> /\ Len(log) = 0
    BY <2>1 DEF Init
  <2>3. Now \in Snapshot
    BY <2>1 DEF Init, Now, Snapshot
  <2>4. Sound(Now)
    BY <2>1, MarksDiffer DEF Init, Now, Sound, Grounded, Kept
  <2>5. h \in [1 .. 1 -> Snapshot] /\ h[1] = Now /\ \A k \in 1 .. 1 : Sound(h[k])
    BY <2>3, <2>4
  <2> HIDE DEF h
  <2>6. Stacked(h, log, 0) /\ h[0 + 1] = Now
    BY <2>5 DEF Stacked
  <2>. QED
    BY <2>2, <2>6
<1>2. TypeInv /\ TypeInv' /\ ChainInv /\ NamesStack /\ [Next]_vars => NamesStack'
  BY NamesStackStep
<1>3. TypeInv /\ NamesStack /\ NoLongChain => Findable
  <2>1. SUFFICES ASSUME TypeInv, NamesStack, NoLongChain, inOrder PROVE Sound(Now)
    BY NamesAreInherited DEF Findable
  <2>2. PICK h : Stacked(h, log, Len(log)) /\ h[Len(log) + 1] = Now
    BY <2>1 DEF NamesStack
  <2>3. Len(log) + 1 \in 1 .. Len(log) + 1
    BY <2>1 DEF TypeInv, LogType
  <2>. QED
    BY <2>2, <2>3 DEF Stacked
<1>. QED
  BY <1>1, <1>2, <1>3, TypeIsInvariant, ChainIsInvariant, PTL DEF Spec

=============================================================================
