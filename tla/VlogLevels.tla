------------------------------ MODULE VlogLevels ------------------------------
(***************************************************************************)
(* Levels of verbose logging: glog/src/vlog_is_on.cc and the macro         *)
(* VLOG_IS_ON of glog/src/windows/glog/vlog_is_on.h.                    *)
(*                                                                         *)
(* A list of patterns with levels, from the flag --vmodule and from        *)
(* SetVLOGLevel, decides what a site (a VLOG of a source file) shows.  A   *)
(* site keeps a pointer to the level that was found for it.  Every         *)
(* operation holds vmodule_lock; the list and the pointers are all that    *)
(* outlives it.                                                            *)
(*                                                                         *)
(* Patterns and names of files (without directory and suffix) are          *)
(* sequences of characters; an entry of the flag that has no number is     *)
(* Malformed.                                                              *)
(***************************************************************************)
EXTENDS Integers, Sequences

CONSTANTS
  Flags,       \* values of --vmodule: sequences of [pattern, level]
  Patterns, Files,
  Levels, Malformed,
  Sites,       \* sites; SiteFile[site] is its file
  SiteFile,
  MaxOps

VlogAssumption ==
  /\ Levels \subseteq Int /\ SiteFile \in [Sites -> Files] /\ MaxOps \in Nat
  /\ \A flag \in Flags : \A i \in DOMAIN flag : flag[i].pattern \in Patterns

Star == "*"
Any == "?"

VARIABLES
  flags,    \* FLAGS_vmodule and FLAGS_v
  list,     \* vmodule_list from its head; an entry is an index of entries
  entries,  \* every VModuleInfo that was made; none is ever deleted
  inited,   \* inited_vmodule
  sites,    \* the pointer of each site: an entry, 0 for FLAGS_v, or none yet
  answer,   \* what the last operation returned
  vops

vlogVars == <<flags, list, entries, inited, sites, answer, vops>>

NotYet == -1

-----------------------------------------------------------------------------
(* SafeFNMatch_ *)

\* Faulty variant: a star stands for at least one character.
AfterStarProper(s) == 1 .. Len(s)
AfterStar(s) == 0 .. Len(s) - 1

RECURSIVE SafeFNMatch(_, _)
SafeFNMatch(p, s) ==
  IF p = <<>> THEN s = <<>>
  ELSE IF s = <<>> THEN p = <<Star>>
  ELSE IF Head(p) = Head(s) \/ Head(p) = Any THEN SafeFNMatch(Tail(p), Tail(s))
  ELSE /\ Head(p) = Star
       /\ \/ Tail(p) = <<>>
          \/ \E n \in AfterStar(s) : SafeFNMatch(Tail(p), SubSeq(s, n + 1, Len(s)))

\* The first entry of a list that matches a file; 0 if there is none.
Found(l, es, file) ==
  LET good == {i \in DOMAIN l : SafeFNMatch(es[l[i]].pattern, file)}
  IN IF good = {} THEN 0 ELSE l[CHOOSE i \in good : \A j \in good : i <= j]

-----------------------------------------------------------------------------
Init ==
  /\ flags \in [vmodule : Flags, v : Levels]
  /\ list = <<>> /\ entries = <<>> /\ inited = FALSE
  /\ sites = [site \in Sites |-> NotYet]
  /\ answer = 0 /\ vops = 0

Operation == vops < MaxOps /\ vops' = vops + 1

\* VLOG2Initializer: the entries of the flag that have a number are put in front.
Read == SelectSeq(flags.vmodule, LAMBDA e : e.level # Malformed)
ReadList == [i \in 1 .. Len(Read) |-> Len(entries) + i] \o list

LevelOf(es, entry) == IF entry = 0 THEN flags.v ELSE es[entry].level

\* SetVLOGLevel.  Every entry with this very pattern gets the level; a new one is
\* made only if none matches.  Faulty variant: there is always a new one.
IsFoundNever(pattern) == FALSE
IsFound(pattern) == Found(list, entries, pattern) # 0

SetVLOGLevel(pattern, level) ==
  /\ Operation
  /\ IF IsFound(pattern)
     THEN /\ entries' = [e \in DOMAIN entries |->
                           IF entries[e].pattern = pattern
                           THEN [entries[e] EXCEPT !.level = level] ELSE entries[e]]
          /\ UNCHANGED list
     ELSE /\ entries' = Append(entries, [pattern |-> pattern, level |-> level])
          /\ list' = <<Len(entries) + 1>> \o list
  /\ answer' = LevelOf(entries, Found(list, entries, pattern))
  /\ UNCHANGED <<flags, inited, sites>>

\* VLOG_IS_ON at a site that has a pointer.
Cached(site, verbose_level) ==
  /\ sites[site] # NotYet
  /\ answer' = (LevelOf(entries, sites[site]) >= verbose_level)
  /\ UNCHANGED <<flags, list, entries, inited, sites>>

\* InitVLOG3__ at one that has none; the first of all reads the flag and does not
\* set a pointer.
InitVLOG3(site, verbose_level) ==
  LET es == IF inited THEN entries ELSE entries \o Read
      l == IF inited THEN list ELSE ReadList
      entry == Found(l, es, SiteFile[site])
  IN /\ sites[site] = NotYet
     /\ entries' = es /\ list' = l /\ inited' = TRUE
     /\ sites' = IF inited THEN [sites EXCEPT ![site] = entry] ELSE sites
     /\ answer' = (LevelOf(es, entry) >= verbose_level)
     /\ UNCHANGED flags

VlogIsOn(site, verbose_level) ==
  Operation /\ (Cached(site, verbose_level) \/ InitVLOG3(site, verbose_level))

\* The program assigns FLAGS_v.
SetV(v) ==
  /\ Operation
  /\ flags' = [flags EXCEPT !.v = v]
  /\ UNCHANGED <<list, entries, inited, sites, answer>>

Next ==
  \/ \E pattern \in Patterns, level \in Levels : SetVLOGLevel(pattern, level)
  \/ \E site \in Sites, level \in Levels : VlogIsOn(site, level)
  \/ \E v \in Levels : SetV(v)

-----------------------------------------------------------------------------
(* Properties *)

\* What a pattern means: * is any text, also none, and ? any character.
RECURSIVE Globs(_, _)
Globs(p, s) ==
  IF p = <<>> THEN s = <<>>
  ELSE IF Head(p) = Star
       THEN \E n \in 0 .. Len(s) : Globs(Tail(p), SubSeq(s, n + 1, Len(s)))
  ELSE s # <<>> /\ Head(p) \in {Any, Head(s)} /\ Globs(Tail(p), Tail(s))

\* SafeFNMatch_ follows it for names without stars and patterns in which no two
\* stars meet.
MatchExact ==
  \A p \in Patterns, s \in Files : SafeFNMatch(p, s) <=> Globs(p, s)

\* vlog_is_on.h: a site stays with its entry, and what SetVLOGLevel sets for its
\* pattern, or FLAGS_v if it has none, controls it; entries of one pattern that
\* SetVLOGLevel has reached do not differ, so it does not matter which was found.
Controlled ==
  \A site \in Sites :
    sites[site] # NotYet /\ sites[site] # 0 =>
      LET first == {i \in DOMAIN list : entries[list[i]].pattern = entries[sites[site]].pattern}
          i == CHOOSE i \in first : \A j \in first : i <= j
      IN /\ first # {}
         /\ entries[list[i]].level = entries[sites[site]].level
         /\ SafeFNMatch(entries[sites[site]].pattern, SiteFile[site])

VlogRight == MatchExact /\ Controlled
=============================================================================
