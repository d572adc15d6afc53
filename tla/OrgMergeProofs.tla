---------------------------- MODULE OrgMergeProofs ----------------------------
(***************************************************************************)
(* Proofs about OrgMerge: for any tables, users and concurrent writes, the *)
(* migration keeps every membership, leaves audited twins as they are,     *)
(* gives no path twice of its own, and merges every clean fork before the  *)
(* constraint is added.                                                    *)
(***************************************************************************)
EXTENDS OrgMerge, FiniteSetTheorems, WellFoundedInduction, TLAPS

-----------------------------------------------------------------------------
(* Operators.                                                               *)

\* What is left to show of the rows after a step.
LEMMA RowsFitNext ==
    ASSUME before' = before, DOMAIN view'.orgs \subseteq DOMAIN before.orgs,
           \A i \in DOMAIN before.orgs \ DOMAIN view'.orgs : before.orgs[i].gid = None /\ i \notin trail',
           \A i \in DOMAIN view'.orgs : Follows(i, view'.orgs[i]),
           \A pair \in Doubled(view'.orgs) :
                \/ pair \in Doubled(before.orgs)
                \/ \E i \in {pair[1], pair[2]} : <<i, view'.orgs[i].path>> \in filled'
    PROVE  RowsFit'
<1>1. \A i \in DOMAIN view'.orgs : Follows(i, view.orgs[i])'
  BY DEF Follows
<1>2. Doubled(view.orgs)' = Doubled(view'.orgs) /\ Doubled(before.orgs)' = Doubled(before.orgs)
  BY DEF Doubled
<1> QED
  BY <1>1, <1>2 DEF RowsFit

\* A finite set of numbers has a least one.
LEMMA MinIn ==
    ASSUME NEW T, T \subseteq Nat, IsFiniteSet(T), T # {}
    PROVE  Min(T) \in T
<1> DEFINE Below(x) == {y \in T : y < x}
           W == {Below(x) : x \in T}
           R == StrictSubsetOrdering(T)
           F == FiniteSubsetsOf(T)
<1>1. W \subseteq F
  <2>1. W \subseteq SUBSET T
    OBVIOUS
  <2> QED
    BY <2>1, FS_FiniteSubsetsOfFinite
<1>2. W # {}
  OBVIOUS
<1>3. IsWellFoundedOn(R, F)
  BY FS_StrictSubsetOrderingWellFounded
<1> HIDE DEF R, F, W
<1>4. PICK w \in W : \A v \in W : <<v, w>> \notin R
  BY <1>1, <1>2, <1>3, WFMin
<1>5. PICK x \in T : w = Below(x)
  BY <1>4 DEF W
<1>6. ASSUME NEW y \in T, y < x PROVE FALSE
  <2>0. (\A z \in T : z < y => z < x) /\ ~ (y < y)
    <3>1. x \in Nat /\ y \in Nat /\ \A z \in T : z \in Nat
      OBVIOUS
    <3> QED
      BY <1>6, <3>1
  <2>1. Below(y) \subseteq Below(x) /\ y \in Below(x) /\ y \notin Below(y)
    BY <1>6, <2>0, Zenon
  <2>2. <<Below(y), w>> \in R
    <3>1. w \in SUBSET T /\ Below(y) \in SUBSET T
      BY <1>5
    <3> QED
      BY <1>5, <2>1, <3>1 DEF R, StrictSubsetOrdering
  <2>3. Below(y) \in W
    BY DEF W
  <2> QED
    BY <1>4, <2>2, <2>3
<1>7. \A y \in T : x <= y
  BY <1>6
<1>8. \E z \in T : \A y \in T : z <= y
  BY <1>7
<1> QED
  BY <1>8, Zenon DEF Min

\* The twin at hand is one of the twins.
LEMMA TwinIn ==
    ASSUME TypeOK, mig.twins # {}
    PROVE  Twin \in mig.twins
<1>1. mig.twins \subseteq DOMAIN before.orgs
  BY DEF TypeOK, Migrations
<1>2. mig.twins \subseteq Nat /\ IsFiniteSet(mig.twins)
  BY <1>1, FS_Subset DEF TypeOK, Tables
<1> QED
  BY <1>2, MinIn DEF Twin

\* What the migration sees of the twins of a row, as long as it only deletes.
LEMMA TwinsInView ==
    ASSUME RowsFit, NEW c \in DOMAIN view.orgs
    PROVE  TwinsOf(view.orgs, c) = TwinsOf(before.orgs, c) \cap DOMAIN view.orgs
BY DEF RowsFit, Follows, TwinsOf

\* A row with a group id is nobody's twin, and is never deleted.
LEMMA IdsStay ==
    ASSUME RowsFit, NEW c \in DOMAIN before.orgs, before.orgs[c].gid # None
    PROVE  c \in DOMAIN view.orgs /\ \A d : c \notin TwinsOf(before.orgs, d)
BY DEF RowsFit, TwinsOf

\* The twins of a clean fork are nobody else's.
LEMMA TwinsApart ==
    ASSUME NEW c \in DOMAIN before.orgs, CleanFork(c),
           NEW d \in DOMAIN before.orgs \ {c}, before.orgs[d].gid # None,
           NEW t \in TwinsOf(before.orgs, d)
    PROVE  /\ t # c /\ t \notin TwinsOf(before.orgs, c)
           /\ \A i \in TwinsOf(before.orgs, c) : before.orgs[i].path # before.orgs[t].path
<1>1. d \notin TwinsOf(before.orgs, c)
  BY DEF TwinsOf
<1>2. before.orgs[d].name # before.orgs[c].name
  BY <1>1 DEF CleanFork, SameName
<1>3. t \in DOMAIN before.orgs /\ before.orgs[t].gid = None /\ before.orgs[t].name = before.orgs[d].name
  BY DEF TwinsOf
<1>4. t # c /\ t \notin TwinsOf(before.orgs, c)
  BY <1>2, <1>3 DEF TwinsOf, CleanFork
<1>5. \A i \in TwinsOf(before.orgs, c) : before.orgs[i].path # before.orgs[t].path
  BY <1>3, <1>4 DEF CleanFork
<1> QED
  BY <1>4, <1>5

\* The memberships as they are made keep every membership.
LEMMA BaseKept ==
    ASSUME TypeOK, NEW rows, DOMAIN rows = DOMAIN before.orgs
    PROVE  Kept(rows, [m \in joined |-> m[1]])
<1> DEFINE held == [m \in joined |-> m[1]]
<1>1. \A m \in joined : m[1] \in DOMAIN before.orgs /\ m = <<m[1], m[2]>>
  BY DEF TypeOK
<1>2. DOMAIN held = joined /\ \A m \in joined : held[m] = m[1]
  OBVIOUS
<1> HIDE DEF held
<1>3. \A m \in joined : \E k \in DOMAIN held : k[2] = m[2] /\ SameName(k[1], m[1]) /\ held[k] = m[1]
  BY <1>2 DEF SameName
<1>4. \A k \in DOMAIN held : <<held[k], k[2]>> \in joined /\ SameName(held[k], k[1])
  BY <1>1, <1>2 DEF SameName
<1> QED
  BY <1>1, <1>2, <1>3, <1>4 DEF Kept

\* A membership that is moved, or dropped for one that is there, is kept.
LEMMA MoveKeeps ==
    ASSUME NEW rows, NEW held, Kept(rows, held), NEW m \in DOMAIN held, NEW c \in DOMAIN rows,
           c # m[1], SameName(c, m[1]), NEW new,
           LET moved == <<c, m[2]>>  rest == Without(held, {m})
           IN  new = IF moved \in DOMAIN rest THEN rest ELSE With(rest, moved, held[m])
    PROVE  Kept(rows, new)
<1> DEFINE moved == <<c, m[2]>>
<1>1. moved # m /\ moved[1] = c /\ moved[2] = m[2]
  OBVIOUS
<1>2. /\ \A k \in DOMAIN held : k[1] \in DOMAIN rows
      /\ \A k \in DOMAIN held : <<held[k], k[2]>> \in joined /\ SameName(held[k], k[1])
  BY DEF Kept
<1>3. /\ DOMAIN new = (DOMAIN held \ {m}) \cup {moved}
      /\ \A k \in DOMAIN held \ {m} : new[k] = held[k]
      /\ moved \in DOMAIN held \/ new[moved] = held[m]
  <2>1. CASE moved \in DOMAIN held
    <3>1. new = Without(held, {m})
      BY <1>1, <2>1 DEF Without
    <3> QED
      BY <1>1, <2>1, <3>1 DEF Without
  <2>2. CASE moved \notin DOMAIN held
    <3>1. new = With(Without(held, {m}), moved, held[m])
      BY <1>1, <2>2 DEF Without
    <3> QED
      BY <1>1, <2>2, <3>1 DEF Without, With
  <2> QED
    BY <2>1, <2>2
<1> HIDE DEF moved
<1>4. \A k \in DOMAIN new : <<new[k], k[2]>> \in joined /\ SameName(new[k], k[1])
  <2>1. moved \notin DOMAIN held =>
            <<new[moved], moved[2]>> \in joined /\ SameName(new[moved], moved[1])
    BY <1>1, <1>2, <1>3 DEF SameName
  <2>2. ASSUME NEW k \in DOMAIN new
        PROVE  <<new[k], k[2]>> \in joined /\ SameName(new[k], k[1])
    <3>1. CASE k \in DOMAIN held \ {m}
      BY <1>2, <1>3, <3>1
    <3>2. CASE k = moved /\ k \notin DOMAIN held
      BY <2>1, <3>2
    <3> QED
      BY <1>1, <1>3, <2>2, <3>1, <3>2
  <2> QED
    BY <2>2
<1>5. ASSUME NEW x \in joined
      PROVE  \E k \in DOMAIN new :
                /\ k[2] = x[2] /\ SameName(k[1], x[1])
                /\ new[k] = x[1] \/ \E y \in joined \ {x} : y[2] = x[2] /\ SameName(y[1], x[1])
  <2>1. PICK k \in DOMAIN held :
            /\ k[2] = x[2] /\ SameName(k[1], x[1])
            /\ held[k] = x[1] \/ \E y \in joined \ {x} : y[2] = x[2] /\ SameName(y[1], x[1])
    BY DEF Kept
  <2>2. CASE k # m
    <3>1. k \in DOMAIN new /\ new[k] = held[k]
      BY <1>3, <2>2
    <3> QED
      BY <2>1, <3>1
  <2>3. CASE k = m
    <3>1. moved \in DOMAIN new /\ moved[2] = x[2] /\ SameName(moved[1], x[1])
      BY <1>1, <1>3, <2>1, <2>3 DEF SameName
    <3>2. CASE moved \notin DOMAIN held
      <4>1. new[moved] = held[k]
        BY <1>3, <2>3, <3>2
      <4> QED
        BY <2>1, <3>1, <4>1
    <3>3. CASE moved \in DOMAIN held
      <4> DEFINE y == <<new[moved], moved[2]>>
      <4>1. y \in joined /\ y[2] = x[2] /\ y[1] = new[moved] /\ SameName(y[1], moved[1])
        BY <1>4, <3>1
      <4>2. SameName(y[1], x[1])
        BY <3>1, <4>1 DEF SameName
      <4> HIDE DEF y
      <4>3. CASE y = x
        BY <3>1, <4>1, <4>3
      <4>4. CASE y # x
        <5>1. \E z \in joined \ {x} : z[2] = x[2] /\ SameName(z[1], x[1])
          BY <4>1, <4>2, <4>4
        <5> QED
          BY <3>1, <5>1
      <4> QED
        BY <4>3, <4>4
    <3> QED
      BY <3>2, <3>3
  <2> QED
    BY <2>2, <2>3
<1>6. \A k \in DOMAIN new : k[1] \in DOMAIN rows
  BY <1>1, <1>2, <1>3
<1> QED
  BY <1>4, <1>5, <1>6 DEF Kept

\* So is one that is added.
LEMMA JoinKeeps ==
    ASSUME NEW rows, NEW held, Kept(rows, held), NEW i \in DOMAIN rows, NEW u, <<i, u>> \notin DOMAIN held,
           joined' = joined \cup {<<i, u>>}, before' = before
    PROVE  Kept(rows, With(held, <<i, u>>, i))'
<1> DEFINE m == <<i, u>>
           new == With(held, m, i)
<1>1. /\ DOMAIN new = DOMAIN held \cup {m} /\ new[m] = i /\ m[1] = i /\ m[2] = u /\ m = <<i, u>>
      /\ \A k \in DOMAIN held : new[k] = held[k]
  BY DEF With
<1> HIDE DEF new, m
<1>2. \A k \in DOMAIN new : k[1] \in DOMAIN rows
  BY <1>1 DEF Kept
<1>3. \A k \in DOMAIN new : <<new[k], k[2]>> \in joined' /\ SameName(new[k], k[1])'
  <2>1. <<new[m], m[2]>> \in joined' /\ SameName(new[m], m[1])'
    BY <1>1 DEF SameName
  <2>2. ASSUME NEW k \in DOMAIN held PROVE <<new[k], k[2]>> \in joined' /\ SameName(new[k], k[1])'
    BY <1>1 DEF Kept, SameName
  <2> QED
    BY <1>1, <2>1, <2>2
<1>4. ASSUME NEW x \in joined'
      PROVE  \E k \in DOMAIN new :
                /\ k[2] = x[2] /\ SameName(k[1], x[1])'
                /\ new[k] = x[1] \/ \E y \in joined' \ {x} : y[2] = x[2] /\ SameName(y[1], x[1])'
  <2>1. CASE x = m
    BY <1>1, <2>1 DEF SameName
  <2>2. CASE x \in joined
    <3>1. PICK k \in DOMAIN held :
            /\ k[2] = x[2] /\ SameName(k[1], x[1])
            /\ held[k] = x[1] \/ \E y \in joined \ {x} : y[2] = x[2] /\ SameName(y[1], x[1])
      BY <2>2 DEF Kept
    <3>2. k \in DOMAIN new /\ new[k] = held[k]
      BY <1>1
    <3>3. SameName(k[1], x[1])' /\ \A y : SameName(y, x[1])' <=> SameName(y, x[1])
      BY <3>1 DEF SameName
    <3> QED
      BY <3>1, <3>2, <3>3
  <2> QED
    BY <1>1, <1>4, <2>1, <2>2
<1> QED
  BY <1>1, <1>2, <1>3, <1>4 DEF Kept, new, m

-----------------------------------------------------------------------------
(* Steps that change no row.                                                *)

\* Where the migration goes changes, and what it sees does not.
LEMMA SameRows ==
    ASSUME IInv, UNCHANGED <<orgs, members, trail, before, joined, filled, view>>, mig' \in Migrations,
           mig.pc # "done", mig'.pc \notin {"idle", "done"}
    PROVE  /\ TypeOK' /\ OneTransaction' /\ RowsFit' /\ Kept(view.orgs, view.members)'
           /\ LoopFits' /\ TwinsStay' /\ (\A c \in DOMAIN before.orgs : CleanFork(c) => Heals(c)') => IInv'
<1>1. TypeOK /\ OneTransaction /\ RowsFit /\ Kept(view.orgs, view.members)
  BY DEF IInv
<1>2. TypeOK'
  BY <1>1 DEF TypeOK, Migrations, Tables
<1>3. OneTransaction'
  BY <1>1 DEF OneTransaction, Follows
<1>4. RowsFit'
  BY <1>1 DEF RowsFit, Follows, Doubled
<1>5. Kept(view.orgs, view.members)'
  <2>1. PICK z : z = view
    OBVIOUS
  <2>2. Kept(z.orgs, z.members)
    BY <1>1, <2>1
  <2>3. Kept(z.orgs, z.members)'
    BY <2>2 DEF Kept, SameName
  <2> QED
    BY <2>1, <2>3
<1>6. \A c \in DOMAIN before.orgs : CleanFork(c)' <=> CleanFork(c)
  BY DEF CleanFork, SameName
<1> QED
  BY <1>2, <1>3, <1>4, <1>5, <1>6 DEF IInv

LEMMA BeginStep ==
    ASSUME IInv, Begin
    PROVE  IInv'
<1> DEFINE cs == {i \in DOMAIN orgs : orgs[i].gid # None /\ orgs[i].path = None}
<1>1. /\ mig.pc = "idle" /\ mig' = [Idle EXCEPT !.pc = "canon", !.canons = cs]
      /\ UNCHANGED <<orgs, members, trail, before, joined, filled, view>>
  BY DEF Begin, Go
<1>2. TypeOK /\ OneTransaction /\ RowsFit /\ LoopFits /\ TwinsStay
      /\ \A c \in DOMAIN before.orgs : CleanFork(c) => Heals(c)
  BY DEF IInv
<1>3. /\ DOMAIN orgs = DOMAIN before.orgs /\ view.orgs = orgs
      /\ \A i \in DOMAIN orgs :
            /\ orgs[i].gid = before.orgs[i].gid
            /\ orgs[i].path = before.orgs[i].path \/ <<i, orgs[i].path>> \in filled
  BY <1>1, <1>2 DEF OneTransaction, Follows
<1>4. cs \subseteq DOMAIN before.orgs /\ \A i \in cs : before.orgs[i].gid # None
  BY <1>3
<1>10. ASSUME NEW c \in DOMAIN before.orgs, CleanFork(c) PROVE c \in cs
  <2>1. before.orgs[c].gid # None /\ before.orgs[c].path = None /\ \A f \in filled : f[1] # c
    BY <1>10 DEF CleanFork
  <2>2. <<c, orgs[c].path>>[1] = c
    OBVIOUS
  <2>3. orgs[c].path = None
    BY <1>3, <2>1, <2>2
  <2> QED
    BY <1>3, <2>1, <2>3
<1> HIDE DEF cs
<1>5. /\ mig'.pc = "canon" /\ mig'.canons = cs /\ mig'.twins = {} /\ mig'.todo = {}
      /\ mig' \in Migrations
  BY <1>1, <1>4 DEF Idle, Migrations
<1>6. ~ InLoop' /\ ~ OnTwin' /\ ~ OnTwin
  BY <1>1, <1>5 DEF InLoop, OnTwin
<1>7. LoopFits'
  BY <1>1, <1>3, <1>4, <1>5, <1>6 DEF LoopFits, Pending
<1>8. TwinsStay'
  BY <1>1, <1>2, <1>6 DEF TwinsStay
<1>9. ASSUME NEW c \in DOMAIN before.orgs, CleanFork(c) PROVE Heals(c)'
  <2>1. c \in cs
    BY <1>9, <1>10
  <2>2. Heals(c)
    BY <1>2, <1>9
  <2> QED
    BY <1>1, <1>5, <1>6, <2>1, <2>2 DEF Heals, Healed, Pending
<1> QED
  BY <1>1, <1>2, <1>5, <1>7, <1>8, <1>9, SameRows

LEMMA NextCanonStep ==
    ASSUME IInv, NextCanon
    PROVE  IInv'
<1>1. mig.pc = "canon" /\ UNCHANGED <<orgs, members, trail, before, joined, filled, view>>
  BY DEF NextCanon, Go
<1>2. TypeOK /\ RowsFit /\ LoopFits /\ TwinsStay /\ mig \in Migrations
      /\ \A c \in DOMAIN before.orgs : CleanFork(c) => Heals(c)
  BY DEF IInv, TypeOK
<1>3. ~ InLoop /\ ~ OnTwin
  BY <1>1 DEF InLoop, OnTwin
<1>4. ASSUME NEW d \in mig.canons,
             mig' = [Idle EXCEPT !.pc = "twin", !.canons = mig.canons \ {d}, !.canon = d,
                                 !.twins = TwinsOf(view.orgs, d)]
      PROVE  IInv'
  <2> DEFINE ts == TwinsOf(view.orgs, d)
  <2>1. d \in DOMAIN before.orgs /\ before.orgs[d].gid # None /\ d \in Nat
    BY <1>2 DEF LoopFits, Pending, Migrations, TypeOK, Tables
  <2>2. d \in DOMAIN view.orgs /\ ts = TwinsOf(before.orgs, d) \cap DOMAIN view.orgs
    BY <1>2, <2>1, IdsStay, TwinsInView
  <2>3. ts \subseteq DOMAIN before.orgs
    BY <1>2, <2>2 DEF RowsFit
  <2> HIDE DEF ts
  <2>4. /\ mig'.pc = "twin" /\ mig'.canons = mig.canons \ {d} /\ mig'.canon = d /\ mig'.twins = ts
        /\ mig'.todo = {} /\ mig'.adopted = None
    BY <1>4 DEF Idle, ts
  <2>5. mig' \in Migrations
    <3>1. mig.canons \subseteq DOMAIN before.orgs
      BY <1>2 DEF Migrations
    <3> QED
      BY <1>4, <2>1, <2>3, <3>1 DEF Idle, Migrations, ts
  <2>6. InLoop' /\ ~ OnTwin'
    BY <2>4 DEF InLoop, OnTwin
  <2>7. \A c : Pending(c)' <=> c \in mig.canons
    BY <2>4, <2>6 DEF Pending
  <2>8. LoopFits'
    <3>1. \A c \in DOMAIN before.orgs : c \in mig.canons => before.orgs[c].gid # None
      BY <1>2 DEF LoopFits, Pending
    <3> QED
      BY <1>1, <2>1, <2>2, <2>4, <2>6, <2>7, <3>1 DEF LoopFits
  <2>9. TwinsStay'
    BY <1>1, <1>2, <1>3, <2>6 DEF TwinsStay
  <2>10. ASSUME NEW c \in DOMAIN before.orgs, CleanFork(c) PROVE Heals(c)'
    <3>1. Heals(c)
      BY <1>2, <2>10
    <3>2. None \notin {before.orgs[i].path : i \in TwinsOf(before.orgs, c)}
      BY DEF TwinsOf
    <3>3. c = d => TwinsOf(before.orgs, c) \subseteq DOMAIN view.orgs
      BY <3>1 DEF Heals, Healed
    <3> QED
      BY <1>1, <1>3, <2>2, <2>4, <2>6, <2>7, <3>1, <3>2, <3>3 DEF Heals, Healed, Pending
  <2> QED
    BY <1>1, <2>4, <2>5, <2>8, <2>9, <2>10, SameRows
<1>5. ASSUME mig.canons = {}, mig' = [mig EXCEPT !.pc = "constrain"] PROVE IInv'
  <2>1. mig'.pc = "constrain" /\ mig'.canons = {} /\ mig' \in Migrations
    BY <1>2, <1>5 DEF Migrations
  <2>2. ~ InLoop' /\ ~ OnTwin' /\ \A c : ~ Pending(c)' /\ ~ Pending(c)
    BY <1>3, <1>5, <2>1 DEF InLoop, OnTwin, Pending
  <2>3. LoopFits'
    BY <2>1, <2>2 DEF LoopFits
  <2>4. TwinsStay'
    BY <1>1, <1>2, <1>3, <2>2 DEF TwinsStay
  <2>5. ASSUME NEW c \in DOMAIN before.orgs, CleanFork(c) PROVE Heals(c)'
    <3>1. Heals(c)
      BY <1>2, <2>5
    <3> QED
      BY <1>1, <1>3, <1>5, <2>1, <2>2, <3>1 DEF Heals, Healed
  <2> QED
    BY <1>1, <2>1, <2>3, <2>4, <2>5, SameRows
<1> QED
  BY <1>4, <1>5 DEF NextCanon, Go

LEMMA NextTwinStep ==
    ASSUME IInv, NextTwin
    PROVE  IInv'
<1>1. mig.pc = "twin" /\ UNCHANGED <<orgs, members, trail, before, joined, filled, view>>
  BY DEF NextTwin, Go
<1>2. TypeOK /\ RowsFit /\ LoopFits /\ TwinsStay /\ mig \in Migrations
      /\ \A c \in DOMAIN before.orgs : CleanFork(c) => Heals(c)
  BY DEF IInv, TypeOK
<1>3. InLoop /\ ~ OnTwin
  BY <1>1 DEF InLoop, OnTwin
<1>4. ASSUME mig.twins = {}, mig' = [mig EXCEPT !.pc = "adopt"] PROVE IInv'
  <2>1. /\ mig'.pc = "adopt" /\ mig'.canons = mig.canons /\ mig'.canon = mig.canon
        /\ mig'.twins = mig.twins /\ mig'.adopted = mig.adopted /\ mig' \in Migrations
    BY <1>2, <1>4 DEF Migrations
  <2>2. InLoop' /\ ~ OnTwin' /\ \A c : Pending(c)' <=> Pending(c)
    BY <1>3, <2>1 DEF InLoop, OnTwin, Pending
  <2>3. LoopFits'
    BY <1>1, <1>2, <1>3, <1>4, <2>1, <2>2 DEF LoopFits
  <2>4. TwinsStay'
    BY <1>1, <1>2, <1>3, <2>2 DEF TwinsStay
  <2>5. ASSUME NEW c \in DOMAIN before.orgs, CleanFork(c) PROVE Heals(c)'
    <3>1. Heals(c)
      BY <1>2, <2>5
    <3> QED
      BY <1>1, <1>3, <2>1, <2>2, <3>1 DEF Heals, Healed
  <2> QED
    BY <1>1, <2>1, <2>3, <2>4, <2>5, SameRows
<1>5. ASSUME mig.twins # {}, Twin \in trail, mig' = [mig EXCEPT !.twins = @ \ {Twin}] PROVE IInv'
  <2> DEFINE t == Twin
  <2>0. t \in mig.twins /\ t \in trail
    BY <1>2, <1>5, TwinIn
  <2> HIDE DEF t
  <2>1. /\ mig'.pc = "twin" /\ mig'.canons = mig.canons /\ mig'.canon = mig.canon
        /\ mig'.twins = mig.twins \ {t} /\ mig'.adopted = mig.adopted /\ mig' \in Migrations
    BY <1>1, <1>2, <1>5 DEF Migrations, t
  <2>2. InLoop' /\ ~ OnTwin' /\ \A c : Pending(c)' <=> Pending(c)
    BY <1>3, <2>1 DEF InLoop, OnTwin, Pending
  <2>3. LoopFits'
    BY <1>1, <1>2, <1>3, <2>1, <2>2 DEF LoopFits
  <2>4. TwinsStay'
    BY <1>1, <1>2, <1>3, <2>2 DEF TwinsStay
  <2>5. ASSUME NEW c \in DOMAIN before.orgs, CleanFork(c) PROVE Heals(c)'
    <3>1. Heals(c)
      BY <1>2, <2>5
    <3>2. c # mig.canon
      <4>1. c = mig.canon => t \in TwinsOf(before.orgs, c)
        BY <1>3, <2>0, <3>1 DEF Heals, Healed
      <4> QED
        BY <2>0, <2>5, <4>1 DEF CleanFork
    <3> QED
      BY <1>1, <1>3, <2>1, <2>2, <3>1, <3>2 DEF Heals, Healed
  <2> QED
    BY <1>1, <2>1, <2>3, <2>4, <2>5, SameRows
<1>6. ASSUME mig.twins # {}, NEW todo, todo = {m \in DOMAIN view.members : m[1] = Twin},
             mig' = [mig EXCEPT !.pc = "member", !.todo = todo]
      PROVE  IInv'
  <2>1. todo \subseteq (DOMAIN before.orgs) \X Users
    <3>1. DOMAIN view.members \subseteq (DOMAIN before.orgs) \X Users
      BY <1>2 DEF TypeOK
    <3> QED
      BY <1>6, <3>1
  <2>2. /\ mig'.pc = "member" /\ mig'.canons = mig.canons /\ mig'.canon = mig.canon
        /\ mig'.twins = mig.twins /\ mig'.adopted = mig.adopted /\ mig'.todo = todo
        /\ mig' \in Migrations
    BY <1>2, <1>6, <2>1 DEF Migrations
  <2>3. InLoop' /\ OnTwin' /\ (\A c : Pending(c)' <=> Pending(c)) /\ Twin' = Twin
    BY <1>3, <2>2 DEF InLoop, OnTwin, Pending, Twin
  <2>4. LoopFits'
    BY <1>1, <1>2, <1>3, <1>6, <2>2, <2>3 DEF LoopFits
  <2>5. TwinsStay'
    BY <1>1, <1>2, <1>3, <2>3 DEF TwinsStay
  <2>6. ASSUME NEW c \in DOMAIN before.orgs, CleanFork(c) PROVE Heals(c)'
    <3>1. Heals(c)
      BY <1>2, <2>6
    <3> QED
      BY <1>1, <1>3, <2>2, <2>3, <3>1 DEF Heals, Healed
  <2> QED
    BY <1>1, <2>2, <2>4, <2>5, <2>6, SameRows
<1> QED
  BY <1>4, <1>5, <1>6 DEF NextTwin, Go

LEMMA AddConstraintStep ==
    ASSUME IInv, AddConstraint
    PROVE  IInv'
<1>1. /\ mig.pc = "constrain" /\ mig' = [mig EXCEPT !.pc = "commit"]
      /\ UNCHANGED <<orgs, members, trail, before, joined, filled, view>>
  BY DEF AddConstraint, Go
<1>2. TypeOK /\ LoopFits /\ TwinsStay /\ mig \in Migrations
      /\ \A c \in DOMAIN before.orgs : CleanFork(c) => Heals(c)
  BY DEF IInv, TypeOK
<1>3. mig.canons = {} /\ mig'.pc = "commit" /\ mig'.canons = {} /\ mig' \in Migrations
  BY <1>1, <1>2 DEF LoopFits, Migrations
<1>4. /\ ~ InLoop /\ ~ OnTwin /\ ~ InLoop' /\ ~ OnTwin'
      /\ \A c : ~ Pending(c) /\ ~ Pending(c)'
  BY <1>1, <1>3 DEF InLoop, OnTwin, Pending
<1>5. LoopFits'
  BY <1>3, <1>4 DEF LoopFits
<1>6. TwinsStay'
  BY <1>1, <1>2, <1>4 DEF TwinsStay
<1>7. ASSUME NEW c \in DOMAIN before.orgs, CleanFork(c) PROVE Heals(c)'
  <2>1. Heals(c)
    BY <1>2, <1>7
  <2> QED
    BY <1>1, <1>3, <1>4, <2>1 DEF Heals, Healed
<1> QED
  BY <1>1, <1>3, <1>5, <1>6, <1>7, SameRows

-----------------------------------------------------------------------------
(* Steps of the merge.                                                      *)

\* What is left to show of a step before the end.
LEMMA MergeStep ==
    ASSUME IInv, UNCHANGED <<orgs, members, trail, before, joined, filled>>, mig' \in Migrations,
           mig.pc # "done", mig'.pc \notin {"idle", "done"},
           DOMAIN view' = {"orgs", "members"},
           DOMAIN view'.members \subseteq (DOMAIN before.orgs) \X Users,
           RowsFit', LoopFits', TwinsStay', Kept(view.orgs, view.members)',
           \A c \in DOMAIN before.orgs : CleanFork(c) => Heals(c)'
    PROVE  IInv'
<1>1. TypeOK /\ OneTransaction
  BY DEF IInv
<1>2. TypeOK'
  BY <1>1 DEF TypeOK, Migrations, Tables
<1>3. OneTransaction'
  BY <1>1 DEF OneTransaction, Follows
<1>4. \A c \in DOMAIN before.orgs : CleanFork(c)' <=> CleanFork(c)
  BY DEF CleanFork, SameName
<1> QED
  BY <1>2, <1>3, <1>4 DEF IInv

LEMMA MoveMemberStep ==
    ASSUME IInv, MoveMember
    PROVE  IInv'
<1>1. mig.pc = "member" /\ UNCHANGED <<orgs, members, trail, before, joined, filled>>
  BY DEF MoveMember, Go
<1>2. TypeOK /\ RowsFit /\ LoopFits /\ TwinsStay /\ mig \in Migrations /\ Kept(view.orgs, view.members)
      /\ \A c \in DOMAIN before.orgs : CleanFork(c) => Heals(c)
  BY DEF IInv, TypeOK
<1>3. InLoop /\ OnTwin
  BY <1>1 DEF InLoop, OnTwin
<1>4. /\ mig.twins # {} /\ mig.twins \subseteq TwinsOf(before.orgs, mig.canon) \cap DOMAIN view.orgs
      /\ mig.canon \in DOMAIN before.orgs /\ before.orgs[mig.canon].gid # None
      /\ \A m \in mig.todo : m \in DOMAIN view.members /\ m[1] = Twin
  BY <1>2, <1>3 DEF LoopFits, Pending
<1>5. PICK t : t = Twin
  OBVIOUS
<1>6. t \in mig.twins
  BY <1>2, <1>4, <1>5, TwinIn
<1>7. /\ t \in DOMAIN before.orgs /\ before.orgs[t].gid = None /\ t # mig.canon
      /\ before.orgs[t].name = before.orgs[mig.canon].name
  BY <1>4, <1>6 DEF TwinsOf
<1>8. ASSUME NEW m \in mig.todo, NEW new,
             LET moved == <<mig.canon, m[2]>>  rest == Without(view.members, {m})
             IN  new = IF moved \in DOMAIN rest THEN rest ELSE With(rest, moved, view.members[m]),
             mig' = [mig EXCEPT !.todo = @ \ {m}], view' = [view EXCEPT !.members = new]
      PROVE  IInv'
  <2>1. m \in DOMAIN view.members /\ m[1] = t /\ m \in (DOMAIN before.orgs) \X Users
    BY <1>2, <1>4, <1>5, <1>8 DEF Migrations
  <2>2. /\ DOMAIN view' = {"orgs", "members"} /\ view'.orgs = view.orgs /\ view'.members = new
    BY <1>2, <1>8 DEF TypeOK
  <2>3. /\ mig'.pc = "member" /\ mig'.canons = mig.canons /\ mig'.canon = mig.canon
        /\ mig'.twins = mig.twins /\ mig'.adopted = mig.adopted /\ mig'.todo = mig.todo \ {m}
        /\ mig' \in Migrations
    BY <1>1, <1>2, <1>8 DEF Migrations
  <2>4. InLoop' /\ OnTwin' /\ (\A c : Pending(c)' <=> Pending(c)) /\ Twin' = t
    BY <1>3, <1>5, <2>3 DEF InLoop, OnTwin, Pending, Twin
  <2>5. /\ DOMAIN new = (DOMAIN view.members \ {m}) \cup {<<mig.canon, m[2]>>}
        /\ \A k \in DOMAIN view.members \ {m} : new[k] = view.members[k]
    <3> DEFINE moved == <<mig.canon, m[2]>>
    <3>1. moved # m
      BY <1>7, <2>1
    <3>2. CASE moved \in DOMAIN view.members
      <4>1. new = Without(view.members, {m})
        BY <1>8, <3>1, <3>2 DEF Without
      <4> QED
        BY <3>1, <3>2, <4>1 DEF Without
    <3>3. CASE moved \notin DOMAIN view.members
      <4>1. new = With(Without(view.members, {m}), moved, view.members[m])
        BY <1>8, <3>1, <3>3 DEF Without
      <4> QED
        BY <3>1, <3>3, <4>1 DEF Without, With
    <3> QED
      BY <3>2, <3>3
  <2>6. DOMAIN new \subseteq (DOMAIN before.orgs) \X Users
    BY <1>2, <1>4, <2>1, <2>5 DEF TypeOK
  <2>7. Kept(view.orgs, view.members)'
    <3>1. PICK z : z = view
      OBVIOUS
    <3>2. PICK c : c = mig.canon
      OBVIOUS
    <3>3. c \in DOMAIN z.orgs
      BY <1>2, <1>4, <3>1, <3>2, IdsStay
    <3>4. c # m[1] /\ SameName(c, m[1])
      BY <1>7, <2>1, <3>2 DEF SameName
    <3>5. Kept(z.orgs, new)
      BY <1>2, <1>8, <2>1, <3>1, <3>2, <3>3, <3>4, MoveKeeps
    <3>6. Kept(z.orgs, new)'
      BY <1>1, <3>5 DEF Kept, SameName
    <3> QED
      BY <2>2, <3>1, <3>6
  <2>8. RowsFit'
    BY <1>1, <1>2, <2>2 DEF RowsFit, Follows, Doubled
  <2>9. LoopFits'
    BY <1>1, <1>2, <1>3, <1>5, <2>2, <2>3, <2>4, <2>5 DEF LoopFits
  <2>10. TwinsStay'
    <3>1. ASSUME NEW i \in DOMAIN view.orgs, before.orgs[i].gid = None, i # t,
                 NEW u \in Users, <<i, u>> \in joined
          PROVE  <<i, u>> \in DOMAIN new /\ new[<<i, u>>] = i
      <4>1. <<i, u>> \in DOMAIN view.members /\ view.members[<<i, u>>] = i
        BY <1>2, <1>5, <3>1 DEF TwinsStay
      <4>2. <<i, u>> # m
        BY <2>1, <3>1
      <4> QED
        BY <2>5, <4>1, <4>2
    <3>2. ASSUME NEW i \in DOMAIN view.orgs, before.orgs[i].gid = None,
                 NEW u \in Users, <<i, u>> \notin joined
          PROVE  <<i, u>> \notin DOMAIN new
      <4>1. <<i, u>> \notin DOMAIN view.members
        BY <1>2, <3>2 DEF TwinsStay
      <4>2. i # mig.canon
        BY <1>4, <3>2
      <4> QED
        BY <2>5, <4>1, <4>2
    <3> QED
      BY <1>1, <2>2, <2>4, <3>1, <3>2 DEF TwinsStay
  <2>11. ASSUME NEW c \in DOMAIN before.orgs, CleanFork(c) PROVE Heals(c)'
    <3>1. Heals(c)
      BY <1>2, <2>11
    <3> QED
      BY <1>1, <1>3, <2>2, <2>3, <2>4, <3>1 DEF Heals, Healed
  <2> QED
    BY <1>1, <2>2, <2>3, <2>6, <2>7, <2>8, <2>9, <2>10, <2>11, MergeStep
<1>9. ASSUME mig.todo = {}, mig' = [mig EXCEPT !.pc = "delete"], UNCHANGED view PROVE IInv'
  <2>1. /\ mig'.pc = "delete" /\ mig'.canons = mig.canons /\ mig'.canon = mig.canon
        /\ mig'.twins = mig.twins /\ mig'.adopted = mig.adopted /\ mig'.todo = {}
        /\ mig' \in Migrations
    BY <1>2, <1>9 DEF Migrations
  <2>2. InLoop' /\ OnTwin' /\ (\A c : Pending(c)' <=> Pending(c)) /\ Twin' = Twin
    BY <1>3, <2>1 DEF InLoop, OnTwin, Pending, Twin
  <2>3. LoopFits'
    BY <1>1, <1>2, <1>3, <1>9, <2>1, <2>2 DEF LoopFits
  <2>4. TwinsStay'
    BY <1>1, <1>2, <1>3, <1>9, <2>2 DEF TwinsStay
  <2>5. ASSUME NEW c \in DOMAIN before.orgs, CleanFork(c) PROVE Heals(c)'
    <3>1. Heals(c)
      BY <1>2, <2>5
    <3> QED
      BY <1>1, <1>3, <1>9, <2>1, <2>2, <3>1 DEF Heals, Healed
  <2> QED
    BY <1>1, <1>9, <2>1, <2>3, <2>4, <2>5, SameRows
<1> QED
  BY <1>8, <1>9 DEF MoveMember, Go

LEMMA DeleteTwinStep ==
    ASSUME IInv, DeleteTwin
    PROVE  IInv'
<1>1. PICK t : t = Twin
  OBVIOUS
<1>2. /\ mig.pc = "delete" /\ UNCHANGED <<orgs, members, trail, before, joined, filled>>
      /\ mig' = [mig EXCEPT !.pc = "twin", !.twins = @ \ {t},
                            !.adopted = IF @ = None THEN view.orgs[t].path ELSE @]
      /\ view' = [view EXCEPT !.orgs = Without(@, {t})]
      /\ t \notin trail /\ \A m \in DOMAIN view.members : m[1] # t
  BY <1>1 DEF DeleteTwin, Deleted, Protected, Go
<1>3. TypeOK /\ RowsFit /\ LoopFits /\ TwinsStay /\ mig \in Migrations /\ Kept(view.orgs, view.members)
      /\ \A c \in DOMAIN before.orgs : CleanFork(c) => Heals(c)
  BY DEF IInv, TypeOK
<1>4. InLoop /\ OnTwin
  BY <1>2 DEF InLoop, OnTwin
<1>5. /\ mig.twins # {} /\ mig.twins \subseteq TwinsOf(before.orgs, mig.canon) \cap DOMAIN view.orgs
      /\ mig.canon \in DOMAIN before.orgs /\ before.orgs[mig.canon].gid # None
  BY <1>3, <1>4 DEF LoopFits, Pending
<1>6. t \in mig.twins
  BY <1>1, <1>3, <1>5, TwinIn
<1>7. /\ t \in DOMAIN before.orgs /\ before.orgs[t].gid = None /\ before.orgs[t].path # None
      /\ t \in TwinsOf(before.orgs, mig.canon) /\ t \in DOMAIN view.orgs
      /\ view.orgs[t].path = before.orgs[t].path
  BY <1>3, <1>5, <1>6 DEF TwinsOf, RowsFit, Follows
<1>8. /\ DOMAIN view' = {"orgs", "members"} /\ view'.members = view.members
      /\ DOMAIN view'.orgs = DOMAIN view.orgs \ {t}
      /\ \A i \in DOMAIN view'.orgs : view'.orgs[i] = view.orgs[i]
  BY <1>2, <1>3 DEF TypeOK, Without
<1>9. /\ mig'.pc = "twin" /\ mig'.canons = mig.canons /\ mig'.canon = mig.canon
      /\ mig'.twins = mig.twins \ {t}
      /\ mig'.adopted = (IF mig.adopted = None THEN before.orgs[t].path ELSE mig.adopted)
      /\ mig' \in Migrations
  BY <1>2, <1>3, <1>7 DEF Migrations
<1>10. InLoop' /\ ~ OnTwin' /\ \A c : Pending(c)' <=> Pending(c)
  BY <1>4, <1>9 DEF InLoop, OnTwin, Pending
<1>11. RowsFit'
  <2>1. \A pair \in Doubled(view'.orgs) :
            /\ pair \in Doubled(view.orgs)
            /\ \A i \in {pair[1], pair[2]} : view'.orgs[i] = view.orgs[i]
    BY <1>8 DEF Doubled
  <2>2. \A pair \in Doubled(view'.orgs) :
            \/ pair \in Doubled(before.orgs)
            \/ \E i \in {pair[1], pair[2]} : <<i, view'.orgs[i].path>> \in filled
    BY <1>3, <2>1 DEF RowsFit
  <2>3. /\ DOMAIN view'.orgs \subseteq DOMAIN before.orgs
        /\ \A i \in DOMAIN before.orgs \ DOMAIN view'.orgs : before.orgs[i].gid = None /\ i \notin trail
    BY <1>2, <1>3, <1>7, <1>8 DEF RowsFit
  <2>4. \A i \in DOMAIN view'.orgs : Follows(i, view'.orgs[i])
    BY <1>3, <1>8 DEF RowsFit
  <2> QED
    BY <1>2, <2>2, <2>3, <2>4, RowsFitNext
<1>12. LoopFits'
  <2>1. mig'.twins \subseteq TwinsOf(before.orgs, mig.canon) \cap DOMAIN view'.orgs
    BY <1>5, <1>8, <1>9
  <2> QED
    BY <1>2, <1>3, <1>4, <1>9, <1>10, <2>1 DEF LoopFits
<1>13. TwinsStay'
  <2>1. ASSUME NEW i \in DOMAIN view'.orgs, before.orgs[i].gid = None, NEW u \in Users
        PROVE  /\ <<i, u>> \in joined =>
                      <<i, u>> \in DOMAIN view.members /\ view.members[<<i, u>>] = i
               /\ <<i, u>> \notin joined => <<i, u>> \notin DOMAIN view.members
    <3>1. i \in DOMAIN view.orgs /\ i # t
      BY <1>8, <2>1
    <3> QED
      BY <1>1, <1>3, <2>1, <3>1 DEF TwinsStay
  <2> QED
    BY <1>2, <1>8, <2>1 DEF TwinsStay
<1>14. Kept(view.orgs, view.members)'
  <2>1. \A k \in DOMAIN view'.members : k[1] \in DOMAIN view'.orgs
    BY <1>2, <1>3, <1>8 DEF Kept
  <2> QED
    BY <1>2, <1>3, <1>8, <2>1, SMTT(40) DEF Kept, SameName
<1>15. ASSUME NEW c \in DOMAIN before.orgs, CleanFork(c) PROVE Heals(c)'
  <2> DEFINE ts == TwinsOf(before.orgs, c)
             ps == {before.orgs[i].path : i \in ts}
  <2>1. /\ \A i \in DOMAIN view.orgs \ (ts \cup {c}) : view.orgs[i].path \notin ps
        /\ c # mig.canon => mig.adopted \notin ps
        /\ c \in mig.canons => ts \subseteq DOMAIN view.orgs
        /\ c = mig.canon =>
            /\ mig.twins = ts \cap DOMAIN view.orgs
            /\ mig.adopted \in ps \/ (mig.adopted = None /\ mig.twins = ts)
        /\ Pending(c) \/ Healed(view.orgs, c)
    BY <1>2, <1>3, <1>4, <1>15 DEF Heals
  <2>2. None \notin ps
    BY DEF TwinsOf
  <2>3. c # mig.canon => t \notin ts /\ t # c /\ before.orgs[t].path \notin ps
    BY <1>5, <1>7, <1>15, TwinsApart
  <2>4. c = mig.canon => t \in ts /\ before.orgs[t].path \in ps
    BY <1>7
  <2>5. c \in DOMAIN view.orgs /\ c # t
    BY <1>3, <1>7, <1>15, IdsStay DEF CleanFork
  <2> HIDE DEF ts, ps
  <2>6. /\ \A i \in DOMAIN view'.orgs \ (ts \cup {c}) : view'.orgs[i].path \notin ps
        /\ c \in mig.canons => ts \subseteq DOMAIN view'.orgs
    <3>1. c \in mig.canons => c # mig.canon
      BY <1>3, <1>4 DEF LoopFits
    <3> QED
      BY <1>8, <2>1, <2>3, <3>1
  <2>7. c # mig.canon => mig'.adopted \notin ps
    BY <1>9, <2>1, <2>3
  <2>8. c = mig.canon => mig'.twins = ts \cap DOMAIN view'.orgs /\ mig'.adopted \in ps
    BY <1>8, <1>9, <2>1, <2>4
  <2>9. Healed(view.orgs, c) => Healed(view'.orgs, c)
    BY <1>8, <2>5 DEF Healed
  <2>10. Healed(view'.orgs, c) => Healed(view.orgs, c)'
    BY <1>2 DEF Healed
  <2>11. Pending(c)' \/ Healed(view.orgs, c)'
    BY <1>10, <2>1, <2>9, <2>10
  <2>12. TwinsOf(before'.orgs, c) = ts /\ {before'.orgs[i].path : i \in TwinsOf(before'.orgs, c)} = ps
    BY <1>2 DEF ts, ps
  <2> QED
    BY <1>9, <1>10, <2>6, <2>7, <2>8, <2>11, <2>12 DEF Heals
<1>16. DOMAIN view'.members \subseteq (DOMAIN before.orgs) \X Users
  BY <1>3, <1>8 DEF TypeOK
<1> QED
  BY <1>2, <1>8, <1>9, <1>11, <1>12, <1>13, <1>14, <1>15, <1>16, MergeStep

LEMMA AdoptPathStep ==
    ASSUME IInv, AdoptPath
    PROVE  IInv'
<1>1. PICK d : d = mig.canon
  OBVIOUS
<1>2. /\ mig.pc = "adopt" /\ UNCHANGED <<orgs, members, trail, before, joined, filled>>
      /\ mig' = [mig EXCEPT !.pc = "canon"]
      /\ \/ /\ mig.adopted = None \/ \E i \in DOMAIN view.orgs \ {d} : view.orgs[i].path = mig.adopted
            /\ view' = view
         \/ /\ mig.adopted # None /\ \A i \in DOMAIN view.orgs \ {d} : view.orgs[i].path # mig.adopted
            /\ view' = [view EXCEPT !.orgs[d].path = mig.adopted]
  BY <1>1 DEF AdoptPath, Go
<1>3. TypeOK /\ RowsFit /\ LoopFits /\ TwinsStay /\ mig \in Migrations /\ Kept(view.orgs, view.members)
      /\ \A c \in DOMAIN before.orgs : CleanFork(c) => Heals(c)
  BY DEF IInv, TypeOK
<1>4. InLoop /\ ~ OnTwin
  BY <1>2 DEF InLoop, OnTwin
<1>5. /\ mig.twins = {} /\ d \in DOMAIN before.orgs \ mig.canons
      /\ before.orgs[d].gid # None
  BY <1>1, <1>2, <1>3, <1>4 DEF LoopFits, Pending
<1>6. d \in DOMAIN view.orgs /\ DOMAIN view.orgs[d] = {"gid", "path", "name"}
  BY <1>3, <1>5, IdsStay DEF RowsFit, Follows
<1>7. /\ DOMAIN view' = {"orgs", "members"} /\ view'.members = view.members
      /\ DOMAIN view'.orgs = DOMAIN view.orgs
      /\ \A i \in DOMAIN view.orgs \ {d} : view'.orgs[i] = view.orgs[i]
      /\ DOMAIN view'.orgs[d] = {"gid", "path", "name"}
      /\ view'.orgs[d].gid = view.orgs[d].gid /\ view'.orgs[d].name = view.orgs[d].name
  BY <1>2, <1>3, <1>6 DEF TypeOK
<1>8. \/ view'.orgs[d] = view.orgs[d]
      \/ /\ view'.orgs[d].path = mig.adopted
         /\ \A i \in DOMAIN view.orgs \ {d} : view.orgs[i].path # mig.adopted
  BY <1>2, <1>3, <1>5, <1>6 DEF TypeOK
<1>9. /\ mig'.pc = "canon" /\ mig'.canons = mig.canons /\ mig' \in Migrations
  BY <1>2, <1>3 DEF Migrations
<1>10. ~ InLoop' /\ ~ OnTwin' /\ \A c : Pending(c)' <=> c \in mig.canons
  BY <1>9 DEF InLoop, OnTwin, Pending
<1>11. RowsFit'
  <2>1. ASSUME NEW pair \in Doubled(view'.orgs)
        PROVE  /\ pair \in Doubled(view.orgs)
               /\ \A i \in {pair[1], pair[2]} : view'.orgs[i] = view.orgs[i]
    <3>1. CASE view'.orgs[d] = view.orgs[d]
      BY <1>7, <2>1, <3>1 DEF Doubled
    <3>2. CASE /\ view'.orgs[d].path = mig.adopted
               /\ \A i \in DOMAIN view.orgs \ {d} : view.orgs[i].path # mig.adopted
      <4>1. pair[1] # d /\ pair[2] # d
        BY <1>7, <2>1, <3>2 DEF Doubled
      <4> QED
        BY <1>7, <2>1, <4>1 DEF Doubled
    <3> QED
      BY <1>8, <3>1, <3>2
  <2>2. \A pair \in Doubled(view'.orgs) :
            \/ pair \in Doubled(before.orgs)
            \/ \E i \in {pair[1], pair[2]} : <<i, view'.orgs[i].path>> \in filled
    BY <1>3, <2>1 DEF RowsFit
  <2>3. \A i \in DOMAIN view'.orgs : Follows(i, view'.orgs[i])
    BY <1>3, <1>5, <1>7 DEF RowsFit, Follows
  <2> QED
    BY <1>2, <1>3, <1>7, <2>2, <2>3 DEF RowsFit, Follows, Doubled
<1>12. LoopFits'
  BY <1>2, <1>3, <1>9, <1>10 DEF LoopFits, Pending
<1>13. TwinsStay'
  BY <1>2, <1>3, <1>4, <1>7, <1>10 DEF TwinsStay
<1>14. Kept(view.orgs, view.members)'
  <2>1. /\ before' = before /\ joined' = joined
        /\ DOMAIN view'.orgs = DOMAIN view.orgs /\ view'.members = view.members
    BY <1>2, <1>7
  <2> QED
    BY <1>3, <2>1 DEF Kept, SameName
<1>15. ASSUME NEW c \in DOMAIN before.orgs, CleanFork(c) PROVE Heals(c)'
  <2> DEFINE ts == TwinsOf(before.orgs, c)
             ps == {before.orgs[i].path : i \in ts}
  <2>1. /\ \A i \in DOMAIN view.orgs \ (ts \cup {c}) : view.orgs[i].path \notin ps
        /\ c # d => mig.adopted \notin ps
        /\ c \in mig.canons => ts \subseteq DOMAIN view.orgs
        /\ c = d =>
            /\ mig.twins = ts \cap DOMAIN view.orgs
            /\ mig.adopted \in ps \/ (mig.adopted = None /\ mig.twins = ts)
        /\ Pending(c) \/ Healed(view.orgs, c)
    <3>1. Heals(c)
      BY <1>3, <1>15
    <3> QED
      BY <1>1, <1>2, <1>4, <3>1 DEF Heals
  <2>2. None \notin ps /\ ts # {} /\ d \notin ts
    BY <1>5, <1>15 DEF TwinsOf, CleanFork
  <2>3. c \in DOMAIN view.orgs
    BY <1>3, <1>15, IdsStay DEF CleanFork
  <2>4. \A x \in ps : \E i \in ts : before.orgs[i].path = x
    OBVIOUS
  <2> HIDE DEF ts, ps
  <2>5. \A i \in DOMAIN view'.orgs \ (ts \cup {c}) : view'.orgs[i].path \notin ps
    <3>1. \A i \in DOMAIN view.orgs \ (ts \cup {c}) : i # d => view'.orgs[i].path \notin ps
      BY <1>7, <2>1
    <3>2. c # d => view'.orgs[d].path \notin ps
      BY <1>6, <1>8, <2>1, <2>2
    <3> QED
      BY <1>7, <3>1, <3>2
  <2>6. CASE c # d
    <3>1. Healed(view.orgs, c) => Healed(view'.orgs, c)
      BY <1>7, <2>3, <2>6 DEF Healed
    <3>2. Healed(view'.orgs, c) => Healed(view.orgs, c)'
      BY <1>2 DEF Healed
    <3>3. Pending(c) => c \in mig.canons
      BY <1>1, <2>6 DEF Pending
    <3> QED
      BY <1>2, <1>7, <1>9, <1>10, <2>1, <2>5, <3>1, <3>2, <3>3, SMTT(40) DEF Heals, ts, ps
  <2>7. CASE c = d
    <3>1. mig.adopted \in ps /\ mig.adopted # None /\ ts \cap DOMAIN view.orgs = {}
      BY <1>5, <2>1, <2>2, <2>7
    <3>2. \A i \in DOMAIN view.orgs \ {d} : view.orgs[i].path # mig.adopted
      BY <1>5, <2>1, <2>7, <3>1
    <3>3. view'.orgs[d].path = mig.adopted
      BY <1>2, <1>3, <1>6, <3>1, <3>2 DEF TypeOK
    <3>4. Healed(view'.orgs, c)
      <4>1. PICK i \in ts : before.orgs[i].path = mig.adopted
        BY <2>4, <3>1
      <4> QED
        BY <1>7, <2>3, <2>7, <3>1, <3>3, <4>1 DEF Healed, ts
    <3>5. Healed(view.orgs, c)'
      BY <1>2, <3>4 DEF Healed
    <3>6. c \notin mig.canons
      BY <1>5, <2>7
    <3> QED
      BY <1>2, <1>9, <1>10, <2>5, <3>5, <3>6 DEF Heals, ts, ps
  <2> QED
    BY <2>6, <2>7
<1>16. DOMAIN view'.members \subseteq (DOMAIN before.orgs) \X Users
  BY <1>3, <1>7 DEF TypeOK
<1> QED
  BY <1>2, <1>7, <1>9, <1>11, <1>12, <1>13, <1>14, <1>15, <1>16, MergeStep

-----------------------------------------------------------------------------
(* The end of the migration, and other writers.                             *)

LEMMA CommitStep ==
    ASSUME IInv, Commit
    PROVE  IInv'
<1>1. /\ mig.pc = "commit" /\ UNCHANGED <<trail, before, joined, filled, view>>
      /\ orgs' = view.orgs /\ members' = view.members /\ mig' = [Idle EXCEPT !.pc = "done"]
  BY DEF Commit
<1>2. TypeOK /\ RowsFit /\ LoopFits /\ TwinsStay /\ Kept(view.orgs, view.members)
      /\ \A c \in DOMAIN before.orgs : CleanFork(c) => Heals(c)
  BY DEF IInv
<1>3. mig'.pc = "done" /\ mig'.canons = {} /\ mig' \in Migrations
  BY <1>1 DEF Idle, Migrations
<1>4. /\ ~ InLoop /\ ~ OnTwin /\ ~ InLoop' /\ ~ OnTwin' /\ mig.canons = {}
      /\ \A c : ~ Pending(c) /\ ~ Pending(c)'
  BY <1>1, <1>2, <1>3 DEF InLoop, OnTwin, Pending, LoopFits
<1>5. TypeOK'
  BY <1>1, <1>2, <1>3 DEF TypeOK, Migrations, Tables
<1>6. OneTransaction'
  BY <1>1, <1>3 DEF OneTransaction
<1>7. RowsFit' /\ TwinsStay'
  BY <1>1, <1>2, <1>4 DEF RowsFit, Follows, Doubled, TwinsStay
<1>8. LoopFits'
  BY <1>3, <1>4 DEF LoopFits
<1>9. Kept(view.orgs, view.members)'
  BY <1>1, <1>2 DEF Kept, SameName
<1>10. ASSUME NEW c \in DOMAIN before.orgs, CleanFork(c) PROVE Heals(c)'
  <2>1. Heals(c)
    BY <1>2, <1>10
  <2> QED
    BY <1>1, <1>3, <1>4, <2>1 DEF Heals, Healed
<1>11. \A c \in DOMAIN before.orgs : CleanFork(c)' <=> CleanFork(c)
  BY <1>1 DEF CleanFork, SameName
<1> QED
  BY <1>1, <1>5, <1>6, <1>7, <1>8, <1>9, <1>10, <1>11 DEF IInv

\* The migration sees the committed tables: before it starts, or after a rollback.
LEMMA IdleState == TypeOK /\ OneTransaction /\ mig = Idle => IInv
<1> SUFFICES ASSUME TypeOK, OneTransaction, mig = Idle PROVE IInv
  OBVIOUS
<1>1. mig.pc = "idle" /\ mig.canons = {} /\ Tables(before) /\ trail \subseteq DOMAIN before.orgs
  BY DEF Idle, TypeOK
<1>2. ~ InLoop /\ ~ OnTwin /\ \A c : ~ Pending(c)
  BY <1>1 DEF InLoop, OnTwin, Pending
<1>3. /\ view.orgs = orgs /\ view.members = [m \in joined |-> m[1]]
      /\ DOMAIN orgs = DOMAIN before.orgs
      /\ \A i \in DOMAIN orgs :
            /\ Follows(i, orgs[i])
            /\ orgs[i].path = before.orgs[i].path \/ <<i, orgs[i].path>> \in filled
  BY <1>1 DEF OneTransaction
<1>4. RowsFit
  <2>1. ASSUME NEW pair \in Doubled(orgs)
        PROVE  \/ pair \in Doubled(before.orgs)
               \/ \E i \in {pair[1], pair[2]} : <<i, orgs[i].path>> \in filled
    BY <1>3 DEF Doubled
  <2> QED
    BY <1>3, <2>1 DEF RowsFit
<1>5. LoopFits
  BY <1>1, <1>2 DEF LoopFits
<1>6. TwinsStay
  BY <1>3 DEF TwinsStay
<1>7. Kept(view.orgs, view.members)
  <2>1. Kept(orgs, [m \in joined |-> m[1]])
    BY <1>3, BaseKept
  <2> QED
    BY <1>3, <2>1
<1>8. ASSUME NEW c \in DOMAIN before.orgs, CleanFork(c) PROVE Heals(c)
  <2> DEFINE ts == TwinsOf(before.orgs, c)
             ps == {before.orgs[i].path : i \in ts}
  <2>1. ASSUME NEW i \in DOMAIN orgs \ (ts \cup {c}) PROVE orgs[i].path \notin ps
    <3>1. before.orgs[i].path \notin ps /\ \A f \in filled : f[2] \notin ps
      BY <1>3, <1>8 DEF CleanFork
    <3> HIDE DEF ps, ts
    <3> QED
      BY <1>3, <3>1
  <2>2. ts \subseteq DOMAIN view.orgs
    BY <1>3 DEF TwinsOf
  <2> QED
    BY <1>1, <1>2, <1>3, <2>1, <2>2 DEF Heals
<1> QED
  BY <1>4, <1>5, <1>6, <1>7, <1>8 DEF IInv

LEMMA InitIInv == Init => IInv
<1> SUFFICES ASSUME Init PROVE IInv
  OBVIOUS
<1>1. Tables(before)
  BY DatabasesAssumption DEF Init
<1>2. mig \in Migrations /\ mig.pc = "idle"
  BY DEF Init, Idle, Migrations
<1>3. /\ orgs = before.orgs /\ members = [m \in joined |-> m[1]] /\ joined = before.members
      /\ DOMAIN view = {"orgs", "members"} /\ view.orgs = orgs /\ view.members = members
      /\ trail = before.trail /\ filled = {}
  BY DEF Init
<1>4. TypeOK
  BY <1>1, <1>2, <1>3 DEF TypeOK, Tables
<1>5. OneTransaction
  BY <1>1, <1>2, <1>3 DEF OneTransaction, Follows, Tables
<1> QED
  BY <1>4, <1>5, IdleState DEF Init

LEMMA AbortStep ==
    ASSUME IInv, Abort
    PROVE  IInv'
<1>1. /\ mig.pc # "done" /\ UNCHANGED <<orgs, members, trail, before, joined, filled>> /\ mig' = Idle
      /\ view' = [orgs |-> orgs, members |-> members]
  BY DEF Abort, Go
<1>2. TypeOK /\ OneTransaction
  BY DEF IInv
<1>3. mig'.pc = "idle" /\ mig' \in Migrations' /\ members = [m \in joined |-> m[1]]
  BY <1>1, <1>2 DEF Idle, Migrations, OneTransaction
<1>4. /\ DOMAIN view' = {"orgs", "members"} /\ view'.orgs = orgs /\ view'.members = members
  BY <1>1
<1>5. TypeOK'
  BY <1>1, <1>2, <1>3, <1>4 DEF TypeOK, Tables
<1>6. OneTransaction'
  BY <1>1, <1>2, <1>3, <1>4 DEF OneTransaction, Follows
<1>7. (TypeOK /\ OneTransaction /\ mig = Idle)'
  BY <1>1, <1>5, <1>6 DEF Idle
<1> QED
  BY <1>7, IdleState, PTL

\* An entry is appended to an organization that the migration has not deleted.
LEMMA AppendStep ==
    ASSUME IInv, NEW i \in DOMAIN orgs, Append(i)
    PROVE  IInv'
<1>1. /\ i \in DOMAIN view.orgs /\ trail' = trail \cup {i}
      /\ UNCHANGED <<orgs, members, mig, view, before, joined, filled>>
  BY DEF Append, MayWrite
<1>2. /\ TypeOK /\ OneTransaction /\ RowsFit /\ LoopFits /\ TwinsStay /\ Kept(view.orgs, view.members)
      /\ \A c \in DOMAIN before.orgs : CleanFork(c) => Heals(c)
  BY DEF IInv
<1>3. TypeOK'
  BY <1>1, <1>2 DEF TypeOK, Migrations, Tables, RowsFit
<1>4. OneTransaction'
  BY <1>1, <1>2 DEF OneTransaction, Follows
<1>5. RowsFit'
  BY <1>1, <1>2 DEF RowsFit, Follows, Doubled
<1>6. (InLoop' <=> InLoop) /\ (OnTwin' <=> OnTwin) /\ Twin' = Twin /\ \A c : Pending(c)' <=> Pending(c)
  BY <1>1 DEF InLoop, OnTwin, Pending, Twin
<1>7. LoopFits' /\ TwinsStay'
  BY <1>1, <1>2, <1>6 DEF LoopFits, TwinsStay
<1>8. Kept(view.orgs, view.members)'
  BY <1>1, <1>2, SMTT(40) DEF Kept, SameName
<1>9. ASSUME NEW c \in DOMAIN before.orgs, CleanFork(c)' PROVE Heals(c)'
  <2>1. CleanFork(c)
    BY <1>1, <1>9 DEF CleanFork, SameName
  <2>2. Heals(c)
    BY <1>2, <2>1
  <2> QED
    BY <1>1, <1>6, <2>2 DEF Heals, Healed
<1> QED
  BY <1>1, <1>3, <1>4, <1>5, <1>7, <1>8, <1>9 DEF IInv

LEMMA JoinStep ==
    ASSUME IInv, NEW i \in DOMAIN orgs, NEW u \in Users, Join(i, u)
    PROVE  IInv'
<1> DEFINE m == <<i, u>>
<1>1. /\ i \in DOMAIN view.orgs /\ m \notin DOMAIN members \cup DOMAIN view.members
      /\ members' = With(members, m, i) /\ joined' = joined \cup {m}
      /\ view' = [view EXCEPT !.members = With(@, m, i)]
      /\ UNCHANGED <<orgs, trail, mig, before, filled>>
  BY DEF Join, MayWrite
<1>2. /\ TypeOK /\ OneTransaction /\ RowsFit /\ LoopFits /\ TwinsStay /\ Kept(view.orgs, view.members)
      /\ \A c \in DOMAIN before.orgs : CleanFork(c) => Heals(c)
  BY DEF IInv
<1>3. /\ DOMAIN view' = {"orgs", "members"} /\ view'.orgs = view.orgs
      /\ view'.members = With(view.members, m, i)
  BY <1>1, <1>2 DEF TypeOK
<1>4. /\ DOMAIN view'.members = DOMAIN view.members \cup {m} /\ view'.members[m] = i
      /\ \A k \in DOMAIN view.members : view'.members[k] = view.members[k]
  BY <1>1, <1>3 DEF With
<1>5. m \in (DOMAIN before.orgs) \X Users /\ m[1] = i
  BY <1>1, <1>2 DEF RowsFit
<1>6. TypeOK'
  <2>1. joined' \subseteq (DOMAIN before.orgs) \X Users
    BY <1>1, <1>2, <1>5 DEF TypeOK
  <2>2. DOMAIN view'.members \subseteq (DOMAIN before.orgs) \X Users
    BY <1>2, <1>4, <1>5 DEF TypeOK
  <2> HIDE DEF m
  <2>3. Tables(before)' /\ mig' \in Migrations' /\ trail' \subseteq DOMAIN before'.orgs
    BY <1>1, <1>2 DEF TypeOK, Migrations, Tables
  <2> QED
    BY <1>1, <1>2, <1>3, <2>1, <2>2, <2>3 DEF TypeOK
<1>7. OneTransaction'
  <2>1. CASE mig.pc = "done"
    <3>1. orgs = view.orgs /\ members = view.members
      BY <1>2, <2>1 DEF OneTransaction
    <3>2. orgs' = view'.orgs /\ members' = view'.members
      BY <1>1, <1>3, <3>1
    <3> QED
      BY <1>1, <2>1, <3>2 DEF OneTransaction
  <2>2. CASE mig.pc # "done"
    <3>1. /\ members = [k \in joined |-> k[1]]
          /\ mig.pc = "idle" => view.orgs = orgs /\ view.members = members
      BY <1>2, <2>2 DEF OneTransaction
    <3>2. members' = [k \in joined' |-> k[1]]
      <4>1. members' = [k \in joined \cup {m} |-> IF k = m THEN i ELSE members[k]]
        BY <1>1, <3>1 DEF With
      <4>2. \A k \in joined \cup {m} : (IF k = m THEN i ELSE members[k]) = k[1]
        BY <1>5, <3>1
      <4> HIDE DEF m
      <4> QED
        BY <1>1, <4>1, <4>2
    <3>3. mig.pc = "idle" => view'.orgs = orgs' /\ view'.members = members'
      BY <1>1, <1>3, <3>1
    <3> QED
      BY <1>1, <1>2, <2>2, <3>2, <3>3 DEF OneTransaction, Follows
  <2> QED
    BY <2>1, <2>2
<1>8. RowsFit'
  BY <1>1, <1>2, <1>3 DEF RowsFit, Follows, Doubled
<1>9. (InLoop' <=> InLoop) /\ (OnTwin' <=> OnTwin) /\ Twin' = Twin /\ \A c : Pending(c)' <=> Pending(c)
  BY <1>1 DEF InLoop, OnTwin, Pending, Twin
<1>10. LoopFits'
  BY <1>1, <1>2, <1>3, <1>4, <1>9 DEF LoopFits
<1>11. TwinsStay'
  <2>1. ASSUME NEW j \in DOMAIN view.orgs, before.orgs[j].gid = None, ~ (OnTwin /\ j = Twin),
               NEW v \in Users, <<j, v>> \in joined \cup {m}
        PROVE  <<j, v>> \in DOMAIN view'.members /\ view'.members[<<j, v>>] = j
    <3>1. CASE <<j, v>> = m
      BY <1>4, <3>1
    <3>2. CASE <<j, v>> \in joined
      BY <1>2, <1>4, <2>1, <3>2 DEF TwinsStay
    <3> QED
      BY <2>1, <3>1, <3>2
  <2>2. ASSUME NEW j \in DOMAIN view.orgs, before.orgs[j].gid = None,
               NEW v \in Users, <<j, v>> \notin joined \cup {m}
        PROVE  <<j, v>> \notin DOMAIN view'.members
    BY <1>2, <1>4, <2>2 DEF TwinsStay
  <2> QED
    BY <1>1, <1>3, <1>9, <2>1, <2>2 DEF TwinsStay
<1>12. Kept(view.orgs, view.members)'
  <2>1. PICK z : z = view
    OBVIOUS
  <2>2. Kept(z.orgs, With(z.members, <<i, u>>, i))'
    BY <1>1, <1>2, <2>1, JoinKeeps
  <2>3. PICK new : new = With(z.members, <<i, u>>, i)
    OBVIOUS
  <2>4. Kept(z.orgs, new)'
    BY <2>2, <2>3 DEF Kept
  <2>5. view'.orgs = z.orgs /\ view'.members = new
    BY <1>3, <2>1, <2>3
  <2> QED
    BY <2>4, <2>5 DEF Kept
<1>13. ASSUME NEW c \in DOMAIN before.orgs, CleanFork(c) PROVE Heals(c)'
  <2>1. Heals(c)
    BY <1>2, <1>13
  <2> QED
    BY <1>1, <1>3, <1>9, <2>1 DEF Heals, Healed
<1>14. \A c \in DOMAIN before.orgs : CleanFork(c)' <=> CleanFork(c)
  BY <1>1 DEF CleanFork, SameName
<1> QED
  BY <1>1, <1>6, <1>7, <1>8, <1>10, <1>11, <1>12, <1>13, <1>14 DEF IInv

\* A path is given to an organization with a group id, in what the migration sees too.
LEMMA SetPathStep ==
    ASSUME IInv, NEW i \in DOMAIN orgs, NEW path \in Paths, SetPath(i, path)
    PROVE  IInv'
<1>1. /\ i \in DOMAIN view.orgs /\ orgs[i].gid # None /\ view.orgs[i] = orgs[i]
      /\ orgs' = [orgs EXCEPT ![i].path = path] /\ view' = [view EXCEPT !.orgs[i].path = path]
      /\ filled' = filled \cup {<<i, path>>}
      /\ UNCHANGED <<members, trail, mig, before, joined>>
  BY DEF SetPath, MayWrite
<1>2. /\ TypeOK /\ OneTransaction /\ RowsFit /\ LoopFits /\ TwinsStay /\ Kept(view.orgs, view.members)
      /\ \A c \in DOMAIN before.orgs : CleanFork(c) => Heals(c)
  BY DEF IInv
<1>3. /\ DOMAIN view' = {"orgs", "members"} /\ view'.members = view.members
      /\ view'.orgs = [view.orgs EXCEPT ![i].path = path]
  BY <1>1, <1>2 DEF TypeOK
<1>4. i \in DOMAIN before.orgs /\ Follows(i, view.orgs[i])
  BY <1>1, <1>2 DEF RowsFit
<1>5. before.orgs[i].gid # None
  BY <1>1, <1>4 DEF Follows
<1>6. /\ DOMAIN view'.orgs = DOMAIN view.orgs /\ view'.orgs[i] = [view.orgs[i] EXCEPT !.path = path]
      /\ \A j \in DOMAIN view.orgs \ {i} : view'.orgs[j] = view.orgs[j]
  BY <1>1, <1>3
<1>7. /\ DOMAIN orgs' = DOMAIN orgs /\ orgs'[i] = [orgs[i] EXCEPT !.path = path]
      /\ \A j \in DOMAIN orgs \ {i} : orgs'[j] = orgs[j]
  BY <1>1
<1>8. view'.orgs[i].path = path /\ orgs'[i] = view'.orgs[i] /\ Follows(i, view'.orgs[i])
  <2>1. view'.orgs[i].path = path
    BY <1>4, <1>6 DEF Follows
  <2>2. Follows(i, view'.orgs[i])
    BY <1>1, <1>4, <1>5, <1>6 DEF Follows
  <2> QED
    BY <1>1, <1>6, <1>7, <2>1, <2>2
<1>9. TypeOK'
  <2>1. filled' \subseteq (DOMAIN before.orgs) \X Paths
    BY <1>1, <1>2, <1>4 DEF TypeOK
  <2> QED
    BY <1>1, <1>2, <1>3, <2>1 DEF TypeOK, Migrations, Tables
<1>10. OneTransaction'
  <2>1. CASE mig.pc = "done"
    <3>1. orgs = view.orgs /\ members = view.members
      BY <1>2, <2>1 DEF OneTransaction
    <3>2. orgs' = view'.orgs /\ members' = view'.members
      BY <1>1, <1>3, <3>1
    <3> QED
      BY <1>1, <2>1, <3>2 DEF OneTransaction
  <2>2. CASE mig.pc # "done"
    <3>1. /\ DOMAIN orgs = DOMAIN before.orgs /\ members = [m \in joined |-> m[1]]
          /\ \A j \in DOMAIN orgs :
                /\ Follows(j, orgs[j])
                /\ orgs[j].path = before.orgs[j].path \/ <<j, orgs[j].path>> \in filled
          /\ mig.pc = "idle" => view.orgs = orgs /\ view.members = members
      BY <1>2, <2>2 DEF OneTransaction
    <3>2. ASSUME NEW j \in DOMAIN orgs
          PROVE  /\ Follows(j, orgs'[j])
                 /\ orgs'[j].path = before.orgs[j].path \/ <<j, orgs'[j].path>> \in filled'
      <4>1. CASE j = i
        <5>1. orgs'[j] = view'.orgs[j] /\ orgs'[j].path = path /\ <<i, path>> \in filled'
          BY <1>1, <1>8, <4>1
        <5>2. Follows(j, orgs'[j])
          BY <1>8, <4>1, <5>1, Zenon
        <5> QED
          BY <4>1, <5>1, <5>2
      <4>2. CASE j # i
        BY <1>1, <1>7, <3>1, <4>2
      <4> QED
        BY <4>1, <4>2
    <3>3. mig.pc = "idle" => view'.orgs = orgs' /\ view'.members = members'
      BY <1>1, <1>3, <3>1
    <3>4. \A j \in DOMAIN orgs' : Follows(j, orgs[j])'
      <4>1. before' = before /\ DOMAIN orgs' = DOMAIN orgs
        BY <1>1, <1>7
      <4>2. \A j \in DOMAIN orgs' : Follows(j, orgs'[j])
        BY <3>2, <4>1
      <4> QED
        BY <4>1, <4>2 DEF Follows
    <3>5. members' = [m \in joined' |-> m[1]]
      BY <1>1, <3>1
    <3> QED
      BY <1>1, <1>7, <2>2, <3>1, <3>2, <3>3, <3>4, <3>5 DEF OneTransaction
  <2> QED
    BY <2>1, <2>2
<1>11. RowsFit'
  <2>1. ASSUME NEW j \in DOMAIN view.orgs PROVE Follows(j, view'.orgs[j])
    <3>1. CASE j = i
      BY <1>8, <3>1
    <3>2. CASE j # i
      BY <1>2, <1>6, <3>2 DEF RowsFit
    <3> QED
      BY <3>1, <3>2
  <2>2. ASSUME NEW pair \in Doubled(view'.orgs)
        PROVE  \/ pair \in Doubled(before.orgs)
               \/ \E j \in {pair[1], pair[2]} : <<j, view'.orgs[j].path>> \in filled'
    <3>1. CASE i \in {pair[1], pair[2]}
      BY <1>1, <1>8, <3>1
    <3>2. CASE i \notin {pair[1], pair[2]}
      <4>1. pair[1] \in DOMAIN view.orgs \ {i} /\ pair[2] \in DOMAIN view.orgs \ {i}
        BY <1>6, <2>2, <3>2 DEF Doubled
      <4>2. pair \in Doubled(view.orgs)
        BY <1>6, <2>2, <4>1 DEF Doubled
      <4> QED
        BY <1>1, <1>2, <1>6, <4>1, <4>2 DEF RowsFit
    <3> QED
      BY <3>1, <3>2
  <2>3. \A j \in DOMAIN before.orgs \ DOMAIN view.orgs : before.orgs[j].gid = None /\ j \notin trail
    BY <1>2 DEF RowsFit
  <2>4. DOMAIN view.orgs \subseteq DOMAIN before.orgs
    BY <1>2 DEF RowsFit
  <2> QED
    BY <1>1, <1>6, <2>1, <2>2, <2>3, <2>4, RowsFitNext
<1>12. (InLoop' <=> InLoop) /\ (OnTwin' <=> OnTwin) /\ Twin' = Twin /\ \A c : Pending(c)' <=> Pending(c)
  BY <1>1 DEF InLoop, OnTwin, Pending, Twin
<1>13. LoopFits' /\ TwinsStay'
  BY <1>1, <1>2, <1>3, <1>6, <1>12 DEF LoopFits, TwinsStay
<1>14. Kept(view.orgs, view.members)'
  <2>1. PICK held : held = view.members
    OBVIOUS
  <2>2. PICK rows : rows = view'.orgs
    OBVIOUS
  <2>3. Kept(rows, held)
    BY <1>2, <1>6, <2>1, <2>2 DEF Kept
  <2>4. Kept(rows, held)'
    BY <1>1, <2>3 DEF Kept, SameName
  <2> QED
    BY <1>3, <2>1, <2>2, <2>4
<1>15. ASSUME NEW c \in DOMAIN before.orgs, CleanFork(c)' PROVE Heals(c)'
  <2> DEFINE ts == TwinsOf(before.orgs, c)
             ps == {before.orgs[j].path : j \in ts}
  <2>1. CleanFork(c) /\ i # c /\ path \notin ps
    <3>1. \A f \in filled' : f[1] # c /\ f[2] \notin ps
      BY <1>1, <1>15 DEF CleanFork
    <3>2. <<i, path>> \in filled' /\ filled \subseteq filled'
      BY <1>1
    <3>3. CleanFork(c)
      BY <1>1, <1>15, <3>1, <3>2 DEF CleanFork, SameName
    <3>4. <<i, path>>[1] # c /\ <<i, path>>[2] \notin ps
      BY <3>1, <3>2
    <3> QED
      BY <3>3, <3>4
  <2>2. Heals(c) /\ i \notin ts
    BY <1>2, <1>5, <2>1 DEF TwinsOf
  <2>3. \A j \in DOMAIN view'.orgs \ (ts \cup {c}) : view'.orgs[j].path \notin ps
    <3>1. \A j \in DOMAIN view.orgs \ (ts \cup {c}) : view.orgs[j].path \notin ps
      BY <2>2 DEF Heals
    <3> QED
      BY <1>6, <1>8, <2>1, <3>1
  <2>4. Healed(view.orgs, c) => Healed(view.orgs, c)'
    BY <1>1, <1>6, <2>1 DEF Healed
  <2> QED
    BY <1>1, <1>6, <1>12, <2>2, <2>3, <2>4 DEF Heals
<1> QED
  BY <1>1, <1>9, <1>10, <1>11, <1>13, <1>14, <1>15 DEF IInv

-----------------------------------------------------------------------------
(* The theorems.                                                            *)

LEMMA StutterStep ==
    ASSUME IInv, UNCHANGED vars
    PROVE  IInv'
<1>1. UNCHANGED <<orgs, members, trail, mig, view, before, joined, filled>>
  BY DEF vars
<1>2. (InLoop' <=> InLoop) /\ (OnTwin' <=> OnTwin) /\ Twin' = Twin /\ \A c : Pending(c)' <=> Pending(c)
  BY <1>1 DEF InLoop, OnTwin, Pending, Twin
<1>3. TypeOK' /\ OneTransaction'
  BY <1>1 DEF IInv, TypeOK, Migrations, Tables, OneTransaction, Follows
<1>4. RowsFit' /\ LoopFits' /\ TwinsStay'
  BY <1>1, <1>2 DEF IInv, RowsFit, Follows, Doubled, LoopFits, TwinsStay
<1>5. Kept(view.orgs, view.members)'
  BY <1>1 DEF IInv, Kept, SameName
<1>6. ASSUME NEW c \in DOMAIN before.orgs, CleanFork(c)' PROVE Heals(c)'
  <2>1. CleanFork(c)
    BY <1>1, <1>6 DEF CleanFork, SameName
  <2>2. Heals(c)
    BY <2>1 DEF IInv
  <2> QED
    BY <1>1, <1>2, <2>2 DEF Heals, Healed
<1> QED
  BY <1>1, <1>3, <1>4, <1>5, <1>6 DEF IInv

LEMMA StepIInv ==
    ASSUME IInv, [Next]_vars
    PROVE  IInv'
<1>1. ASSUME NEW i \in DOMAIN orgs, NEW u \in Users, Join(i, u) PROVE IInv'
  BY <1>1, JoinStep
<1>2. ASSUME NEW i \in DOMAIN orgs, Append(i) PROVE IInv'
  BY <1>2, AppendStep
<1>3. ASSUME NEW i \in DOMAIN orgs, NEW path \in Paths, SetPath(i, path) PROVE IInv'
  BY <1>3, SetPathStep
<1> QED
  BY <1>1, <1>2, <1>3, BeginStep, NextCanonStep, NextTwinStep, MoveMemberStep, DeleteTwinStep, AdoptPathStep,
     AddConstraintStep, CommitStep, AbortStep, StutterStep DEF Next

\* The migration sees a consistent merge at every step, whoever writes meanwhile.
THEOREM InductiveInvariant == Spec => []IInv
<1>1. Init => IInv
  BY InitIInv
<1>2. IInv /\ [Next]_vars => IInv'
  BY StepIInv
<1> QED
  BY <1>1, <1>2, PTL DEF Spec

\* Nobody loses a membership to the migration, and nobody gains one, in the
\* tables and in what it has merged when it comes to the constraint.
THEOREM NobodyLosesMembership == Spec => []MembersKept
<1>1. ASSUME IInv PROVE MembersKept
  <2>1. TypeOK /\ OneTransaction /\ Kept(view.orgs, view.members)
    BY <1>1 DEF IInv
  <2>2. CASE mig.pc = "done"
    <3>1. orgs = view.orgs /\ members = view.members
      BY <2>1, <2>2 DEF OneTransaction
    <3> QED
      BY <2>1, <3>1 DEF MembersKept
  <2>3. CASE mig.pc # "done"
    <3>1. DOMAIN orgs = DOMAIN before.orgs /\ members = [m \in joined |-> m[1]]
      BY <2>1, <2>3 DEF OneTransaction
    <3> QED
      BY <2>1, <3>1, BaseKept DEF MembersKept
  <2> QED
    BY <2>2, <2>3
<1> QED
  BY <1>1, InductiveInvariant, PTL

\* A twin with audit entries stays as it is, with its memberships and no others,
\* also if the first entry comes while the migration moves them.
THEOREM AuditedTwinsStay == Spec => []HistoryStays
<1>1. ASSUME IInv PROVE HistoryStays
  <2>1. TypeOK /\ OneTransaction /\ RowsFit /\ TwinsStay
    BY <1>1 DEF IInv
  <2>2. ASSUME ~ OnTwin, NEW i \in trail, before.orgs[i].gid = None
        PROVE  Stays(i, view.orgs, view.members)
    <3>1. i \in DOMAIN view.orgs /\ view.orgs[i] = before.orgs[i]
      BY <2>1, <2>2 DEF RowsFit, Follows, TypeOK
    <3> QED
      BY <2>1, <2>2, <3>1 DEF Stays, TwinsStay
  <2>3. ASSUME mig.pc # "done", NEW i \in trail, before.orgs[i].gid = None
        PROVE  Stays(i, orgs, members)
    <3>1. DOMAIN orgs = DOMAIN before.orgs /\ i \in DOMAIN orgs /\ members = [m \in joined |-> m[1]]
      BY <2>1, <2>3 DEF OneTransaction, TypeOK
    <3>2. orgs[i] = before.orgs[i]
      BY <2>1, <2>3, <3>1 DEF OneTransaction, Follows
    <3> QED
      BY <3>1, <3>2 DEF Stays
  <2>4. mig.pc = "done" => orgs = view.orgs /\ members = view.members
    BY <2>1 DEF OneTransaction
  <2>5. mig.pc \in {"constrain", "done"} => ~ OnTwin
    BY DEF OnTwin
  <2> QED
    BY <2>2, <2>3, <2>4, <2>5 DEF HistoryStays
<1> QED
  BY <1>1, InductiveInvariant, PTL

\* The merge itself makes no two organizations share a path.
THEOREM MergeBreaksNoConstraint == Spec => []ConstraintHolds
<1>1. IInv => ConstraintHolds
  BY DEF IInv, RowsFit, ConstraintHolds
<1> QED
  BY <1>1, InductiveInvariant, PTL

\* A clean fork is merged when the migration comes to the constraint: one
\* organization is left of it, with its id and one of its paths.
THEOREM CleanForksMerge == Spec => []ForkMerged
<1>1. ASSUME IInv PROVE ForkMerged
  <2>1. ASSUME NEW c \in DOMAIN before.orgs, mig.pc = "constrain", CleanFork(c)
        PROVE  Healed(view.orgs, c)
    <3>1. Heals(c) /\ mig.canons = {}
      BY <1>1, <2>1 DEF IInv, LoopFits
    <3>2. ~ Pending(c)
      BY <2>1, <3>1 DEF Pending, InLoop
    <3> QED
      BY <2>1, <3>1, <3>2 DEF Heals
  <2> QED
    BY <2>1 DEF ForkMerged
<1> QED
  BY <1>1, InductiveInvariant, PTL
=============================================================================
