----------------------------- MODULE TrapLemmas -----------------------------
(***************************************************************************)
(* Lemmas on the operators of modules Trap and TrapInvariants: the windows *)
(* over the levels of nested interrupts, and what the CPU, the MMU, the    *)
(* trampolines and the switch do to the machine.                           *)
(***************************************************************************)
EXTENDS TrapInvariants, TLAPS

\* Zenon proves the leaves that do not say SMT.
USE ZenonT(30)

-----------------------------------------------------------------------------
(* The windows over the levels. *)

\* Stacks of entries: concatenation, length and elements.
LEMMA EntrySeqs ==
    /\ <<>> \in Seq(Entry) /\ \A k, l \in Seq(Entry) : k \o l \in Seq(Entry)
    /\ \A k \in Seq(Entry) : /\ Len(k) \in Nat /\ (k = <<>> <=> Len(k) = 0)
                             /\ \A n \in 1 .. Len(k) : k[n] \in Entry
<1>. HIDE DEF Entry
<1>. QED  BY SMT

\* A level with no frame in the table sees what the next one sees.
LEMMA SeesSkip ==
    ASSUME NEW c, NEW k \in Seq(Entry), NEW n \in 0 .. Len(k), ~Tabled(c, k, n), NEW x
    PROVE  Sees(c, k, n, x) <=> Sees(c, k, n + 1, x)
<1>1. Len(k) \in Nat /\ n \in Nat
  BY SMT
<1>2. \A j \in n + 1 .. Len(k) : j \in n .. Len(k) /\ \A l \in n .. j - 1 : l = n \/ l \in n + 1 .. j - 1
  BY <1>1, SMT
<1>3. \A j \in n .. Len(k) : /\ j = n \/ j \in n + 1 .. Len(k)
                             /\ \A l \in n + 1 .. j - 1 : l \in n .. j - 1
  BY <1>1, SMT
<1>. QED  BY <1>2, <1>3 DEF Sees

\* A level with a frame in the table sees that frame.
LEMMA SeesAt ==
    ASSUME NEW c, NEW k \in Seq(Entry), NEW n \in 0 .. Len(k), Tabled(c, k, n), NEW x
    PROVE  Sees(c, k, n, x) <=> x = Level(c, k, n).want
<1>1. Len(k) \in Nat /\ n \in Nat
  BY SMT
<1>2. n \in n .. Len(k) /\ \A j \in n .. Len(k) : j = n \/ n \in n .. j - 1
  BY <1>1, SMT
<1>3. \A l : l \notin n .. n - 1
  BY <1>1, SMT
<1>. QED  BY <1>2, <1>3 DEF Sees

\* What a level sees, it sees with d levels more above it.
LEMMA SeesUp ==
    ASSUME NEW c, NEW k \in Seq(Entry), NEW e, NEW g \in Seq(Entry), NEW d \in Nat,
           Len(g) = Len(k) + d, NEW n \in Nat, NEW x, Sees(c, k, n, x),
           \A j \in n .. Len(k) : Same(c, k, j, e, g, j + d)
    PROVE  Sees(e, g, n + d, x)
<1>1. Len(k) \in Nat
  BY SMT
<1>2. \A j \in n .. Len(k) : /\ Tabled(c, k, j) <=> Tabled(e, g, j + d)
                             /\ Level(c, k, j).want = Level(e, g, j + d).want
  BY DEF Same, Tabled
<1>3. \A j \in n .. Len(k) : /\ j + d \in n + d .. Len(g)
                             /\ \A l \in n .. j - 1 : l + d \in n + d .. (j + d) - 1 /\ l \in n .. Len(k)
  BY <1>1, SMT
<1>4. \A i \in n + d .. Len(g) : i - d \in n .. Len(k) /\ (i - d) + d = i
  BY <1>1, SMT
<1>5. ASSUME NEW i \in n + d .. Len(g), Tabled(e, g, i), \A l \in n + d .. i - 1 : ~Tabled(e, g, l)
      PROVE  x = Level(e, g, i).want
  <2>1. i - d \in n .. Len(k) /\ Tabled(c, k, i - d)
    BY <1>2, <1>4, <1>5
  <2>2. \A l \in n .. (i - d) - 1 : ~Tabled(c, k, l)
    BY <1>2, <1>3, <1>4, <1>5
  <2>3. x = Level(c, k, i - d).want
    BY <2>1, <2>2 DEF Sees
  <2>. QED  BY <1>2, <1>4, <2>1, <2>3
<1>6. ASSUME \A i \in n + d .. Len(g) : ~Tabled(e, g, i) PROVE x = Home
  BY <1>2, <1>3, <1>6 DEF Sees
<1>. QED  BY <1>5, <1>6 DEF Sees

\* And it saw it before they came.
LEMMA SeesDown ==
    ASSUME NEW c, NEW k \in Seq(Entry), NEW e, NEW g \in Seq(Entry), NEW d \in Nat,
           Len(g) = Len(k) + d, NEW n \in Nat, NEW x, Sees(e, g, n + d, x),
           \A j \in n .. Len(k) : Same(c, k, j, e, g, j + d)
    PROVE  Sees(c, k, n, x)
<1>1. Len(k) \in Nat
  BY SMT
<1>2. \A j \in n .. Len(k) : /\ j + d \in n + d .. Len(g)
                             /\ Tabled(c, k, j) <=> Tabled(e, g, j + d)
                             /\ Level(c, k, j).want = Level(e, g, j + d).want
  <2>1. \A j \in n .. Len(k) : j + d \in n + d .. Len(g)
    BY <1>1, SMT
  <2>. QED  BY <2>1 DEF Same, Tabled
<1>3. ASSUME NEW i \in n + d .. Len(g)
      PROVE  i - d \in n .. Len(k) /\ (Tabled(c, k, i - d) <=> Tabled(e, g, i))
  <2>1. i - d \in n .. Len(k) /\ (i - d) + d = i
    BY <1>1, SMT
  <2>. QED  BY <1>2, <2>1
<1>4. ASSUME NEW j \in n .. Len(k), Tabled(c, k, j), \A l \in n .. j - 1 : ~Tabled(c, k, l)
      PROVE  x = Level(c, k, j).want
  <2>1. ASSUME NEW l \in n + d .. (j + d) - 1 PROVE ~Tabled(e, g, l)
    <3>1. l \in n + d .. Len(g) /\ l - d \in n .. j - 1
      BY <1>1, SMT
    <3>. QED  BY <1>3, <1>4, <3>1
  <2>. QED  BY <1>2, <1>4, <2>1 DEF Sees
<1>5. ASSUME \A j \in n .. Len(k) : ~Tabled(c, k, j) PROVE x = Home
  BY <1>3, <1>5 DEF Sees
<1>. QED  BY <1>4, <1>5 DEF Sees

\* A level with no frame mapped asks of the MMU what the next one asks.
LEMMA ShownSkip ==
    ASSUME NEW c, NEW k \in Seq(Entry), NEW n \in 0 .. Len(k), ~Maps(c, k, n), NEW x
    PROVE  Shown(c, k, n, x) <=> Shown(c, k, n + 1, x)
<1>1. Len(k) \in Nat /\ n \in Nat
  BY SMT
<1>2. \A j \in n + 1 .. Len(k) : j \in n .. Len(k) /\ \A l \in n .. j - 1 : l = n \/ l \in n + 1 .. j - 1
  BY <1>1, SMT
<1>3. \A j \in n .. Len(k) : /\ j = n \/ j \in n + 1 .. Len(k)
                             /\ \A l \in n + 1 .. j - 1 : l \in n .. j - 1
  BY <1>1, SMT
<1>. QED  BY <1>2, <1>3 DEF Shown

\* A level with a frame mapped asks for that frame, unless it is torn.
LEMMA ShownAt ==
    ASSUME NEW c, NEW k \in Seq(Entry), NEW n \in 0 .. Len(k), Maps(c, k, n), NEW x
    PROVE  Shown(c, k, n, x) <=> Level(c, k, n).torn \/ x = Level(c, k, n).want
<1>1. Len(k) \in Nat /\ n \in Nat
  BY SMT
<1>2. n \in n .. Len(k) /\ \A j \in n .. Len(k) : j = n \/ n \in n .. j - 1
  BY <1>1, SMT
<1>3. \A l : l \notin n .. n - 1
  BY <1>1, SMT
<1>. QED  BY <1>2, <1>3 DEF Shown

\* What the levels ask of the MMU does not depend on how many are above.
LEMMA ShownShift ==
    ASSUME NEW c, NEW k \in Seq(Entry), NEW e, NEW g \in Seq(Entry), NEW d \in Int,
           Len(g) = Len(k) + d, NEW n \in Nat, n + d \in Nat, NEW x, Shown(c, k, n, x),
           \A j \in n .. Len(k) : /\ Same(c, k, j, e, g, j + d)
                                  /\ Level(c, k, j).torn => Level(e, g, j + d).torn
    PROVE  Shown(e, g, n + d, x)
<1>1. Len(k) \in Nat
  BY SMT
<1>. SUFFICES ASSUME NEW i \in n + d .. Len(g), Maps(e, g, i), \A l \in n + d .. i - 1 : ~Maps(e, g, l)
              PROVE  Level(e, g, i).torn \/ x = Level(e, g, i).want
  BY DEF Shown
<1>2. i - d \in n .. Len(k) /\ (i - d) + d = i
  BY <1>1, SMT
<1>3. /\ Maps(c, k, i - d) /\ Level(c, k, i - d).want = Level(e, g, i).want
      /\ Level(c, k, i - d).torn => Level(e, g, i).torn
  BY <1>2 DEF Same, Maps
<1>4. ASSUME NEW l \in n .. (i - d) - 1 PROVE ~Maps(c, k, l)
  <2>1. l \in n .. Len(k) /\ l + d \in n + d .. i - 1
    BY <1>1, SMT
  <2>. QED  BY <2>1 DEF Same, Maps
<1>. QED  BY <1>2, <1>3, <1>4 DEF Shown

\* Code that unmaps its window stores what the next level sees: that is right for
\* whoever has the window mapped, if the interrupt that tore it is marked.
LEMMA SeesShown ==
    ASSUME NEW c, NEW k \in Seq(Entry), NEW x, Sees(c, k, 1, x), TornBelow(c, k)
    PROVE  Shown(c, k, 1, x)
<1>1. Len(k) \in Nat
  BY SMT
<1>. SUFFICES ASSUME NEW j \in 1 .. Len(k), Maps(c, k, j), \A l \in 1 .. j - 1 : ~Maps(c, k, l)
              PROVE  Level(c, k, j).torn \/ x = Level(c, k, j).want
  BY DEF Shown
<1>2. CASE Level(c, k, j).win = "hw"
  BY <1>2 DEF TornBelow
<1>3. CASE \E l \in 1 .. j - 1 : Level(c, k, l).win = "unhw"
  <2>1. PICK l \in 1 .. j - 1 : Level(c, k, l).win = "unhw"
    BY <1>3
  <2>2. l \in 1 .. Len(k) /\ j \in l + 1 .. Len(k)
    BY <1>1, SMT
  <2>. QED  BY <2>1, <2>2 DEF TornBelow
<1>4. CASE Level(c, k, j).win # "hw" /\ ~\E l \in 1 .. j - 1 : Level(c, k, l).win = "unhw"
  <2>1. Tabled(c, k, j) /\ \A l \in 1 .. j - 1 : ~Tabled(c, k, l)
    BY <1>4 DEF Maps, Tabled
  <2>. QED  BY <2>1 DEF Sees
<1>. QED  BY <1>2, <1>3, <1>4

\* What lies below the running code does not depend on it.
LEMMA Below ==
    ASSUME NEW c, NEW e, NEW k \in Seq(Entry)
    PROVE  /\ \A n \in 1 .. Len(k) : Level(c, k, n) = Level(e, k, n) /\ Level(c, k, n) = k[n].pc
           /\ \A n \in Nat \ {0} : \A x : Sees(c, k, n, x) <=> Sees(e, k, n, x)
           /\ \A x : Shown(c, k, 1, x) => Shown(e, k, 1, x)
           /\ TornBelow(c, k) <=> TornBelow(e, k)
<1>1. Len(k) \in Nat
  BY SMT
<1>2. \A n \in Nat \ {0} : Level(c, k, n) = k[n].pc /\ Level(e, k, n) = k[n].pc
  BY DEF Level
<1>3. \A n \in 1 .. Len(k) : n \in Nat \ {0} /\ \A j \in n + 1 .. Len(k) : j \in Nat \ {0}
  BY <1>1, SMT
<1>4. ASSUME NEW n \in Nat \ {0}, NEW x PROVE Sees(c, k, n, x) <=> Sees(e, k, n, x)
  <2>1. \A j \in n .. Len(k) : j \in Nat \ {0} /\ \A l \in n .. j - 1 : l \in Nat \ {0}
    BY <1>1, SMT
  <2>2. \A j \in n .. Len(k) : /\ Level(c, k, j) = Level(e, k, j)
                               /\ \A l \in n .. j - 1 : Level(c, k, l) = Level(e, k, l)
    BY <1>2, <2>1
  <2>. QED  BY <2>2 DEF Sees, Tabled
<1>5. ASSUME NEW x, Shown(c, k, 1, x) PROVE Shown(e, k, 1, x)
  <2>1. \A j \in 1 .. Len(k) : Level(c, k, j) = Level(e, k, j) /\ \A l \in 1 .. j - 1 : Level(c, k, l) = Level(e, k, l)
    <3>1. \A j \in 1 .. Len(k) : \A l \in 1 .. j - 1 : l \in Nat \ {0}
      BY <1>1, SMT
    <3>. QED  BY <1>2, <1>3, <3>1
  <2>. QED  BY <1>5, <2>1 DEF Shown, Maps
<1>6. TornBelow(c, k) <=> TornBelow(e, k)
  BY <1>2, <1>3 DEF TornBelow
<1>. QED  BY <1>2, <1>3, <1>4, <1>5, <1>6

\* The windows, seen from the running code: its own part, and the levels below it.
LEMMA WindowsTop ==
    ASSUME NEW c, NEW k \in Seq(Entry), NEW x, NEW y, NEW z
    PROVE  WindowsOK(c, k, x, y, z) <=> TopOK(c, k, x, y, z)
<1>1. Len(k) \in Nat
  BY SMT
<1>2. 0 \in 0 .. Len(k) /\ 0 + 1 = 1 /\ \A n \in 0 .. Len(k) : n = 0 \/ n \in 1 .. Len(k)
  BY <1>1, SMT
<1>3. \A n \in 1 .. Len(k) : n \in 0 .. Len(k)
  BY <1>1, SMT
<1>4. Level(c, k, 0) = c /\ \A n \in 1 .. Len(k) : Level(c, k, n) = k[n].pc
  BY Below DEF Level
<1>5. Sees(c, k, 0, y) <=> IF c.win \in {"table", "mapped", "unhw"} THEN y = c.want ELSE Sees(c, k, 1, y)
  <2>1. Tabled(c, k, 0) <=> c.win \in {"table", "mapped", "unhw"}
    BY <1>4 DEF Tabled
  <2>0. Tabled(c, k, 0) => (Sees(c, k, 0, y) <=> y = Level(c, k, 0).want)
    BY <1>2, SeesAt
  <2>2. Tabled(c, k, 0) => (Sees(c, k, 0, y) <=> y = c.want)
    BY <1>4, <2>0
  <2>3. ~Tabled(c, k, 0) => (Sees(c, k, 0, y) <=> Sees(c, k, 0 + 1, y))
    BY <1>2, SeesSkip
  <2>. QED  BY <1>2, <2>1, <2>2, <2>3
<1>6. Shown(c, k, 0, x) <=> IF c.win \in {"hw", "table", "mapped"} THEN c.torn \/ x = c.want ELSE Shown(c, k, 1, x)
  <2>1. Maps(c, k, 0) <=> c.win \in {"hw", "table", "mapped"}
    BY <1>4 DEF Maps
  <2>0. Maps(c, k, 0) => (Shown(c, k, 0, x) <=> Level(c, k, 0).torn \/ x = Level(c, k, 0).want)
    BY <1>2, ShownAt
  <2>2. Maps(c, k, 0) => (Shown(c, k, 0, x) <=> c.torn \/ x = c.want)
    BY <1>4, <2>0
  <2>3. ~Maps(c, k, 0) => (Shown(c, k, 0, x) <=> Shown(c, k, 0 + 1, x))
    BY <1>2, ShownSkip
  <2>. QED  BY <1>2, <2>1, <2>2, <2>3
<1>7. Restores(c, k) <=>
         /\ c.win # "idle" => Sees(c, k, 1, c.old)
         /\ \A n \in 1 .. Len(k) : k[n].pc.win # "idle" => Sees(c, k, n + 1, k[n].pc.old)
  <2>1. ASSUME Restores(c, k), c.win # "idle" PROVE Sees(c, k, 1, c.old)
    BY <1>2, <1>4, <2>1 DEF Restores
  <2>2. ASSUME Restores(c, k), NEW n \in 1 .. Len(k), k[n].pc.win # "idle" PROVE Sees(c, k, n + 1, k[n].pc.old)
    BY <1>3, <1>4, <2>2 DEF Restores
  <2>3. ASSUME c.win # "idle" => Sees(c, k, 1, c.old), NEW n \in 0 .. Len(k),
               \A l \in 1 .. Len(k) : k[l].pc.win # "idle" => Sees(c, k, l + 1, k[l].pc.old),
               Level(c, k, n).win # "idle"
        PROVE  Sees(c, k, n + 1, Level(c, k, n).old)
    <3>1. CASE n = 0
      BY <1>2, <1>4, <2>3, <3>1
    <3>2. CASE n \in 1 .. Len(k)
      BY <1>4, <2>3, <3>2
    <3>. QED  BY <1>2, <3>1, <3>2
  <2>. QED  BY <2>1, <2>2, <2>3 DEF Restores
<1>8. (\A n \in 0 .. Len(k) : Level(c, k, n).win = "idle") <=>
         c.win = "idle" /\ (\A n \in 1 .. Len(k) : k[n].pc.win = "idle")
  BY <1>2, <1>3, <1>4
<1>. QED  BY <1>5, <1>6, <1>7, <1>8 DEF WindowsOK, TopOK

\* Idle code on top of the levels changes nothing, if the one it interrupted and
\* those below are marked where the interrupt tore a mapping.
LEMMA WindowsShift ==
    ASSUME NEW c, NEW k \in Seq(Entry), NEW e, NEW g \in Seq(Entry), NEW x, NEW y, NEW z,
           Len(g) = Len(k) + 1, \A n \in 0 .. Len(k) : Level(e, g, n + 1) = Level(c, k, n),
           e.win = "idle"
    PROVE  WindowsOK(e, g, x, y, z) <=>
              /\ WindowsOK(c, k, x, y, z)
              /\ c.win = "hw" => c.torn
              /\ c.win = "unhw" => \A n \in 1 .. Len(k) : k[n].pc.torn
<1>1. Len(k) \in Nat
  BY SMT
<1>2. /\ Level(c, k, 0) = c /\ Level(e, g, 0) = e
      /\ \A n \in 1 .. Len(k) : Level(c, k, n) = k[n].pc
  BY Below, ZenonT(120) DEF Level
<1>3. \A n \in 0 .. Len(k) + 1 : \A w : Sees(c, k, n, w) <=> Sees(e, g, n + 1, w)
  <2>. SUFFICES ASSUME NEW n \in 0 .. Len(k) + 1, NEW w PROVE Sees(c, k, n, w) <=> Sees(e, g, n + 1, w)
    OBVIOUS
  <2>1. n \in Nat /\ 1 \in Nat /\ \A j \in n .. Len(k) : j \in 0 .. Len(k)
    BY <1>1, SMT
  <2>2. \A j \in n .. Len(k) : Same(c, k, j, e, g, j + 1)
    BY <2>1 DEF Same
  <2>3. ASSUME Sees(c, k, n, w) PROVE Sees(e, g, n + 1, w)
    BY <2>1, <2>2, <2>3, SeesUp
  <2>4. ASSUME Sees(e, g, n + 1, w) PROVE Sees(c, k, n, w)
    BY <2>1, <2>2, <2>4, SeesDown
  <2>. QED  BY <2>3, <2>4
<1>4. Sees(e, g, 0, y) <=> Sees(c, k, 0, y)
  <2>1. 0 \in 0 .. Len(g) /\ 0 + 1 = 1 /\ 0 \in 0 .. Len(k) + 1
    BY <1>1, SMT
  <2>2. ~Tabled(e, g, 0)
    BY <1>2 DEF Tabled
  <2>. QED  BY <1>3, <2>1, <2>2, SeesSkip
<1>5. Shown(e, g, 0, x) <=> Shown(c, k, 0, x)
  <2>1. 0 \in 0 .. Len(g) /\ 0 + 1 = 1 /\ 0 \in Nat /\ 1 \in Nat /\ 1 \in Int /\ 0 \in Int
    BY <1>1, SMT
  <2>2. Shown(e, g, 0, x) <=> Shown(e, g, 0 + 1, x)
    BY <1>2, <2>1, ShownSkip DEF Maps
  <2>3. ASSUME Shown(c, k, 0, x) PROVE Shown(e, g, 0 + 1, x)
    <3>1. \A j \in 0 .. Len(k) : /\ Same(c, k, j, e, g, j + 1)
                                 /\ Level(c, k, j).torn => Level(e, g, j + 1).torn
      BY DEF Same
    <3>. QED  BY <2>1, <2>3, <3>1, ShownShift
  <2>4. ASSUME Shown(e, g, 1, x) PROVE Shown(c, k, 0, x)
    <3>1. -1 \in Int /\ 1 + (-1) = 0 /\ Len(k) = Len(g) + (-1)
      BY <1>1, SMT
    <3>2. ASSUME NEW j \in 1 .. Len(g)
          PROVE  /\ Same(e, g, j, c, k, j + (-1))
                 /\ Level(e, g, j).torn => Level(c, k, j + (-1)).torn
      <4>1. j + (-1) \in 0 .. Len(k) /\ (j + (-1)) + 1 = j
        BY <1>1, SMT
      <4>. QED  BY <4>1 DEF Same
    <3>. QED  BY <2>1, <2>4, <3>1, <3>2, ShownShift, SMTT(30)
  <2>. QED  BY <2>1, <2>2, <2>3, <2>4
<1>6. Restores(e, g) <=> Restores(c, k)
  <2>1. ASSUME Restores(e, g), NEW n \in 0 .. Len(k), Level(c, k, n).win # "idle"
        PROVE  Sees(c, k, n + 1, Level(c, k, n).old)
    <3>1. n + 1 \in 0 .. Len(g) /\ n + 1 \in 0 .. Len(k) + 1
      BY <1>1, SMT
    <3>2. Sees(e, g, (n + 1) + 1, Level(e, g, n + 1).old)
      BY <2>1, <3>1 DEF Restores
    <3>. QED  BY <1>3, <3>1, <3>2
  <2>2. ASSUME Restores(c, k), NEW n \in 0 .. Len(g), Level(e, g, n).win # "idle"
        PROVE  Sees(e, g, n + 1, Level(e, g, n).old)
    <3>1. n # 0
      BY <1>2, <2>2
    <3>2. n - 1 \in 0 .. Len(k) /\ (n - 1) + 1 = n /\ n \in 0 .. Len(k) + 1
      BY <1>1, <3>1, SMT
    <3>3. Level(e, g, n) = Level(c, k, n - 1)
      BY <3>2
    <3>4. Sees(c, k, n, Level(c, k, n - 1).old)
      BY <2>2, <3>2, <3>3 DEF Restores
    <3>. QED  BY <1>3, <3>2, <3>3, <3>4
  <2>. QED  BY <2>1, <2>2 DEF Restores
<1>7. TornBelow(e, g) <=> /\ TornBelow(c, k) /\ (c.win = "hw" => c.torn)
                          /\ c.win = "unhw" => \A n \in 1 .. Len(k) : k[n].pc.torn
  <2>1. \A n \in 0 .. Len(k) : n + 1 \in 1 .. Len(g) /\ \A j \in n + 1 .. Len(k) : j \in 0 .. Len(k) /\ j + 1 \in (n + 1) + 1 .. Len(g)
    BY <1>1, SMT
  <2>2. \A n \in 1 .. Len(g) : /\ n - 1 \in 0 .. Len(k) /\ (n - 1) + 1 = n /\ (n - 1 # 0 => n - 1 \in 1 .. Len(k))
                               /\ \A j \in n + 1 .. Len(g) : /\ j - 1 \in 1 .. Len(k) /\ j - 1 \in (n - 1) + 1 .. Len(k)
                                                             /\ (j - 1) + 1 = j
    BY <1>1, SMT
  <2>3. 0 \in 0 .. Len(k) /\ 0 + 1 = 1 /\ \A n \in 1 .. Len(k) : n \in 0 .. Len(k) /\ n \in 0 + 1 .. Len(k)
    BY <1>1, SMT
  <2>4. ASSUME TornBelow(e, g), NEW n \in 0 .. Len(k)
        PROVE  /\ Level(c, k, n).win = "hw" => Level(c, k, n).torn
               /\ Level(c, k, n).win = "unhw" => \A j \in n + 1 .. Len(k) : Level(c, k, j).torn
    <3>1. Level(e, g, n + 1) = Level(c, k, n) /\ n + 1 \in 1 .. Len(g)
      BY <2>1
    <3>2. \A j \in n + 1 .. Len(k) : j + 1 \in (n + 1) + 1 .. Len(g) /\ Level(e, g, j + 1) = Level(c, k, j)
      BY <2>1
    <3>. QED  BY <2>4, <3>1, <3>2 DEF TornBelow
  <2>5. TornBelow(e, g) => /\ TornBelow(c, k) /\ (c.win = "hw" => c.torn)
                           /\ c.win = "unhw" => \A n \in 1 .. Len(k) : k[n].pc.torn
    BY <1>2, <2>3, <2>4 DEF TornBelow
  <2>6. ASSUME TornBelow(c, k), c.win = "hw" => c.torn,
               c.win = "unhw" => \A n \in 1 .. Len(k) : k[n].pc.torn,
               NEW n \in 1 .. Len(g)
        PROVE  /\ Level(e, g, n).win = "hw" => Level(e, g, n).torn
               /\ Level(e, g, n).win = "unhw" => \A j \in n + 1 .. Len(g) : Level(e, g, j).torn
    <3>1. Level(e, g, n) = Level(c, k, n - 1)
      <4>1. Level(e, g, (n - 1) + 1) = Level(c, k, n - 1)
        BY <2>2
      <4>. QED  BY <2>2, <4>1
    <3>2. \A j \in n + 1 .. Len(g) : /\ Level(e, g, j) = Level(c, k, j - 1) /\ Level(e, g, j) = k[j - 1].pc
                                     /\ j - 1 \in 1 .. Len(k) /\ j - 1 \in (n - 1) + 1 .. Len(k)
      BY <1>2, <2>2, <2>3
    <3>3. CASE n - 1 = 0
      BY <1>2, <2>6, <3>1, <3>2, <3>3
    <3>4. CASE n - 1 # 0
      <4>1. n - 1 \in 1 .. Len(k)
        BY <2>2, <3>4
      <4>2. /\ Level(c, k, n - 1).win = "hw" => Level(c, k, n - 1).torn
            /\ Level(c, k, n - 1).win = "unhw" => \A j \in (n - 1) + 1 .. Len(k) : Level(c, k, j).torn
        BY <2>6, <4>1 DEF TornBelow
      <4>. QED  BY <3>1, <3>2, <4>2
    <3>. QED  BY <3>3, <3>4
  <2>. QED  BY <2>5, <2>6 DEF TornBelow
<1>8. (\A n \in 0 .. Len(g) : Level(e, g, n).win = "idle") <=> (\A n \in 0 .. Len(k) : Level(c, k, n).win = "idle")
  <2>1. \A n \in 0 .. Len(k) : n + 1 \in 0 .. Len(g)
    BY <1>1, SMT
  <2>2. ASSUME NEW n \in 0 .. Len(g) PROVE n = 0 \/ \E j \in 0 .. Len(k) : n = j + 1
    <3>1. n = 0 \/ (n - 1 \in 0 .. Len(k) /\ n = (n - 1) + 1)
      BY <1>1, SMT
    <3>. QED  BY <3>1
  <2>3. ASSUME \A n \in 0 .. Len(g) : Level(e, g, n).win = "idle", NEW n \in 0 .. Len(k)
        PROVE  Level(c, k, n).win = "idle"
    BY <2>1, <2>3
  <2>4. ASSUME \A n \in 0 .. Len(k) : Level(c, k, n).win = "idle", NEW n \in 0 .. Len(g)
        PROVE  Level(e, g, n).win = "idle"
    BY <1>2, <2>2, <2>4
  <2>. QED  BY <2>3, <2>4
<1>. QED  BY <1>4, <1>5, <1>6, <1>7, <1>8 DEF WindowsOK

\* An interrupt handler starts with the windows as they were.
LEMMA WindowsUp ==
    ASSUME NEW c, NEW k \in Seq(Entry), NEW e, NEW g \in Seq(Entry), NEW x, NEW y, NEW z,
           Len(g) = Len(k) + 1, \A n \in 0 .. Len(k) : Level(e, g, n + 1) = Level(c, k, n),
           e.win = "idle", WindowsOK(c, k, x, y, z), c.win = "hw" => c.torn,
           c.win = "unhw" => \A n \in 1 .. Len(k) : k[n].pc.torn
    PROVE  WindowsOK(e, g, x, y, z)
BY WindowsShift, SMT

\* And leaves them as they were for the code it interrupted.
LEMMA WindowsDown ==
    ASSUME NEW c, NEW k \in Seq(Entry), NEW e, NEW g \in Seq(Entry), NEW x, NEW y, NEW z,
           Len(g) = Len(k) + 1, \A n \in 0 .. Len(k) : Level(e, g, n + 1) = Level(c, k, n),
           e.win = "idle", WindowsOK(e, g, x, y, z)
    PROVE  WindowsOK(c, k, x, y, z)
<1>1. WindowsOK(e, g, x, y, z) <=> /\ WindowsOK(c, k, x, y, z)
                                   /\ c.win = "hw" => c.torn
                                   /\ c.win = "unhw" => \A n \in 1 .. Len(k) : k[n].pc.torn
  BY WindowsShift, SMTT(30)
<1>. QED  BY <1>1

\* Each store of mmu_map_window() and mmu_unmap_window() keeps the windows right.
LEMMA WindowStep ==
    ASSUME NEW c, NEW e, NEW k \in Seq(Entry), NEW x, NEW y, NEW z, NEW u, NEW v, NEW w,
           WindowsOK(c, k, x, y, z), Moves(c, e, x, y, z, u, v, w)
    PROVE  WindowsOK(e, k, u, v, w)
<1>1. TopOK(c, k, x, y, z)
  BY WindowsTop
<1>2. Len(k) \in Nat
  BY SMT
<1>3. \A n \in 1 .. Len(k) : n + 1 \in Nat \ {0}
  BY <1>2, SMT
<1>4. 1 \in Nat \ {0}
  BY SMT
<1>5. /\ \A q : Sees(c, k, 1, q) => Sees(e, k, 1, q)
      /\ \A q : Shown(c, k, 1, q) => Shown(e, k, 1, q)
      /\ TornBelow(e, k)
      /\ \A n \in 1 .. Len(k) : k[n].pc.win # "idle" => Sees(e, k, n + 1, k[n].pc.old)
  <2>1. \A n \in Nat \ {0} : \A q : Sees(c, k, n, q) <=> Sees(e, k, n, q)
    BY Below
  <2>2. (\A q : Shown(c, k, 1, q) => Shown(e, k, 1, q)) /\ (TornBelow(c, k) <=> TornBelow(e, k))
    BY Below
  <2>. QED  BY <1>1, <1>3, <1>4, <2>1, <2>2 DEF TopOK
<1>6. /\ IF e.win \in {"table", "mapped", "unhw"} THEN v = e.want ELSE Sees(e, k, 1, v)
      /\ e.win # "idle" => Sees(e, k, 1, e.old)
  BY <1>1, <1>5 DEF TopOK, Moves
<1>7. IF e.win \in {"hw", "table", "mapped"} THEN e.torn \/ u = e.want ELSE Shown(e, k, 1, u)
  <2>1. CASE c.win = "mapped" /\ e.win = "unhw" /\ u = c.old
    <3>1. Sees(c, k, 1, u) /\ TornBelow(c, k)
      BY <1>1, <2>1 DEF TopOK
    <3>2. Shown(c, k, 1, u)
      BY <3>1, SeesShown
    <3>. QED  BY <1>5, <2>1, <3>2
  <2>2. CASE ~(c.win = "mapped" /\ e.win = "unhw" /\ u = c.old)
    BY <1>1, <1>5, <2>2 DEF TopOK, Moves
  <2>. QED  BY <2>1, <2>2
<1>8. ASSUME e.win = "idle", \A n \in 1 .. Len(k) : k[n].pc.win = "idle" PROVE w = Home
  <2>1. CASE c.win = "idle" /\ w = z
    BY <1>1, <1>8, <2>1 DEF TopOK
  <2>2. CASE c.win = "untable" /\ w = c.old
    <3>1. Sees(c, k, 1, w)
      BY <1>1, <2>2 DEF TopOK
    <3>2. \A n \in 1 .. Len(k) : Level(c, k, n) = k[n].pc
      BY Below
    <3>3. \A n \in 1 .. Len(k) : ~Tabled(c, k, n)
      BY <1>8, <3>2 DEF Tabled
    <3>. QED  BY <3>1, <3>3 DEF Sees
  <2>. QED  BY <1>8, <2>1, <2>2 DEF Moves
<1>9. TopOK(e, k, u, v, w)
  BY <1>5, <1>6, <1>7, <1>8 DEF TopOK
<1>. QED  BY <1>9, WindowsTop

\* Kernel code at a label, outside the window.
LEMMA CodeType == ASSUME NEW l \in Labels PROVE Code(l) \in CodeAt /\ Code(l).at = l /\ Code(l).win = "idle"
BY SMT DEF Code, CodeAt, Windows, Frame

\* What the CPU pushes is a stack entry.
LEMMA EntryType ==
    ASSUME NEW c \in CodeAt \cup UserAt, NEW i \in BOOLEAN, NEW b \in BOOLEAN
    PROVE  [pc |-> c, i |-> i, b |-> b] \in Entry
BY DEF Entry

\* Marking a mapping as torn keeps the windows right.
LEMMA Tear ==
    ASSUME NEW c, NEW k \in Seq(Entry), NEW e, NEW g \in Seq(Entry), NEW x, NEW y, NEW z,
           Len(g) = Len(k), WindowsOK(c, k, x, y, z),
           \A n \in 0 .. Len(k) : /\ Same(c, k, n, e, g, n) /\ Level(c, k, n).old = Level(e, g, n).old
                                  /\ Level(c, k, n).torn => Level(e, g, n).torn
    PROVE  WindowsOK(e, g, x, y, z)
<1>1. Len(k) \in Nat
  BY SMT
<1>2. \A n \in 0 .. Len(k) :
         /\ Level(c, k, n).win = Level(e, g, n).win /\ Level(c, k, n).want = Level(e, g, n).want
         /\ Level(c, k, n).old = Level(e, g, n).old /\ (Level(c, k, n).torn => Level(e, g, n).torn)
         /\ Tabled(c, k, n) <=> Tabled(e, g, n)
  BY DEF Same, Tabled
<1>3. ASSUME NEW n \in 0 .. Len(k) + 1, NEW w, Sees(c, k, n, w) PROVE Sees(e, g, n, w)
  <2>1. \A j \in n .. Len(k) : j \in 0 .. Len(k) /\ \A l \in n .. j - 1 : l \in 0 .. Len(k)
    BY <1>1, SMT
  <2>. QED  BY <1>2, <1>3, <2>1 DEF Sees
<1>4. ASSUME NEW w, Shown(c, k, 0, w) PROVE Shown(e, g, 0, w)
  <2>1. \A j \in 0 .. Len(k) : \A l \in 0 .. j - 1 : l \in 0 .. Len(k)
    BY <1>1, SMT
  <2>2. \A n \in 0 .. Len(k) : Maps(c, k, n) <=> Maps(e, g, n)
    BY <1>2 DEF Maps
  <2>. QED  BY <1>2, <1>4, <2>1, <2>2 DEF Shown
<1>5. Restores(e, g)
  <2>1. \A n \in 0 .. Len(k) : n + 1 \in 0 .. Len(k) + 1
    BY <1>1, SMT
  <2>. QED  BY <1>2, <1>3, <2>1 DEF WindowsOK, Restores
<1>6. TornBelow(e, g)
  <2>1. \A n \in 1 .. Len(k) : n \in 0 .. Len(k) /\ \A j \in n + 1 .. Len(k) : j \in 0 .. Len(k)
    BY <1>1, SMT
  <2>. QED  BY <1>2, <2>1 DEF WindowsOK, TornBelow
<1>7. 0 \in 0 .. Len(k) + 1
  BY <1>1, SMT
<1>. QED  BY <1>2, <1>3, <1>4, <1>5, <1>6, <1>7 DEF WindowsOK

\* An interrupt above code c and stack k: the handler is one level more.
LEMMA IrqAbove ==
    ASSUME NEW c \in CodeAt, NEW k \in Seq(Entry), NEW x, NEW y, NEW z, NEW i \in BOOLEAN,
           LevelsOK(c, k), WindowsOK(c, k, x, y, z), c.at \in Busy \cup {"vector_rti"},
           c.win = "hw" => c.torn, c.win = "unhw" => \A n \in 1 .. Len(k) : k[n].pc.torn,
           NEW g, g = <<[pc |-> c, i |-> i, b |-> FALSE]>> \o k
    PROVE  LevelsOK(Code("kernel_vector"), g) /\ WindowsOK(Code("kernel_vector"), g, x, y, z)
<1>. DEFINE a == [pc |-> c, i |-> i, b |-> FALSE]
            e == Code("kernel_vector")
<1>1. a \in Entry /\ a.pc = c
  BY EntryType
<1>2. e.at = "kernel_vector" /\ e.win = "idle"
  BY CodeType DEF Labels
<1>3. g = <<a>> \o k
  OBVIOUS
<1>. HIDE DEF a, e
<1>4. /\ g \in Seq(Entry) /\ Len(g) = Len(k) + 1 /\ Len(k) \in Nat /\ g[1] = a
      /\ \A n \in 1 .. Len(k) : g[n + 1] = k[n]
  BY ONLY <1>1, <1>3, k \in Seq(Entry), SMT
<1>5. LevelsOK(e, g)
  <2>1. g # <<>>
    <3>1. Len(g) # Len(<<>>)
      BY <1>4, SMT
    <3>. QED  BY <3>1
  <2>2. ASSUME NEW n \in 1 .. Len(g)
        PROVE  /\ g[n].pc \in CodeAt
               /\ g[n].pc.at \in IF n = Len(g) THEN {"prologue", "kernel", "top"}
                                 ELSE {"nested", "vector_rti"}
               /\ g[n].pc.at = "vector_rti" => g[n].pc.win = "idle"
    <3>1. CASE n = 1
      <4>1. g[n].pc = c
        BY <1>1, <1>4, <3>1
      <4>2. c.at = "vector_rti" => c.win = "idle"
        BY DEF LevelsOK
      <4>3. CASE k = <<>>
        <5>1. n = Len(g)
          BY <1>4, <3>1, <4>3, SMT
        <5>2. c.at \notin Above
          BY <4>3 DEF LevelsOK
        <5>3. c.at \in {"prologue", "kernel", "top"}
          BY <5>2 DEF Above, Busy
        <5>. QED  BY <4>1, <4>2, <5>1, <5>3
      <4>4. CASE k # <<>>
        <5>1. n # Len(g)
          <6>1. Len(k) # 0
            BY <4>4, EntrySeqs
          <6>. QED  BY <1>4, <3>1, <6>1, SMT
        <5>2. c.at \notin Base
          BY <4>4 DEF LevelsOK
        <5>3. c.at \in {"nested", "vector_rti"}
          BY <5>2 DEF Base, Busy
        <5>. QED  BY <4>1, <4>2, <5>1, <5>3
      <4>. QED  BY <4>3, <4>4
    <3>2. CASE n # 1
      <4>1. n - 1 \in 1 .. Len(k) /\ (n - 1) + 1 = n /\ (n = Len(g) <=> n - 1 = Len(k))
        BY <1>4, <3>2, SMT
      <4>2. g[n] = k[n - 1]
        BY <1>4, <4>1
      <4>. QED  BY <4>1, <4>2 DEF LevelsOK
    <3>. QED  BY <3>1, <3>2
  <2>3. "kernel_vector" \notin Base
    BY DEF Base
  <2>. QED  BY <1>2, <2>1, <2>2, <2>3 DEF LevelsOK
<1>6. \A n \in 0 .. Len(k) : Level(e, g, n + 1) = Level(c, k, n)
  <2>. SUFFICES ASSUME NEW n \in 0 .. Len(k) PROVE Level(e, g, n + 1) = Level(c, k, n)
    OBVIOUS
  <2>1. n + 1 # 0
    BY <1>4, SMT
  <2>2. CASE n = 0
    <3>1. n + 1 = 1
      BY <2>2, SMT
    <3>. QED  BY <1>1, <1>4, <2>1, <2>2, <3>1 DEF Level
  <2>3. CASE n # 0
    <3>1. n \in 1 .. Len(k)
      BY <1>4, <2>3, SMT
    <3>. QED  BY <1>4, <2>1, <2>3, <3>1 DEF Level
  <2>. QED  BY <2>2, <2>3
<1>7. WindowsOK(e, g, x, y, z)
  BY ONLY <1>2, <1>4, <1>6, k \in Seq(Entry), WindowsOK(c, k, x, y, z), c.win = "hw" => c.torn,
          c.win = "unhw" => \A n \in 1 .. Len(k) : k[n].pc.torn, WindowsUp
<1>. QED  BY <1>5, <1>7 DEF e

\* The RTI of a nested interrupt: back to the code it interrupted.
LEMMA IrqBelow ==
    ASSUME NEW c, NEW k \in Seq(Entry), NEW x, NEW y, NEW z,
           LevelsOK(c, k), WindowsOK(c, k, x, y, z), c.at \in Above, c.win = "idle"
    PROVE  /\ Head(k) \in Entry /\ Head(k).pc \in CodeAt /\ Head(k).pc.at \in Base \cup Above
           /\ Tail(k) \in Seq(Entry)
           /\ LevelsOK(Head(k).pc, Tail(k)) /\ WindowsOK(Head(k).pc, Tail(k), x, y, z)
<1>. DEFINE e == Head(k).pc
            g == Tail(k)
<1>1. k # <<>>
  BY DEF LevelsOK
<1>2. /\ g \in Seq(Entry) /\ Len(k) = Len(g) + 1 /\ Len(g) \in Nat /\ Head(k) = k[1] /\ Head(k) \in Entry
      /\ \A n \in 1 .. Len(g) : g[n] = k[n + 1]
  BY ONLY <1>1, k \in Seq(Entry), SMT
<1>3. e = k[1].pc
  BY <1>2
<1>. HIDE DEF e, g
<1>4. 1 \in 1 .. Len(k)
  BY <1>2, SMT
<1>5. /\ e \in CodeAt /\ (e.at = "vector_rti" => e.win = "idle")
      /\ e.at \in IF 1 = Len(k) THEN {"prologue", "kernel", "top"} ELSE {"nested", "vector_rti"}
  BY <1>3, <1>4 DEF LevelsOK
<1>6. e.at \in Base => g = <<>>
  <2>1. e.at \in Base => 1 = Len(k)
    BY <1>5 DEF Base
  <2>2. 1 = Len(k) => Len(g) = 0
    BY <1>2, SMT
  <2>. QED  BY <1>2, <2>1, <2>2, EntrySeqs
<1>7. e.at \in Above => g # <<>>
  <2>1. e.at \in Above => 1 # Len(k)
    BY <1>5 DEF Above
  <2>2. g = <<>> => 1 = Len(k)
    BY <1>2, SMT
  <2>. QED  BY <2>1, <2>2
<1>8. LevelsOK(e, g)
  <2>1. ASSUME NEW n \in 1 .. Len(g)
        PROVE  /\ g[n].pc \in CodeAt
               /\ g[n].pc.at \in IF n = Len(g) THEN {"prologue", "kernel", "top"}
                                 ELSE {"nested", "vector_rti"}
               /\ g[n].pc.at = "vector_rti" => g[n].pc.win = "idle"
    <3>1. n + 1 \in 1 .. Len(k) /\ (n = Len(g) <=> n + 1 = Len(k))
      BY <1>2, SMT
    <3>2. g[n] = k[n + 1]
      BY <1>2
    <3>. QED  BY <3>1, <3>2 DEF LevelsOK
  <2>2. e.at \in {"epilogue", "kernel_vector", "vector_rti"} => e.win = "idle"
    BY <1>5
  <2>. QED  BY <1>6, <1>7, <2>1, <2>2 DEF LevelsOK
<1>9. \A n \in 0 .. Len(g) : Level(c, k, n + 1) = Level(e, g, n)
  <2>. SUFFICES ASSUME NEW n \in 0 .. Len(g) PROVE Level(c, k, n + 1) = Level(e, g, n)
    OBVIOUS
  <2>1. n + 1 # 0
    BY <1>2, SMT
  <2>2. CASE n = 0
    <3>1. n + 1 = 1
      BY <2>2, SMT
    <3>. QED  BY <1>3, <2>1, <2>2, <3>1 DEF Level
  <2>3. CASE n # 0
    <3>1. n \in 1 .. Len(g)
      BY <1>2, <2>3, SMT
    <3>. QED  BY <1>2, <2>1, <2>3, <3>1 DEF Level
  <2>. QED  BY <2>2, <2>3
<1>10. WindowsOK(e, g, x, y, z)
  BY ONLY <1>2, <1>9, k \in Seq(Entry), WindowsOK(c, k, x, y, z), c.win = "idle", WindowsDown
<1>11. e.at \in Base \cup Above
  BY <1>5 DEF Base, Above
<1>. QED  BY <1>2, <1>5, <1>8, <1>10, <1>11 DEF e, g

\* Kernel code with nothing below it.
LEMMA NoLevels ==
    ASSUME NEW c, c.win = "idle", c.at \in Base, NEW x
    PROVE  LevelsOK(c, <<>>) /\ WindowsOK(c, <<>>, x, Home, Home)
<1>1. <<>> \in Seq(Entry) /\ Len(<<>>) = 0 /\ Len(<<>>) + 1 = 1
  BY SMT
<1>2. \A n : n \notin 1 .. Len(<<>>)
  BY <1>1, SMT
<1>3. c.at \notin Above
  BY DEF Base, Above
<1>4. c.at \in {"epilogue", "kernel_vector", "vector_rti"} => c.win = "idle"
  OBVIOUS
<1>5. LevelsOK(c, <<>>)
  BY <1>2, <1>3, <1>4 DEF LevelsOK
<1>6. Sees(c, <<>>, 1, Home) /\ Shown(c, <<>>, 1, x) /\ TornBelow(c, <<>>)
  BY <1>2 DEF Sees, Shown, TornBelow
<1>7. TopOK(c, <<>>, x, Home, Home)
  BY <1>2, <1>6 DEF TopOK
<1>. QED  BY <1>1, <1>5, <1>7, WindowsTop

\* And what the table and low memory then have.
LEMMA NoLevelsHome ==
    ASSUME NEW c, c.win = "idle", NEW x, NEW y, NEW z, WindowsOK(c, <<>>, x, y, z)
    PROVE  y = Home /\ z = Home
<1>1. <<>> \in Seq(Entry) /\ Len(<<>>) = 0
  BY SMT
<1>2. \A n : n \notin 1 .. Len(<<>>)
  BY <1>1, SMT
<1>3. TopOK(c, <<>>, x, y, z)
  BY <1>1, WindowsTop
<1>. QED  BY <1>2, <1>3 DEF TopOK, Sees

-----------------------------------------------------------------------------
(* The machine. *)

\* The frames the stacks and the last segments are in are different ones.
LEMMA FramesDistinct ==
    /\ \A p, q : KStack(p) # UFrame(q, 0) /\ UFrame(q, 0) # KStack(p)
    /\ \A p, q : p # q => KStack(p) # KStack(q) /\ UFrame(p, 0) # UFrame(q, 0)
    /\ \A p, s : UFrame(p, s) # K15 /\ UFrame(p, s) # NoFrame
    /\ K15 # NoFrame /\ \A p : KStack(p) # K15
BY SMT DEF K15, Home, NoFrame, UFrame, KStack

\* The frames of the model are frames.
LEMMA FrameTypes ==
    /\ K15 \in Frame /\ Home \in Frame /\ NoFrame \in Frame
    /\ \A p \in Procs : /\ KStack(p) \in Frame /\ KStack(p) \in Stacks /\ UFrame(p, 0) \in Stacks
                        /\ UFrame(p, 0) \in Frame /\ UFrame(p, 2) \in Frame /\ UFrame(p, 15) \in Frame
    /\ \A l \in Labels : Page(l) \in Frame
<1>1. ASSUME NEW p \in Procs, NEW s \in Segs PROVE UFrame(p, s) \in Frame
  <2>1. UFrame(p, s) \in {UFrame(q, s) : q \in Procs}
    OBVIOUS
  <2>2. {UFrame(q, s) : q \in Procs} \in {{UFrame(q, t) : q \in Procs} : t \in Segs}
    OBVIOUS
  <2>. QED  BY <2>1, <2>2 DEF Frame
<1>2. 0 \in Segs /\ 2 \in Segs /\ 15 \in Segs
  BY DEF Segs
<1>3. ASSUME NEW p \in Procs
      PROVE  /\ KStack(p) \in Frame /\ KStack(p) \in Stacks /\ UFrame(p, 0) \in Stacks
             /\ UFrame(p, 0) \in Frame /\ UFrame(p, 2) \in Frame /\ UFrame(p, 15) \in Frame
  <2>1. KStack(p) \in {KStack(q) : q \in Procs} /\ UFrame(p, 0) \in {UFrame(q, 0) : q \in Procs}
    OBVIOUS
  <2>2. KStack(p) \in Frame /\ KStack(p) \in Stacks /\ UFrame(p, 0) \in Stacks
    BY <2>1 DEF Frame, Stacks
  <2>. QED  BY <1>1, <1>2, <2>2
<1>4. K15 \in Frame /\ Home \in Frame /\ NoFrame \in Frame
  BY DEF Frame
<1>5. ASSUME NEW l \in Labels PROVE Page(l) \in Frame
  <2>1. Page(l) \in {Page(x) : x \in Labels}
    OBVIOUS
  <2>. QED  BY <2>1 DEF Frame
<1>. QED  BY <1>3, <1>4, <1>5

\* The frames a process was given are its page table.
LEMMA TableFrames ==
    ASSUME NEW p \in Procs, NEW o \in Gifts(p)
    PROVE  /\ Table(p, o) \in [Segs -> Frame]
           /\ Table(p, o)[0] = UFrame(p, 0) /\ Table(p, o)[2] = NoFrame
           /\ Table(p, o)[15] = IF UFrame(p, 15) \in o THEN UFrame(p, 15) ELSE NoFrame
           /\ UFrame(p, 0) \in o /\ o \subseteq {UFrame(p, 0), UFrame(p, 15)}
<1>1. UFrame(p, 0) \in o /\ o \subseteq {UFrame(p, 0), UFrame(p, 15)}
  BY DEF Gifts
<1>2. UFrame(p, 2) # UFrame(p, 0) /\ UFrame(p, 2) # UFrame(p, 15)
  BY SMT DEF UFrame
<1>3. UFrame(p, 2) \notin o
  BY <1>1, <1>2
<1>4. \A s \in Segs : Table(p, o)[s] = IF UFrame(p, s) \in o THEN UFrame(p, s) ELSE NoFrame
  BY DEF Table
<1>5. 0 \in Segs /\ 2 \in Segs /\ 15 \in Segs /\ \A s \in Segs : s = 0 \/ s = 2 \/ s = 15
  BY DEF Segs
<1>6. \A s \in Segs : Table(p, o)[s] \in Frame
  BY <1>4, <1>5, FrameTypes
<1>7. Table(p, o) \in [Segs -> Frame]
  <2>1. Table(p, o) = [s \in Segs |-> Table(p, o)[s]]
    BY DEF Table
  <2>. HIDE DEF Table
  <2>. QED  BY <1>6, <2>1
<1>. QED  BY <1>1, <1>3, <1>4, <1>5, <1>7

\* The kernel's page table while process p runs outside the window.
LEMMA KernelTableFrames ==
    ASSUME NEW p \in Procs
    PROVE  /\ KernelTable(p)[0] = KStack(p) /\ KernelTable(p)[2] = Home /\ KernelTable(p)[15] = K15
           /\ \A t \in [Segs -> Frame] :
                 t[0] = KStack(p) /\ t[2] = Home /\ t[15] = K15 => t = KernelTable(p)
<1>1. KernelTable(p)[0] = KStack(p) /\ KernelTable(p)[2] = Home /\ KernelTable(p)[15] = K15
  BY SMT DEF KernelTable, Segs
<1>2. ASSUME NEW t \in [Segs -> Frame], t[0] = KStack(p), t[2] = Home, t[15] = K15 PROVE t = KernelTable(p)
  <2>1. \A s \in Segs : t[s] = KernelTable(p)[s]
    BY <1>1, <1>2 DEF Segs
  <2>2. KernelTable(p) = [s \in Segs |-> KernelTable(p)[s]]
    BY SMT DEF KernelTable, Segs
  <2>3. t = [s \in Segs |-> t[s]]
    BY <1>2
  <2>. HIDE DEF KernelTable
  <2>. QED  BY <2>1, <2>2, <2>3
<1>. QED  BY <1>1, <1>2

\* The fields of a place in user code.
LEMMA UserRecord ==
    ASSUME NEW p, NEW n, NEW w
    PROVE  User(p, n, w).at = "user" /\ User(p, n, w).proc = p /\ User(p, n, w).pos = n /\ User(p, n, w).wild = w
BY DEF User

\* One entry on an empty stack.
LEMMA PushEmpty == ASSUME NEW x PROVE <<x>> \o <<>> = <<x>>
BY SMT

\* A push changes one stack.
LEMMA PushedStack ==
    ASSUME NEW f \in Stacks, NEW k \in [Stacks -> Seq(Entry)], NEW x \in Entry, NEW g,
           g = [k EXCEPT ![f] = <<x>> \o @]
    PROVE  g[f] = <<x>> \o k[f] /\ g[f] # <<>> /\ \A h \in Stacks \ {f} : g[h] = k[h]
<1>1. g[f] = <<x>> \o k[f] /\ \A h \in Stacks \ {f} : g[h] = k[h]
  OBVIOUS
<1>2. Len(<<x>> \o k[f]) = 1 + Len(k[f]) /\ Len(k[f]) \in Nat /\ Len(<<>>) = 0
  <2>1. k[f] \in Seq(Entry)
    OBVIOUS
  <2>. HIDE DEF Stacks
  <2>. QED  BY ONLY <2>1, x \in Entry, SMT
<1>3. <<x>> \o k[f] # <<>>
  <2>1. Len(<<x>> \o k[f]) # Len(<<>>)
    BY <1>2, SMT
  <2>. QED  BY <2>1
<1>. QED  BY <1>1, <1>3

\* Push changes the stack in segment 0 and nothing else.
LEMMA PushType ==
    ASSUME NEW s, IsMachine(s), s.pt[0] \in Stacks, NEW x \in Entry
    PROVE  /\ IsMachine(Push(s, x)) /\ Differ(Push(s, x), s, {"stk"})
           /\ Push(s, x).stk = [s.stk EXCEPT ![s.pt[0]] = <<x>> \o @]
<1>1. <<x>> \o s.stk[s.pt[0]] \in Seq(Entry)
  <2>1. <<x>> \in Seq(Entry) /\ s.stk[s.pt[0]] \in Seq(Entry)
    BY SMT DEF IsMachine
  <2>. QED  BY <2>1, EntrySeqs
<1>2. Differ(Push(s, x), s, {"stk"}) /\ Push(s, x).stk = [s.stk EXCEPT ![s.pt[0]] = <<x>> \o @]
  BY DEF Push, IsMachine, Differ, Fields
<1>3. Push(s, x).stk \in [Stacks -> Seq(Entry)]
  BY <1>1, <1>2 DEF IsMachine
<1>4. IsMachine(Push(s, x))
  BY <1>2, <1>3 DEF IsMachine, Differ, Fields
<1>. QED  BY <1>2, <1>4

\* Pull takes the first entry of the stack in segment 0.
LEMMA PullType ==
    ASSUME NEW s, IsMachine(s), s.pt[0] \in Stacks, s.stk[s.pt[0]] # <<>>
    PROVE  /\ IsMachine(Pull(s)) /\ Differ(Pull(s), s, {"stk"})
           /\ Pull(s).stk = [s.stk EXCEPT ![s.pt[0]] = Tail(@)]
           /\ Pulled(s) = Head(s.stk[s.pt[0]]) /\ Pulled(s) \in Entry
<1>. DEFINE k == s.stk[s.pt[0]]
            f == [s.stk EXCEPT ![s.pt[0]] = Tail(k)]
<1>1. s.stk \in [Stacks -> Seq(Entry)] /\ k \in Seq(Entry)
  BY DEF IsMachine
<1>2. Tail(k) \in Seq(Entry) /\ Head(k) \in Entry
  <2>1. k # <<>>
    OBVIOUS
  <2>. HIDE DEF k
  <2>. QED  BY ONLY <1>1, <2>1, SMT
<1>3. f \in [Stacks -> Seq(Entry)]
  <2>. HIDE DEF k
  <2>. QED  BY <1>1, <1>2
<1>4. Pull(s) = [s EXCEPT !.stk = f]
  BY DEF Pull
<1>. HIDE DEF f
<1>5. Differ(Pull(s), s, {"stk"}) /\ Pull(s).stk = f
  BY <1>4 DEF IsMachine, Differ, Fields
<1>6. IsMachine(Pull(s))
  BY <1>3, <1>5 DEF IsMachine, Differ, Fields
<1>. QED  BY <1>2, <1>5, <1>6 DEF f, Pulled

\* The CPU pushes its place, disables interrupts and goes to the vector.
LEMMA VectoredType ==
    ASSUME NEW s, IsMachine(s), s.pt[0] \in Stacks, NEW l \in Labels, NEW b \in BOOLEAN
    PROVE  /\ IsMachine(Vectored(s, l, b)) /\ Differ(Vectored(s, l, b), s, {"stk", "i", "pc"})
           /\ Vectored(s, l, b).i = TRUE /\ Vectored(s, l, b).pc = Code(l)
           /\ Vectored(s, l, b).stk =
                 [s.stk EXCEPT ![s.pt[0]] = <<[pc |-> s.pc, i |-> s.i, b |-> b]>> \o @]
<1>. DEFINE x == [pc |-> s.pc, i |-> s.i, b |-> b]
            t == Push(s, x)
<1>1. x \in Entry
  BY EntryType DEF IsMachine
<1>. HIDE DEF x
<1>2. IsMachine(t) /\ Differ(t, s, {"stk"}) /\ t.stk = [s.stk EXCEPT ![s.pt[0]] = <<x>> \o @]
  BY <1>1, PushType
<1>3. Vectored(s, l, b) = [t EXCEPT !.i = TRUE, !.pc = Code(l)]
  BY DEF Vectored, x
<1>. HIDE DEF t
<1>4. /\ Differ(Vectored(s, l, b), t, {"i", "pc"}) /\ Vectored(s, l, b).i = TRUE
      /\ Vectored(s, l, b).pc = Code(l)
  BY <1>2, <1>3 DEF Differ, Fields
<1>5. IsMachine(Vectored(s, l, b))
  <2>1. Code(l) \in CodeAt \cup UserAt
    BY CodeType
  <2>. QED  BY <1>2, <1>4, <2>1 DEF IsMachine, Differ, Fields
<1>6. Differ(Vectored(s, l, b), s, {"stk", "i", "pc"}) /\ Vectored(s, l, b).stk = t.stk
  BY <1>2, <1>4 DEF Differ, Fields
<1>. QED  BY <1>2, <1>4, <1>5, <1>6 DEF x

\* The MMU saves the last segment in prev and maps the kernel's.
LEMMA EnterType ==
    ASSUME NEW s, IsMachine(s)
    PROVE  /\ IsMachine(EnterKernel(s)) /\ Differ(EnterKernel(s), s, {"pt", "prev"})
           /\ EnterKernel(s).pt = [s.pt EXCEPT ![15] = K15] /\ EnterKernel(s).prev = s.pt[15]
           /\ EnterKernel(s).pt[15] = K15 /\ EnterKernel(s).pt[0] = s.pt[0]
           /\ EnterKernel(s).pt[2] = s.pt[2]
<1>1. /\ Differ(EnterKernel(s), s, {"pt", "prev"})
      /\ EnterKernel(s).pt = [s.pt EXCEPT ![15] = K15] /\ EnterKernel(s).prev = s.pt[15]
  BY DEF EnterKernel, IsMachine, Differ, Fields
<1>2. K15 \in Frame /\ 15 \in Segs /\ 0 \in Segs /\ 2 \in Segs /\ 0 # 15 /\ 2 # 15
  BY SMT DEF Frame, Segs
<1>3. EnterKernel(s).pt \in [Segs -> Frame] /\ EnterKernel(s).prev \in Frame
  BY <1>1, <1>2 DEF IsMachine
<1>4. IsMachine(EnterKernel(s))
  BY <1>1, <1>3 DEF IsMachine, Differ, Fields
<1>5. EnterKernel(s).pt[15] = K15 /\ EnterKernel(s).pt[0] = s.pt[0] /\ EnterKernel(s).pt[2] = s.pt[2]
  BY <1>1, <1>2 DEF IsMachine
<1>. QED  BY <1>1, <1>4, <1>5

\* What the CPU does for an IRQ and for an NMI that it has latched.
LEMMA HandleType ==
    ASSUME NEW s, IsMachine(s), s.pt[0] \in Stacks
    PROVE  /\ IsMachine(HandleIRQ(s)) /\ Differ(HandleIRQ(s), s, {"stk", "i", "pc", "latch", "timing"})
           /\ HandleIRQ(s).i = TRUE /\ HandleIRQ(s).pc = Code(s.vec) /\ HandleIRQ(s).timing = TRUE
           /\ HandleIRQ(s).latch = s.latch \ {"irq"}
           /\ HandleIRQ(s).stk =
                 [s.stk EXCEPT ![s.pt[0]] = <<[pc |-> s.pc, i |-> s.i, b |-> FALSE]>> \o @]
           /\ IsMachine(HandleNMI(s)) /\ Differ(HandleNMI(s), s, {"stk", "i", "pc", "latch", "timing"})
           /\ HandleNMI(s).i = TRUE /\ HandleNMI(s).pc = Code("nmi_handler") /\ HandleNMI(s).timing = TRUE
           /\ HandleNMI(s).latch = s.latch \ {"nmi"}
           /\ HandleNMI(s).stk =
                 [s.stk EXCEPT ![s.pt[0]] = <<[pc |-> s.pc, i |-> s.i, b |-> FALSE]>> \o @]
<1>1. s.vec \in Labels /\ "nmi_handler" \in Labels
  BY DEF IsMachine, Labels
<1>2. ASSUME NEW l \in Labels, NEW n \in {"irq", "nmi"}, NEW r,
             r = [Vectored(s, l, FALSE) EXCEPT !.latch = @ \ {n}, !.timing = TRUE]
      PROVE  /\ IsMachine(r) /\ Differ(r, s, {"stk", "i", "pc", "latch", "timing"})
             /\ r.i = TRUE /\ r.pc = Code(l) /\ r.timing = TRUE /\ r.latch = s.latch \ {n}
             /\ r.stk = [s.stk EXCEPT ![s.pt[0]] = <<[pc |-> s.pc, i |-> s.i, b |-> FALSE]>> \o @]
  <2>. DEFINE t == Vectored(s, l, FALSE)
  <2>1. /\ IsMachine(t) /\ Differ(t, s, {"stk", "i", "pc"}) /\ t.i = TRUE /\ t.pc = Code(l)
        /\ t.stk = [s.stk EXCEPT ![s.pt[0]] = <<[pc |-> s.pc, i |-> s.i, b |-> FALSE]>> \o @]
    BY VectoredType
  <2>2. r = [t EXCEPT !.latch = @ \ {n}, !.timing = TRUE]
    BY <1>2
  <2>. HIDE DEF t
  <2>3. Differ(r, t, {"latch", "timing"}) /\ r.timing = TRUE /\ r.latch = t.latch \ {n}
    BY <2>1, <2>2 DEF Differ, Fields
  <2>4. /\ Differ(r, s, {"stk", "i", "pc", "latch", "timing"}) /\ r.i = TRUE /\ r.pc = Code(l)
        /\ r.stk = t.stk /\ t.latch = s.latch
    BY <2>1, <2>3 DEF Differ, Fields
  <2>5. IsMachine(r)
    BY <2>1, <2>3 DEF IsMachine, Differ, Fields
  <2>. QED  BY <2>1, <2>3, <2>4, <2>5
<1>3. HandleIRQ(s) = [Vectored(s, s.vec, FALSE) EXCEPT !.latch = @ \ {"irq"}, !.timing = TRUE]
  BY DEF HandleIRQ
<1>4. HandleNMI(s) = [Vectored(s, "nmi_handler", FALSE) EXCEPT !.latch = @ \ {"nmi"}, !.timing = TRUE]
  BY DEF HandleNMI
<1>. QED  BY <1>1, <1>2, <1>3, <1>4

\* MCS6502ExecNext() serves an NMI first, then lets time pass, then executes.
LEMMA ExecNextCases ==
    ASSUME NEW s, s.latch \subseteq {"nmi"}, NEW e
    PROVE  /\ "nmi" \in s.latch => MCS6502ExecNext(s, e) = [HandleNMI(s) EXCEPT !.timing = FALSE]
           /\ s.latch = {} /\ s.timing => MCS6502ExecNext(s, e) = [s EXCEPT !.timing = FALSE]
           /\ s.latch = {} /\ ~s.timing => MCS6502ExecNext(s, e) = [e EXCEPT !.timing = FALSE]
<1>1. "irq" \notin s.latch
  OBVIOUS
<1>. QED  BY <1>1 DEF MCS6502ExecNext

\* An instruction at which the CPU takes an interrupt is not executed: the machine
\* is at the vector, in the kernel's last segment.
LEMMA TakenIrq ==
    ASSUME NEW s, IsMachine(s), ~s.timing, s.latch = {}, ~s.v, s.pending, ~s.i,
           s.pt[0] \in Stacks, NEW op, op \notin {"privilege", "invalid"},
           op = "rti" => s.pt[15] = K15, NEW e
    PROVE  /\ AfterIrq(MMU_post_exec(MCS6502ExecNext(MMU_pre_exec(s, op), e), op, InUser(s)), s)
           /\ MMU_pre_exec(s, op).timing
<1>. SUFFICES ASSUME NEW r, r = MMU_post_exec(MCS6502ExecNext(MMU_pre_exec(s, op), e), op, InUser(s))
              PROVE  AfterIrq(r, s) /\ MMU_pre_exec(s, op).timing
  OBVIOUS
<1>. DEFINE t == [EnterKernel(s) EXCEPT !.pending = FALSE]
            u == HandleIRQ(t)
<1>1. /\ IsMachine(t) /\ Differ(t, s, {"pt", "prev", "pending"}) /\ t.prev = s.pt[15] /\ t.pending = FALSE
      /\ t.pt[0] = s.pt[0] /\ t.pt[2] = s.pt[2] /\ t.pt[15] = K15
  <2>. DEFINE a == EnterKernel(s)
  <2>1. /\ IsMachine(a) /\ Differ(a, s, {"pt", "prev"}) /\ a.prev = s.pt[15]
        /\ a.pt[0] = s.pt[0] /\ a.pt[2] = s.pt[2] /\ a.pt[15] = K15
    BY EnterType
  <2>. HIDE DEF a
  <2>2. Differ(t, a, {"pending"}) /\ t.pending = FALSE
    BY <2>1 DEF Differ, Fields, a
  <2>. HIDE DEF t
  <2>3. IsMachine(t)
    BY <2>1, <2>2 DEF IsMachine, Differ, Fields
  <2>. QED  BY <2>1, <2>2, <2>3 DEF Differ, Fields
<1>. HIDE DEF t
<1>2. ~t.timing /\ t.latch = {} /\ ~t.v /\ ~t.i /\ t.pc = s.pc /\ t.i = s.i /\ t.stk = s.stk /\ t.vec = s.vec
  BY <1>1 DEF Differ, Fields
<1>3. /\ IsMachine(u) /\ Differ(u, t, {"stk", "i", "pc", "latch", "timing"})
      /\ u.i = TRUE /\ u.pc = Code(s.vec) /\ u.timing = TRUE /\ u.latch = {}
      /\ u.stk = [s.stk EXCEPT ![s.pt[0]] = <<[pc |-> s.pc, i |-> s.i, b |-> FALSE]>> \o @]
  <2>1. t.pt[0] \in Stacks
    BY <1>1
  <2>2. u.latch = t.latch \ {"irq"}
    BY <1>1, <2>1, HandleType
  <2>. QED  BY <1>1, <1>2, <2>1, <2>2, HandleType, ZenonT(120)
<1>4. MMU_pre_exec(s, op) = u
  <2>1. MCS6502IRQ(t) = u
    BY <1>2 DEF MCS6502IRQ
  <2>2. ~u.v
    BY <1>2, <1>3 DEF Differ, Fields
  <2>. HIDE DEF u
  <2>. QED  BY <2>1, <2>2 DEF MMU_pre_exec, t
<1>. HIDE DEF u
<1>5. MCS6502ExecNext(u, e) = [u EXCEPT !.timing = FALSE]
  BY <1>3, ExecNextCases
<1>. DEFINE w == [u EXCEPT !.timing = FALSE]
<1>6. IsMachine(w) /\ Differ(w, u, {"timing"}) /\ w.timing = FALSE
  BY <1>3 DEF IsMachine, Differ, Fields
<1>7. r = IF op = "rti" THEN [w EXCEPT !.pt[15] = w.prev] ELSE w
  BY <1>4, <1>5 DEF MMU_post_exec, InUser
<1>. HIDE DEF w
<1>8. w.prev = s.pt[15] /\ w.pt[15] = K15 /\ w.pt[0] = s.pt[0] /\ w.pt[2] = s.pt[2]
  BY <1>1, <1>3, <1>6, SMT DEF Differ, Fields
<1>9. /\ IsMachine(r) /\ Differ(r, w, {"pt"})
      /\ r.pt[15] = w.pt[15] /\ r.pt[0] = w.pt[0] /\ r.pt[2] = w.pt[2]
  <2>1. 15 \in Segs /\ 0 \in Segs /\ 2 \in Segs /\ 0 # 15 /\ 2 # 15 /\ K15 \in Frame
    BY SMT DEF Segs, Frame
  <2>2. CASE op = "rti"
    <3>0. r = [w EXCEPT !.pt[15] = w.prev] /\ w.prev = K15
      BY <1>7, <1>8, <2>2
    <3>1. Differ(r, w, {"pt"}) /\ r.pt = [w.pt EXCEPT ![15] = K15]
      BY <1>6, <3>0 DEF Differ, Fields
    <3>2. /\ r.pt \in [Segs -> Frame]
          /\ r.pt[15] = w.pt[15] /\ r.pt[0] = w.pt[0] /\ r.pt[2] = w.pt[2]
      BY <1>6, <1>8, <2>1, <3>1, ZenonT(120) DEF IsMachine
    <3>. QED  BY <1>6, <3>1, <3>2, ZenonT(120) DEF IsMachine, Differ, Fields
  <2>3. CASE op # "rti"
    BY <1>6, <1>7, <2>3 DEF IsMachine, Differ, Fields
  <2>. QED  BY <2>2, <2>3
<1>10. Differ(r, s, {"stk", "i", "pc", "prev", "pending", "pt"})
  <2>0. r.latch = {} /\ r.timing = FALSE
    BY <1>3, <1>6, <1>9, SMT DEF Differ, Fields
  <2>1. r.latch = s.latch /\ r.timing = s.timing
    BY <2>0 DEF IsMachine
  <2>2. r.cause = s.cause /\ r.v = s.v /\ r.line = s.line /\ r.vec = s.vec
    BY <1>1, <1>3, <1>6, <1>9, SMT DEF Differ, Fields
  <2>. QED  BY <1>9, <2>1, <2>2 DEF Differ, Fields
<1>11. /\ r.prev = s.pt[15] /\ r.i = TRUE /\ r.pc = Code(s.vec) /\ r.pending = FALSE
       /\ r.stk = u.stk
  BY <1>1, <1>3, <1>6, <1>8, <1>9, ZenonT(120) DEF Differ, Fields
<1>. QED  BY <1>3, <1>4, <1>8, <1>9, <1>10, <1>11 DEF AfterIrq

\* An NMI raised by MMU_pre_exec(), before or after an IRQ at the same instruction.
LEMMA Strike ==
    ASSUME NEW s, s.pt[0] \in Stacks, NEW t, Mid(t, s), NEW w, IsMachine(w),
           Differ(w, t, {"pt", "prev", "cause", "v"}),
           w.pt[0] = t.pt[0], w.pt[2] = t.pt[2], w.pt[15] = K15
    PROVE  /\ Struck(MCS6502NMI(w), s) /\ MCS6502NMI(w).prev = w.prev
           /\ MCS6502NMI(w).v = w.v
<1>1. /\ w.vec = s.vec /\ w.line = s.line /\ w.pt[0] = s.pt[0] /\ w.pt[2] = s.pt[2]
      /\ w.stk = t.stk /\ w.latch = t.latch /\ w.timing = t.timing
  BY DEF Differ, Fields, Mid
<1>2. CASE w.timing
  <2>. DEFINE u == [w EXCEPT !.latch = @ \cup {"nmi"}]
  <2>1. MCS6502NMI(w) = u
    BY <1>2 DEF MCS6502NMI
  <2>2. Differ(u, w, {"latch"}) /\ u.latch = w.latch \cup {"nmi"}
    BY DEF IsMachine, Differ, Fields
  <2>. HIDE DEF u
  <2>3. u.latch \subseteq {"nmi"} /\ "nmi" \in u.latch
    BY <1>1, <2>2 DEF Mid
  <2>4. IsMachine(u)
    BY <2>2, <2>3 DEF IsMachine, Differ, Fields
  <2>5. /\ u.vec = w.vec /\ u.line = w.line /\ u.pt = w.pt /\ u.stk = w.stk /\ u.timing = w.timing
        /\ u.prev = w.prev /\ u.v = w.v
    BY <2>2 DEF Differ, Fields
  <2>6. Mid(u, s)
    BY <1>1, <1>2, <2>3, <2>4, <2>5, ZenonT(120) DEF Mid
  <2>. QED  BY <1>2, <2>1, <2>3, <2>5, <2>6 DEF Struck
<1>3. CASE ~w.timing
  <2>. DEFINE u == HandleNMI(w)
              x == [pc |-> w.pc, i |-> w.i, b |-> FALSE]
  <2>0. w.pt[0] \in Stacks /\ x \in Entry
    BY <1>1, EntryType DEF IsMachine
  <2>. HIDE DEF x
  <2>1. MCS6502NMI(w) = u
    BY <1>3 DEF MCS6502NMI
  <2>2. /\ IsMachine(u) /\ Differ(u, w, {"stk", "i", "pc", "latch", "timing"})
        /\ u.i = TRUE /\ u.pc = Code("nmi_handler") /\ u.timing = TRUE
        /\ u.latch = w.latch \ {"nmi"}
        /\ u.stk = [w.stk EXCEPT ![w.pt[0]] = <<x>> \o @]
    BY <2>0, HandleType DEF x
  <2>. HIDE DEF u
  <2>3. w.latch = {} /\ u.latch = {}
    BY <1>1, <1>3, <2>2 DEF Mid
  <2>4. u.vec = w.vec /\ u.line = w.line /\ u.pt = w.pt /\ u.prev = w.prev /\ u.v = w.v
    BY <2>2 DEF Differ, Fields
  <2>5. u.stk[s.pt[0]] # <<>> /\ \A f \in Stacks \ {s.pt[0]} : u.stk[f] = w.stk[f]
    <3>1. w.stk \in [Stacks -> Seq(Entry)]
      BY DEF IsMachine
    <3>0. u.stk = [w.stk EXCEPT ![w.pt[0]] = <<x>> \o @]
      BY <2>2
    <3>2. u.stk[w.pt[0]] # <<>> /\ \A f \in Stacks \ {w.pt[0]} : u.stk[f] = w.stk[f]
      BY ONLY <2>0, <3>0, <3>1, PushedStack
    <3>. QED  BY <1>1, <3>2
  <2>6. Mid(u, s)
    <3>1. \A f \in Stacks \ {s.pt[0]} : u.stk[f] = s.stk[f]
      BY <1>1, <2>5 DEF Mid
    <3>2. u.pt[0] = s.pt[0] /\ u.pt[2] = s.pt[2] /\ u.vec = s.vec /\ u.line = s.line
      BY <1>1, <2>4
    <3>. QED  BY <2>2, <2>3, <3>1, <3>2 DEF Mid
  <2>. QED  BY <2>1, <2>2, <2>3, <2>4, <2>5, <2>6 DEF Struck
<1>. QED  BY <1>2, <1>3

\* A violation in user code: the machine is at nmi_handler, in the kernel's last
\* segment, and prev has the user's unless two traps came at once.
LEMMA TakenNmi ==
    ASSUME NEW s, IsMachine(s), ~s.timing, s.latch = {}, s.pt[0] \in Stacks, InUser(s),
           NEW op \in Ops, op \in {"privilege", "invalid"} \/ s.v, NEW e
    PROVE  /\ AfterNmi(MMU_post_exec(MCS6502ExecNext(MMU_pre_exec(s, op), e), op, InUser(s)), s, op)
           /\ MMU_pre_exec(s, op).timing
<1>. SUFFICES ASSUME NEW r, r = MMU_post_exec(MCS6502ExecNext(MMU_pre_exec(s, op), e), op, InUser(s))
              PROVE  AfterNmi(r, s, op) /\ MMU_pre_exec(s, op).timing
  OBVIOUS
<1>. DEFINE a == IF s.pending /\ ~s.i
                 THEN MCS6502IRQ([EnterKernel(s) EXCEPT !.pending = FALSE])
                 ELSE IF op = "brk" THEN EnterKernel(s) ELSE s
            b == IF InUser(s) /\ op \in {"privilege", "invalid"}
                 THEN MCS6502NMI([EnterKernel(a) EXCEPT !.cause = op]) ELSE a
            c == IF b.v THEN MCS6502NMI([EnterKernel(b) EXCEPT !.cause = "V", !.v = FALSE]) ELSE b
<1>1. MMU_pre_exec(s, op) = c
  BY DEF MMU_pre_exec
<1>0. Mid(s, s)
  BY DEF Mid
<1>2. Mid(a, s) /\ a.v = s.v
  <2>1. CASE s.pending /\ ~s.i
    <3>. DEFINE t == [EnterKernel(s) EXCEPT !.pending = FALSE]
                x == [pc |-> t.pc, i |-> t.i, b |-> FALSE]
                u == HandleIRQ(t)
                z == EnterKernel(s)
    <3>0. IsMachine(z) /\ Differ(z, s, {"pt", "prev"}) /\ z.pt[0] = s.pt[0] /\ z.pt[2] = s.pt[2]
      BY EnterType
    <3>. HIDE DEF z
    <3>1. Differ(t, z, {"pending"}) /\ t.pending = FALSE
      BY <3>0 DEF Differ, Fields, z
    <3>. HIDE DEF t
    <3>2. IsMachine(t)
      BY <3>0, <3>1 DEF IsMachine, Differ, Fields
    <3>3. /\ t.vec = s.vec /\ t.line = s.line /\ t.v = s.v /\ t.stk = s.stk /\ t.i = s.i
          /\ t.timing = s.timing /\ t.latch = s.latch /\ t.pt[0] = s.pt[0] /\ t.pt[2] = s.pt[2]
      BY <3>0, <3>1 DEF Differ, Fields
    <3>4. a = u
      BY <2>1, <3>3 DEF MCS6502IRQ, t
    <3>5. t.pt[0] \in Stacks /\ x \in Entry
      BY <3>2, <3>3, EntryType DEF IsMachine
    <3>6. /\ IsMachine(u) /\ Differ(u, t, {"stk", "i", "pc", "latch", "timing"})
          /\ u.timing = TRUE /\ u.latch = t.latch \ {"irq"}
          /\ u.stk = [t.stk EXCEPT ![t.pt[0]] = <<x>> \o @]
      BY <3>2, <3>5, HandleType
    <3>. HIDE DEF u, x, a
    <3>7. u.vec = t.vec /\ u.line = t.line /\ u.pt = t.pt /\ u.v = t.v
      BY <3>6 DEF Differ, Fields
    <3>8. \A f \in Stacks \ {t.pt[0]} : u.stk[f] = t.stk[f]
      <4>1. u.stk = [t.stk EXCEPT ![t.pt[0]] = <<x>> \o @] /\ t.stk \in [Stacks -> Seq(Entry)]
        BY <3>2, <3>6 DEF IsMachine
      <4>. QED  BY ONLY <3>5, <4>1, PushedStack
    <3>9. Mid(u, s)
      BY <3>3, <3>6, <3>7, <3>8 DEF Mid
    <3>. QED  BY <3>3, <3>4, <3>7, <3>9
  <2>2. CASE ~(s.pending /\ ~s.i) /\ op = "brk"
    <3>. DEFINE z == EnterKernel(s)
    <3>0. IsMachine(z) /\ Differ(z, s, {"pt", "prev"}) /\ z.pt[0] = s.pt[0] /\ z.pt[2] = s.pt[2]
      BY EnterType
    <3>1. a = z
      BY <2>2
    <3>. HIDE DEF z, a
    <3>. QED  BY <3>0, <3>1 DEF Mid, Differ, Fields
  <2>3. CASE ~(s.pending /\ ~s.i) /\ op # "brk"
    BY <1>0, <2>3
  <2>. QED  BY <2>1, <2>2, <2>3
<1>3. ~(s.pending /\ ~s.i) /\ op # "brk" => a = s
  OBVIOUS
<1>. HIDE DEF a
<1>4. ASSUME NEW t, Mid(t, s), NEW w, NEW x \in {"V", "privilege", "invalid"},
             \/ w = [EnterKernel(t) EXCEPT !.cause = x]
             \/ w = [EnterKernel(t) EXCEPT !.cause = x, !.v = FALSE]
      PROVE  /\ Struck(MCS6502NMI(w), s) /\ MCS6502NMI(w).prev = t.pt[15]
             /\ MCS6502NMI(w).v = w.v
             /\ w = [EnterKernel(t) EXCEPT !.cause = x] => w.v = t.v
             /\ w = [EnterKernel(t) EXCEPT !.cause = x, !.v = FALSE] => w.v = FALSE
  <2>. DEFINE z == EnterKernel(t)
  <2>1. /\ IsMachine(z) /\ Differ(z, t, {"pt", "prev"}) /\ z.pt[0] = t.pt[0] /\ z.pt[2] = t.pt[2]
        /\ z.pt[15] = K15 /\ z.prev = t.pt[15]
    BY <1>4, EnterType DEF Mid
  <2>. HIDE DEF z
  <2>2. /\ Differ(w, z, {"cause", "v"}) /\ w.cause = x
        /\ w.v = z.v \/ w.v = FALSE
        /\ w = [z EXCEPT !.cause = x] => w.v = z.v
        /\ w = [z EXCEPT !.cause = x, !.v = FALSE] => w.v = FALSE
    <3>1. CASE w = [z EXCEPT !.cause = x]
      BY <2>1, <3>1 DEF Differ, Fields
    <3>2. CASE w = [z EXCEPT !.cause = x, !.v = FALSE]
      BY <2>1, <3>2 DEF Differ, Fields
    <3>. QED  BY <1>4, <3>1, <3>2 DEF z
  <2>3. IsMachine(w)
    BY <2>1, <2>2 DEF IsMachine, Differ, Fields
  <2>4. /\ Differ(w, t, {"pt", "prev", "cause", "v"}) /\ w.pt = z.pt /\ w.prev = z.prev
        /\ z.v = t.v
    BY <2>1, <2>2 DEF Differ, Fields
  <2>5. w.pt[0] = t.pt[0] /\ w.pt[2] = t.pt[2] /\ w.pt[15] = K15 /\ w.prev = t.pt[15]
    BY <2>1, <2>4
  <2>6. Struck(MCS6502NMI(w), s) /\ MCS6502NMI(w).prev = w.prev /\ MCS6502NMI(w).v = w.v
    <3>1. Mid(t, s) /\ s.pt[0] \in Stacks
      BY <1>4
    <3>. QED  BY ONLY <2>3, <2>4, <2>5, <3>1, Strike
  <2>. QED  BY <2>2, <2>4, <2>5, <2>6 DEF z
<1>5. /\ b.v = s.v
      /\ op \in {"privilege", "invalid"} => Struck(b, s) /\ b.prev = a.pt[15]
      /\ op \notin {"privilege", "invalid"} => b = a
  <2>1. CASE op \in {"privilege", "invalid"}
    <3>. DEFINE w == [EnterKernel(a) EXCEPT !.cause = op]
    <3>1. b = MCS6502NMI(w)
      BY <2>1
    <3>. HIDE DEF b
    <3>2. Struck(MCS6502NMI(w), s) /\ MCS6502NMI(w).prev = a.pt[15] /\ MCS6502NMI(w).v = w.v /\ w.v = a.v
      BY <1>2, <1>4, <2>1
    <3>. QED  BY <1>2, <2>1, <3>1, <3>2
  <2>2. CASE op \notin {"privilege", "invalid"}
    BY <1>2, <2>2
  <2>. QED  BY <2>1, <2>2
<1>6. Mid(b, s)
  BY <1>2, <1>5 DEF Struck
<1>. HIDE DEF b
<1>7. /\ Struck(c, s) /\ ~c.v
      /\ b.v => c.prev = b.pt[15]
      /\ ~b.v => c = b
  <2>1. CASE b.v
    <3>. DEFINE w == [EnterKernel(b) EXCEPT !.cause = "V", !.v = FALSE]
    <3>1. c = MCS6502NMI(w)
      BY <2>1
    <3>. HIDE DEF c
    <3>2. "V" \in {"V", "privilege", "invalid"}
      OBVIOUS
    <3>3. /\ Struck(MCS6502NMI(w), s) /\ MCS6502NMI(w).prev = b.pt[15] /\ MCS6502NMI(w).v = w.v
          /\ w.v = FALSE
      BY ONLY <1>4, <1>6, <3>2, ZenonT(30)
    <3>. QED  BY <2>1, <3>1, <3>3
  <2>2. CASE ~b.v
    BY <1>5, <2>2
  <2>. QED  BY <2>1, <2>2
<1>. HIDE DEF c
<1>8. \/ c.prev = s.pt[15]
      \/ (s.pending /\ ~s.i) \/ op = "brk"
      \/ op \in {"privilege", "invalid"} /\ s.v
  BY <1>3, <1>5, <1>7
<1>9. op # "rti"
  BY DEF Ops
<1>10. r = MCS6502ExecNext(c, e)
  BY <1>1, <1>9 DEF MMU_post_exec
<1>11. CASE "nmi" \in c.latch
  <2>. DEFINE u == HandleNMI(c)
              x == [pc |-> c.pc, i |-> c.i, b |-> FALSE]
  <2>1. r = [u EXCEPT !.timing = FALSE]
    BY <1>7, <1>10, <1>11, ExecNextCases DEF Struck, Mid
  <2>2. IsMachine(c) /\ c.pt[0] = s.pt[0] /\ c.pt[0] \in Stacks /\ x \in Entry
    BY <1>7, EntryType DEF Struck, Mid, IsMachine
  <2>3. /\ IsMachine(u) /\ Differ(u, c, {"stk", "i", "pc", "latch", "timing"})
        /\ u.i = TRUE /\ u.pc = Code("nmi_handler") /\ u.latch = c.latch \ {"nmi"}
        /\ u.stk = [c.stk EXCEPT ![c.pt[0]] = <<x>> \o @]
    BY <2>2, HandleType
  <2>. HIDE DEF u, x
  <2>4. Differ(r, u, {"timing"}) /\ r.timing = FALSE
    BY <2>1, <2>3 DEF IsMachine, Differ, Fields
  <2>5. IsMachine(r)
    BY <2>3, <2>4, ZenonT(120) DEF IsMachine, Differ, Fields
  <2>6. /\ r.vec = c.vec /\ r.line = c.line /\ r.pt = c.pt /\ r.v = c.v /\ r.prev = c.prev
        /\ r.stk = u.stk /\ r.latch = u.latch /\ r.i = TRUE /\ r.pc = Code("nmi_handler")
    BY <2>3, <2>4 DEF Differ, Fields
  <2>7. r.stk[c.pt[0]] # <<>> /\ \A f \in Stacks \ {c.pt[0]} : r.stk[f] = c.stk[f]
    <3>1. r.stk = [c.stk EXCEPT ![c.pt[0]] = <<x>> \o @] /\ c.stk \in [Stacks -> Seq(Entry)]
      BY <2>2, <2>3, <2>6 DEF IsMachine
    <3>. QED  BY ONLY <2>2, <3>1, PushedStack
  <2>8. r.latch = {}
    BY <1>7, <2>3, <2>6 DEF Struck, Mid
  <2>9. /\ c.vec = s.vec /\ c.line = s.line /\ c.pt[2] = s.pt[2] /\ c.pt[15] = K15 /\ c.timing
        /\ \A f \in Stacks \ {s.pt[0]} : c.stk[f] = s.stk[f]
    BY <1>7 DEF Struck, Mid
  <2>. QED  BY <1>1, <1>7, <1>8, <2>2, <2>4, <2>5, <2>6, <2>7, <2>8, <2>9 DEF AfterNmi
<1>12. CASE "nmi" \notin c.latch
  <2>1. c.latch = {} /\ c.pc = Code("nmi_handler") /\ c.i /\ c.stk[s.pt[0]] # <<>> /\ c.timing /\ Mid(c, s) /\ c.pt[15] = K15
    BY <1>7, <1>12 DEF Struck
  <2>2. r = [c EXCEPT !.timing = FALSE]
    BY <1>10, <2>1, ExecNextCases DEF Mid
  <2>3. IsMachine(c)
    BY <2>1 DEF Mid
  <2>4. Differ(r, c, {"timing"}) /\ r.timing = FALSE
    BY <2>2, <2>3 DEF IsMachine, Differ, Fields
  <2>5. IsMachine(r)
    BY <2>3, <2>4 DEF IsMachine, Differ, Fields
  <2>6. /\ r.vec = c.vec /\ r.line = c.line /\ r.pt = c.pt /\ r.v = c.v /\ r.prev = c.prev
        /\ r.stk = c.stk /\ r.latch = c.latch /\ r.i = c.i /\ r.pc = c.pc
    BY <2>4 DEF Differ, Fields
  <2>. QED  BY <1>1, <1>7, <1>8, <2>1, <2>4, <2>5, <2>6 DEF Mid, AfterNmi
<1>. QED  BY <1>11, <1>12

\* RTI in the kernel with no interrupt before it: the place it pulls, and the last
\* segment from prev.
LEMMA RtiBack ==
    ASSUME NEW s, IsMachine(s), ~s.timing, s.latch = {}, ~s.v, ~(s.pending /\ ~s.i),
           s.pt[0] \in Stacks, s.pt[15] = K15, s.stk[s.pt[0]] # <<>>
    PROVE  LET pre == MMU_pre_exec(s, "rti")
               back == [Pull(pre) EXCEPT !.pc = Pulled(pre).pc, !.i = Pulled(pre).i]
           IN  AfterRti(MMU_post_exec(MCS6502ExecNext(pre, back), "rti", InUser(s)), s)
<1>. DEFINE b == [Pull(s) EXCEPT !.pc = Pulled(s).pc, !.i = Pulled(s).i]
            p == Pull(s)
            u == [b EXCEPT !.timing = FALSE]
            t == [u.pt EXCEPT ![15] = u.prev]
            r == [u EXCEPT !.pt = t]
<1>1. MMU_pre_exec(s, "rti") = s /\ ~InUser(s)
  BY DEF MMU_pre_exec, InUser
<1>2. MCS6502ExecNext(s, b) = u
  <2>. HIDE DEF b
  <2>. QED  BY ExecNextCases DEF u
<1>3. MMU_post_exec(u, "rti", InUser(s)) = r
  <2>. HIDE DEF u
  <2>. QED  BY <1>1 DEF MMU_post_exec
<1>4. /\ IsMachine(p) /\ Differ(p, s, {"stk"}) /\ p.stk = [s.stk EXCEPT ![s.pt[0]] = Tail(@)]
      /\ Pulled(s) = Head(s.stk[s.pt[0]]) /\ Pulled(s) \in Entry
  BY PullType
<1>5. Pulled(s).pc \in CodeAt \cup UserAt /\ Pulled(s).i \in BOOLEAN
  BY <1>4 DEF Entry
<1>. HIDE DEF p
<1>6. Differ(b, p, {"pc", "i"}) /\ b.pc = Pulled(s).pc /\ b.i = Pulled(s).i
  BY <1>4 DEF IsMachine, Differ, Fields, p
<1>. HIDE DEF b
<1>7. Differ(u, b, {"timing"}) /\ u.timing = FALSE
  BY <1>6 DEF Differ, Fields
<1>. HIDE DEF u
<1>8. /\ u.pt = s.pt /\ u.prev = s.prev /\ u.timing = s.timing /\ u.pc = Pulled(s).pc /\ u.i = Pulled(s).i
      /\ u.stk = p.stk /\ Differ(u, s, {"pc", "i", "stk"})
  <2>1. s.timing = FALSE
    BY DEF IsMachine
  <2>2. Differ(b, s, {"pc", "i", "stk"}) /\ b.stk = p.stk
    BY <1>4, <1>6 DEF Differ, Fields
  <2>3. Differ(u, s, {"pc", "i", "stk"}) /\ u.pc = b.pc /\ u.i = b.i /\ u.stk = b.stk
    BY <1>7, <2>1, <2>2 DEF Differ, Fields
  <2>. QED  BY <1>6, <2>2, <2>3 DEF Differ, Fields
<1>9. t \in [Segs -> Frame] /\ t[0] = s.pt[0] /\ t[2] = s.pt[2] /\ t[15] = s.prev
  <2>1. s.pt \in [Segs -> Frame] /\ s.prev \in Frame /\ t = [s.pt EXCEPT ![15] = s.prev]
    BY <1>8 DEF IsMachine
  <2>. HIDE DEF t
  <2>. QED  BY ONLY <2>1, SMT DEF Segs
<1>. HIDE DEF t
<1>10. Differ(r, u, {"pt"}) /\ r.pt = t
  BY <1>8 DEF Differ, Fields
<1>. HIDE DEF r
<1>11. /\ Differ(r, s, {"stk", "i", "pc", "pt"}) /\ r.pc = Pulled(s).pc /\ r.i = Pulled(s).i
       /\ r.stk = p.stk
  BY <1>8, <1>10 DEF Differ, Fields
<1>12. IsMachine(r)
  <2>1. p.stk \in [Stacks -> Seq(Entry)]
    BY <1>4 DEF IsMachine
  <2>. QED  BY <1>5, <1>9, <1>10, <1>11, <2>1 DEF IsMachine, Differ, Fields
<1>13. AfterRti(r, s)
  BY <1>4, <1>9, <1>10, <1>11, <1>12 DEF AfterRti
<1>. QED  BY <1>1, <1>2, <1>3, <1>13 DEF b

\* The trampolines: what stays on the user's stack, and the kernel's segments.
LEMMA TrampolineType ==
    ASSUME IsMachine(m), kpt \in [Segs -> Frame], m.pt[0] \in Stacks, m.stk[m.pt[0]] # <<>>
    PROVE  /\ IsMachine(Trampoline(m)) /\ Differ(Trampoline(m), m, {"stk", "pt", "prev", "vec"})
           /\ Trampoline(m).stk = [m.stk EXCEPT ![m.pt[0]] = Tail(@)]
           /\ Trampoline(m).pt[0] = kpt[0] /\ Trampoline(m).pt[2] = kpt[2]
           /\ Trampoline(m).pt[15] = m.pt[15]
           /\ Trampoline(m).prev = kpt[15] /\ Trampoline(m).vec = "kernel_vector"
           /\ Pulled(m) = Head(m.stk[m.pt[0]]) /\ Pulled(m) \in Entry
<1>. DEFINE p == Pull(m)
            t == [kpt EXCEPT ![15] = m.pt[15]]
            r == Trampoline(m)
<1>1. /\ IsMachine(p) /\ Differ(p, m, {"stk"}) /\ p.stk = [m.stk EXCEPT ![m.pt[0]] = Tail(@)]
      /\ Pulled(m) = Head(m.stk[m.pt[0]]) /\ Pulled(m) \in Entry
  BY PullType
<1>2. t \in [Segs -> Frame] /\ t[0] = kpt[0] /\ t[2] = kpt[2] /\ t[15] = m.pt[15]
  <2>1. m.pt \in [Segs -> Frame]
    BY DEF IsMachine
  <2>. QED  BY <2>1, SMT DEF Segs
<1>3. r = [p EXCEPT !.pt = t, !.prev = kpt[15], !.vec = "kernel_vector"]
  BY DEF Trampoline
<1>. HIDE DEF p, t, r
<1>4. Differ(r, p, {"pt", "prev", "vec"}) /\ r.pt = t /\ r.prev = kpt[15] /\ r.vec = "kernel_vector"
  BY <1>1, <1>3 DEF IsMachine, Differ, Fields
<1>5. kpt[15] \in Frame
  BY DEF Segs
<1>6. IsMachine(r)
  BY <1>1, <1>2, <1>4, <1>5 DEF IsMachine, Differ, Fields
<1>7. Differ(r, m, {"stk", "pt", "prev", "vec"}) /\ r.stk = p.stk
  BY <1>1, <1>4 DEF Differ, Fields
<1>. QED  BY <1>1, <1>2, <1>4, <1>6, <1>7 DEF r

\* The machine after a switch: on NEW's kernel stack, where NEW gave up the CPU.
LEMMA SwitchMachine ==
    ASSUME NEW s, IsMachine(s), NEW q \in Procs, NEW a, a[0] = KStack(q), a[2] = Home, Resumable(s, q)
    PROVE  AfterSwitch(Switched(s, a, q), s, q)
<1>0. SUFFICES ASSUME NEW there, there = Landed(s, a),
                      NEW r, r = IF state[q] = "new" THEN [there EXCEPT !.pc = Code("epilogue"), !.i = TRUE]
                                 ELSE [Pull(there) EXCEPT !.pc = Pulled(there).pc, !.i = FALSE]
               PROVE  AfterSwitch(r, s, q)
  BY DEF Switched
<1>. DEFINE t == [[s.pt EXCEPT ![0] = a[0]] EXCEPT ![2] = a[2]]
<1>1. KStack(q) \in Stacks /\ KStack(q) \in Frame /\ Home \in Frame
  BY FrameTypes
<1>2. t \in [Segs -> Frame] /\ t[0] = KStack(q) /\ t[2] = Home /\ t[15] = s.pt[15]
  <2>1. s.pt \in [Segs -> Frame]
    BY DEF IsMachine
  <2>. QED  BY ONLY <1>1, <2>1, a[0] = KStack(q), a[2] = Home, SMT DEF Segs
<1>3. there = [s EXCEPT !.pt = t]
  <2>0. there = [s EXCEPT !.pt[0] = a[0], !.pt[2] = a[2]]
    BY <1>0 DEF Landed
  <2>1. [s EXCEPT !.pt[0] = a[0], !.pt[2] = a[2]] = [[s EXCEPT !.pt = [s.pt EXCEPT ![0] = a[0]]]
                                                         EXCEPT !.pt = t]
    BY DEF IsMachine, Fields
  <2>2. [[s EXCEPT !.pt = [s.pt EXCEPT ![0] = a[0]]] EXCEPT !.pt = t] = [s EXCEPT !.pt = t]
    <3>. HIDE DEF t
    <3>. QED  BY DEF IsMachine, Fields
  <2>. QED  BY <2>0, <2>1, <2>2
<1>. HIDE DEF t
<1>4. Differ(there, s, {"pt"}) /\ there.pt = t
  BY <1>3 DEF IsMachine, Differ, Fields
<1>5. IsMachine(there)
  BY <1>2, <1>4 DEF IsMachine, Differ, Fields
<1>6. there.pt[0] = KStack(q) /\ there.stk = s.stk /\ s.stk \in [Stacks -> Seq(Entry)]
  BY <1>2, <1>4 DEF Differ, Fields, IsMachine
<1>7. CASE state[q] = "new"
  <2>1. r = [there EXCEPT !.pc = Code("epilogue"), !.i = TRUE]
    BY <1>0, <1>7
  <2>2. Differ(r, there, {"pc", "i"}) /\ r.pc = Code("epilogue") /\ r.i = TRUE
    BY <1>5, <2>1 DEF IsMachine, Differ, Fields
  <2>3. Code("epilogue") \in CodeAt /\ Code("epilogue").at = "epilogue" /\ Code("epilogue").win = "idle"
    BY CodeType DEF Labels
  <2>4. IsMachine(r)
    BY <1>5, <2>2, <2>3 DEF IsMachine, Differ, Fields
  <2>5. Differ(r, s, {"pt", "pc", "i", "stk"}) /\ r.pt = t /\ r.stk = s.stk
    BY <1>4, <2>2 DEF Differ, Fields
  <2>6. s.stk[KStack(q)] = <<>>
    BY <1>7 DEF Resumable
  <2>. QED  BY <1>2, <2>2, <2>3, <2>4, <2>5, <2>6 DEF AfterSwitch
<1>8. CASE state[q] # "new"
  <2>1. PICK c \in CodeAt : /\ c.at = "kernel" /\ c.win = "idle"
                            /\ s.stk[KStack(q)] = <<[pc |-> c, i |-> TRUE, b |-> FALSE]>>
    BY <1>8 DEF Resumable
  <2>. DEFINE x == [pc |-> c, i |-> TRUE, b |-> FALSE]
              k == s.stk[KStack(q)]
              p == Pull(there)
  <2>2. x.pc = c
    OBVIOUS
  <2>3. k # <<>> /\ Head(k) = x /\ Tail(k) = <<>>
    <3>1. k = <<x>>
      BY <2>1
    <3>. HIDE DEF x, k
    <3>. QED  BY ONLY <3>1, SMT
  <2>4. /\ IsMachine(p) /\ Differ(p, there, {"stk"}) /\ p.stk = [there.stk EXCEPT ![there.pt[0]] = Tail(@)]
        /\ Pulled(there) = Head(there.stk[there.pt[0]])
    <3>1. there.pt[0] \in Stacks /\ there.stk[there.pt[0]] # <<>>
      BY <1>1, <1>6, <2>3
    <3>. QED  BY <1>5, <3>1, PullType
  <2>5. Pulled(there).pc = c
    BY <1>6, <2>2, <2>3, <2>4
  <2>6. r = [p EXCEPT !.pc = c, !.i = FALSE]
    BY <1>0, <1>8, <2>5
  <2>7. p.stk = [s.stk EXCEPT ![KStack(q)] = Tail(k)]
    BY <1>6, <2>4
  <2>. HIDE DEF x, k, p
  <2>8. Differ(r, p, {"pc", "i"}) /\ r.pc = c /\ r.i = FALSE
    BY <2>4, <2>6 DEF IsMachine, Differ, Fields
  <2>9. IsMachine(r)
    BY <2>4, <2>8 DEF IsMachine, Differ, Fields
  <2>10. r.pt = t /\ r.stk = p.stk
    <3>1. p.pt = t
      BY <1>4, <2>4 DEF Differ, Fields
    <3>. QED  BY <2>8, <3>1 DEF Differ, Fields
  <2>11. Differ(r, s, {"pt", "pc", "i", "stk"})
    <3>1. Differ(p, there, {"stk"})
      BY <2>4
    <3>. QED  BY ONLY <1>4, <2>8, <3>1, SMT DEF Differ, Fields
  <2>12. r.stk[KStack(q)] = <<>> /\ \A f \in Stacks \ {KStack(q)} : r.stk[f] = s.stk[f]
    BY <1>1, <1>6, <2>3, <2>7, <2>10
  <2>. QED  BY <1>2, <2>1, <2>8, <2>9, <2>10, <2>11, <2>12 DEF AfterSwitch
<1>. QED  BY <1>7, <1>8

\* context_switch() and first_context_switch(): OLD's low segments are saved, NEW's
\* are in the MMU and in the table.
LEMMA SwitchStep ==
    ASSUME NEW s, IsMachine(s), NEW q \in Procs, cur \in Procs, kpt \in [Segs -> Frame],
           low \in [Procs -> [{0, 2} -> Frame]], kpt[0] = KStack(cur), kpt[2] = Home,
           q # cur => low[q][0] = KStack(q) /\ low[q][2] = Home,
           Resumable(s, q), context_switch(s, q)
    PROVE  /\ AfterSwitch(m', s, q) /\ cur' = q
           /\ low' \in [Procs -> [{0, 2} -> Frame]] /\ \A p \in Procs \ {cur} : low'[p] = low[p]
           /\ low'[cur][0] = KStack(cur) /\ low'[cur][2] = Home
           /\ low'[q][0] = KStack(q) /\ low'[q][2] = Home
           /\ kpt' \in [Segs -> Frame] /\ kpt'[0] = KStack(q) /\ kpt'[2] = Home /\ kpt'[15] = kpt[15]
<1>. DEFINE a == [n \in {0, 2} |-> kpt[n]]
            saved == [low EXCEPT ![cur] = a]
            there == [s EXCEPT !.pt[0] = saved[q][0], !.pt[2] = saved[q][2]]
<1>1. /\ low' = saved /\ kpt' = [kpt EXCEPT ![0] = saved[q][0], ![2] = saved[q][2]] /\ cur' = q
      /\ m' = IF state[q] = "new" THEN [there EXCEPT !.pc = Code("epilogue"), !.i = TRUE]
              ELSE [Pull(there) EXCEPT !.pc = Pulled(there).pc, !.i = FALSE]
  BY DEF context_switch
<1>2. a \in [{0, 2} -> Frame] /\ a[0] = KStack(cur) /\ a[2] = Home
  <2>1. kpt[0] \in Frame /\ kpt[2] \in Frame
    BY DEF Segs
  <2>. QED  BY <2>1
<1>. HIDE DEF a
<1>3. /\ saved \in [Procs -> [{0, 2} -> Frame]] /\ saved[cur] = a
      /\ \A p \in Procs \ {cur} : saved[p] = low[p]
  BY <1>2
<1>. HIDE DEF saved
<1>4. saved[q][0] = KStack(q) /\ saved[q][2] = Home
  BY <1>2, <1>3
<1>5. AfterSwitch(m', s, q)
  <2>1. m' = Switched(s, saved[q], q)
    BY <1>1 DEF Switched, Landed
  <2>2. IsMachine(s) /\ q \in Procs /\ Resumable(s, q)
    OBVIOUS
  <2>. QED  BY ONLY <1>4, <2>1, <2>2, SwitchMachine, SMTT(30)
<1>6. kpt' \in [Segs -> Frame] /\ kpt'[0] = KStack(q) /\ kpt'[2] = Home /\ kpt'[15] = kpt[15]
  <2>1. kpt' = [kpt EXCEPT ![0] = KStack(q), ![2] = Home] /\ KStack(q) \in Frame /\ Home \in Frame
    BY <1>1, <1>4, FrameTypes
  <2>. QED  BY ONLY <2>1, kpt \in [Segs -> Frame], SMT DEF Segs
<1>. QED  BY <1>1, <1>2, <1>3, <1>4, <1>5, <1>6

-----------------------------------------------------------------------------
(* The parts of the invariant. *)

\* Where user code runs.
LEMMA UserFacts ==
    ASSUME TrapInv, m.pc.at = "user"
    PROVE  /\ IsMachine(m) /\ cur \in Procs /\ own[cur] \in Gifts(cur)
           /\ m.pt[0] = UFrame(cur, 0) /\ UFrame(cur, 0) \in Stacks /\ KStack(cur) \in Stacks
           /\ KStack(cur) # UFrame(cur, 0) /\ m.vec = "irq_handler"
           /\ m.pt[15] = Table(cur, own[cur])[15] /\ InUser(m) /\ ~m.i /\ ~m.timing /\ m.latch = {}
           /\ m.stk[UFrame(cur, 0)] = <<>> /\ m.stk[KStack(cur)] = <<>>
           /\ \E w \in BOOLEAN : m.pc = User(cur, pos[cur], w)
           /\ Served
<1>1. /\ IsMachine(m) /\ cur \in Procs /\ m.pt[0] = UFrame(cur, 0) /\ m.vec = "irq_handler"
      /\ m.pt[15] = Table(cur, own[cur])[15] /\ ~m.i /\ ~m.timing /\ m.latch = {}
      /\ m.stk[UFrame(cur, 0)] = <<>> /\ m.stk[KStack(cur)] = <<>>
      /\ \E w \in BOOLEAN : m.pc = User(cur, pos[cur], w)
      /\ Served
  BY DEF TrapInv, TypeOK, UserSide, UserCode, Calm, OnUserStack, Serving
<1>2. own[cur] \in Gifts(cur)
  <2>1. state[cur] # "unused"
    BY DEF TrapInv, Others
  <2>. QED  BY <1>1, <2>1 DEF TrapInv, Saved
<1>3. UFrame(cur, 0) \in Stacks /\ KStack(cur) \in Stacks /\ KStack(cur) # UFrame(cur, 0)
  BY <1>1, FramesDistinct, FrameTypes
<1>4. Table(cur, own[cur])[15] # K15
  <2>1. Table(cur, own[cur])[15] = UFrame(cur, 15) \/ Table(cur, own[cur])[15] = NoFrame
    BY DEF Table, Segs
  <2>. QED  BY <2>1, FramesDistinct
<1>. QED  BY <1>1, <1>2, <1>3, <1>4 DEF InUser

\* Where kernel code runs.
LEMMA KernelFacts ==
    ASSUME TrapInv, m.pc.at \in Base \cup Above
    PROVE  /\ IsMachine(m) /\ cur \in Procs /\ m.pt[0] = KStack(cur) /\ KStack(cur) \in Stacks
           /\ m.pt[15] = K15 /\ m.prev = K15 /\ m.vec = "kernel_vector"
           /\ ~m.timing /\ m.latch = {} /\ ~m.v /\ m.stk[KStack(cur)] \in Seq(Entry)
           /\ LevelsOK(m.pc, m.stk[KStack(cur)])
           /\ WindowsOK(m.pc, m.stk[KStack(cur)], m.pt[2], kpt[2], low[cur][2])
<1>1. m.pc.at # "user"
  BY DEF Base, Above
<1>2. /\ IsMachine(m) /\ cur \in Procs /\ m.pt[0] = KStack(cur)
      /\ m.pt[15] = K15 /\ m.prev = K15 /\ m.vec = "kernel_vector"
      /\ ~m.timing /\ m.latch = {} /\ ~m.v
      /\ LevelsOK(m.pc, m.stk[KStack(cur)])
      /\ WindowsOK(m.pc, m.stk[KStack(cur)], m.pt[2], kpt[2], low[cur][2])
  BY <1>1 DEF TrapInv, TypeOK, Calm, KernelSide
<1>3. KStack(cur) \in Stacks
  BY <1>2, FrameTypes
<1>4. m.stk[KStack(cur)] \in Seq(Entry)
  BY <1>2, <1>3 DEF IsMachine
<1>. QED  BY <1>2, <1>3, <1>4

\* The place in kernel code has the fields of one.
LEMMA CodeHere ==
    ASSUME NEW s, IsMachine(s), s.pc.at \in Base \cup Above PROVE s.pc \in CodeAt
<1>1. s.pc \in CodeAt \cup UserAt
  BY DEF IsMachine
<1>2. \A c \in UserAt : c.at = "user"
  BY DEF UserAt
<1>3. "user" \notin Base \cup Above
  BY DEF Base, Above
<1>. QED  BY <1>1, <1>2, <1>3

-----------------------------------------------------------------------------
(* The first states, the way of a trap into the kernel and out of it, and the  *)
(* switch of processes.                                                       *)

\* The first states: init runs in user code, and no other process exists.
LEMMA TrapInit ==
    ASSUME Init PROVE TrapInv
<1>. DEFINE I == InitProc
            T == Table(I, {UFrame(I, 0)})
            K == [f \in Stacks |-> <<>>]
<1>0. I \in Procs /\ {UFrame(I, 0)} \in Gifts(I)
  BY TrapAssumption DEF Gifts
<1>1. /\ own = [p \in Procs |-> IF p = I THEN {UFrame(p, 0)} ELSE {}] /\ kpt = KernelTable(I)
      /\ raft = [ctx |-> [pc |-> m.pc, i |-> FALSE], pt |-> m.pt] /\ pcb = [p \in Procs |-> raft]
      /\ low = [p \in Procs |-> [n \in {0, 2} |-> KernelTable(p)[n]]]
      /\ state = [p \in Procs |-> IF p = I THEN "running" ELSE "unused"]
      /\ cur = I /\ first = TRUE /\ pos = [p \in Procs |-> 0]
      /\ leaked = {} /\ twice = {} /\ dropped = FALSE /\ panicked = FALSE
  BY DEF Init
<1>2. own[I] = {UFrame(I, 0)} /\ \A p \in Procs \ {I} : own[p] = {}
  BY <1>0, <1>1
<1>3. m = [pt |-> T, prev |-> NoFrame, cause |-> "none",
           v |-> FALSE, timing |-> FALSE, latch |-> {}, pending |-> FALSE, line |-> FALSE,
           i |-> FALSE, pc |-> User(I, 0, FALSE), vec |-> "irq_handler", stk |-> K]
  <2>1. m = [pt |-> Table(I, own[I]), prev |-> NoFrame, cause |-> "none",
             v |-> FALSE, timing |-> FALSE, latch |-> {}, pending |-> FALSE, line |-> FALSE,
             i |-> FALSE, pc |-> User(I, 0, FALSE), vec |-> "irq_handler", stk |-> K]
    BY DEF Init, Stacks
  <2>. QED  BY <1>2, <2>1
<1>4. T \in [Segs -> Frame] /\ T[0] = UFrame(I, 0) /\ T[2] = NoFrame
  BY <1>0, TableFrames
<1>5. K \in [Stacks -> Seq(Entry)] /\ \A f \in Stacks : K[f] = <<>>
  <2>1. <<>> \in Seq(Entry)
    BY EntrySeqs
  <2>. QED  BY <2>1
<1>6. User(I, 0, FALSE) \in UserAt /\ User(I, 0, FALSE).at = "user"
  BY <1>0 DEF User, UserAt
<1>. HIDE DEF I, T, K
<1>7. /\ DOMAIN m = Fields /\ m.pt = T /\ m.prev = NoFrame /\ m.cause = "none" /\ m.v = FALSE
      /\ m.timing = FALSE /\ m.latch = {} /\ m.pending = FALSE /\ m.line = FALSE /\ m.i = FALSE
      /\ m.pc = User(I, 0, FALSE) /\ m.vec = "irq_handler" /\ m.stk = K
  BY ONLY <1>3 DEF Fields
<1>8. IsMachine(m)
  <2>1. NoFrame \in Frame
    BY FrameTypes
  <2>. QED  BY <1>4, <1>5, <1>6, <1>7, <2>1 DEF IsMachine
<1>9. m.pc.at = "user"
  BY ONLY <1>6, <1>7, ZenonT(30)
<1>10. KernelTable(I) \in [Segs -> Frame]
  <2>1. KernelTable(I) = [n \in Segs |-> KernelTable(I)[n]]
    BY SMT DEF KernelTable, Segs
  <2>2. \A n \in Segs : KernelTable(I)[n] \in Frame
    BY <1>0, KernelTableFrames, FrameTypes DEF Segs
  <2>. HIDE DEF KernelTable
  <2>. QED  BY <2>1, <2>2
<1>11. TypeOK
  <2>1. raft \in Context
    <3>1. m.pc \in CodeAt \cup UserAt /\ m.pt \in [Segs -> Frame]
      BY <1>8 DEF IsMachine
    <3>. QED  BY ONLY <1>1, <3>1 DEF Context
  <2>2. pcb \in [Procs -> Context]
    <3>. HIDE DEF Context
    <3>. QED  BY <1>1, <2>1
  <2>3. low \in [Procs -> [{0, 2} -> Frame]]
    <3>1. ASSUME NEW p \in Procs PROVE [n \in {0, 2} |-> KernelTable(p)[n]] \in [{0, 2} -> Frame]
      BY KernelTableFrames, FrameTypes
    <3>. QED  BY <1>1, <3>1
  <2>4. own \in [Procs -> SUBSET Frame]
    <3>1. ASSUME NEW p \in Procs PROVE (IF p = I THEN {UFrame(p, 0)} ELSE {}) \in SUBSET Frame
      BY FrameTypes
    <3>. QED  BY <1>1, <3>1
  <2>. QED  BY <1>0, <1>1, <1>8, <1>10, <2>1, <2>2, <2>3, <2>4 DEF TypeOK
<1>12. Calm
  BY <1>0, <1>1, <1>7, <1>9, KernelTableFrames DEF Calm
<1>13. Others
  <2>1. \A p \in Procs : m.stk[KStack(p)] = <<>> /\ m.stk[UFrame(p, 0)] = <<>>
    BY <1>5, <1>7, FrameTypes
  <2>2. state[I] = "running" /\ \A p \in Procs : p # I => state[p] = "unused"
    BY <1>0, <1>1
  <2>. QED  BY <1>1, <2>1, <2>2 DEF Others
<1>14. Saved
  BY <1>0, <1>1, <1>2 DEF Saved
<1>15. UserSide
  <2>1. m.stk[KStack(cur)] = <<>> /\ raft.pt = T
    <3>1. KStack(cur) \in Stacks
      BY <1>0, <1>1, FrameTypes
    <3>. QED  BY <1>1, <1>5, <1>7, <3>1
  <2>2. T = Table(cur, own[cur])
    BY <1>1, <1>2 DEF T
  <2>. QED  BY <1>1, <1>4, <1>7, <2>1, <2>2 DEF UserSide
<1>16. UserCode
  <2>1. m.stk[UFrame(cur, 0)] = <<>> /\ pos[cur] = 0
    <3>1. UFrame(cur, 0) \in Stacks
      BY <1>0, <1>1, FrameTypes
    <3>. QED  BY <1>0, <1>1, <1>5, <1>7, <3>1
  <2>2. T = Table(cur, own[cur])
    BY <1>1, <1>2 DEF T
  <2>. QED  BY <1>1, <1>7, <2>1, <2>2 DEF UserCode
<1>17. Trampolines /\ KernelSide /\ Serving
  BY <1>7, <1>9 DEF Trampolines, KernelSide, Serving, Served, Base, Above
<1>18. LeakOnlyInTwoTraps
  BY <1>1 DEF LeakOnlyInTwoTraps
<1>. QED  BY <1>11, <1>12, <1>13, <1>14, <1>15, <1>16, <1>17, <1>18 DEF TrapInv

\* irq_handler saves the user's context in the life raft and enters the kernel.
LEMMA IrqHandlerStep ==
    ASSUME TrapInv, IrqHandler PROVE TrapInv'
<1>1. /\ m.pc.at = "irq_handler" /\ raft' = RaftAfter(m) /\ pcb' = [pcb EXCEPT ![cur] = RaftAfter(m)]
      /\ low' = [low EXCEPT ![cur] = [s \in {0, 2} |-> kpt[s]]] /\ first' = FALSE
      /\ UNCHANGED <<kpt, state, cur, own, pos, leaked, twice, dropped, panicked>>
  BY DEF IrqHandler, kernel_prologue
<1>2. /\ IsMachine(m) /\ cur \in Procs /\ kpt \in [Segs -> Frame] /\ raft \in Context
      /\ pcb \in [Procs -> Context] /\ low \in [Procs -> [{0, 2} -> Frame]] /\ first \in BOOLEAN
      /\ kpt = KernelTable(cur) /\ raft.pt = Table(cur, own[cur]) /\ m.stk[KStack(cur)] = <<>>
      /\ m.pt[0] = UFrame(cur, 0) /\ m.pt[15] = K15 /\ m.prev = Table(cur, own[cur])[15]
      /\ ~m.timing /\ m.latch = {} /\ ~m.v /\ state[cur] = "running"
  BY <1>1 DEF TrapInv, TypeOK, UserSide, OnUserStack, Trampolines, Calm, Others
<1>3. /\ UFrame(cur, 0) \in Stacks /\ KStack(cur) \in Stacks \ {UFrame(cur, 0)}
      /\ kpt[0] = KStack(cur) /\ kpt[2] = Home /\ kpt[15] = K15
  BY <1>2, FrameTypes, FramesDistinct, KernelTableFrames
<1>4. PICK b \in BOOLEAN : OneEntry(b)
  BY <1>1 DEF TrapInv, Trampolines
<1>5. PICK w \in BOOLEAN : m.stk[UFrame(cur, 0)] =
                              <<[pc |-> User(cur, pos[cur], w), i |-> FALSE, b |-> b]>>
  BY <1>4 DEF OneEntry
<1>. DEFINE k == m.stk[UFrame(cur, 0)]
            x == [pc |-> User(cur, pos[cur], w), i |-> FALSE, b |-> b]
            s == Trampoline(m)
            l == IF Pulled(m).b THEN "kernel" ELSE "prologue"
            j == ~(Pulled(m).b \/ first)
<1>6. x.pc = User(cur, pos[cur], w) /\ x.i = FALSE /\ x.b = b
  OBVIOUS
<1>7. k # <<>> /\ Head(k) = x /\ Tail(k) = <<>> /\ k = <<x>>
  <2>1. k = <<x>>
    BY <1>5
  <2>. HIDE DEF x, k
  <2>. QED  BY ONLY <2>1, SMT
<1>8. /\ IsMachine(s) /\ Differ(s, m, {"stk", "pt", "prev", "vec"})
      /\ s.stk = [m.stk EXCEPT ![m.pt[0]] = Tail(@)]
      /\ s.pt[0] = kpt[0] /\ s.pt[2] = kpt[2] /\ s.pt[15] = m.pt[15]
      /\ s.prev = kpt[15] /\ s.vec = "kernel_vector"
      /\ Pulled(m) = Head(m.stk[m.pt[0]]) /\ Pulled(m) \in Entry
  <2>1. m.pt[0] \in Stacks /\ m.stk[m.pt[0]] # <<>>
    BY <1>2, <1>3, <1>7
  <2>. QED  BY <1>2, <2>1, TrampolineType
<1>9. Pulled(m) = x
  BY <1>2, <1>7, <1>8
<1>10. Pulled(m).pc = User(cur, pos[cur], w) /\ Pulled(m).i = FALSE /\ Pulled(m).b = b
  BY <1>6, <1>9
<1>11. m' = [s EXCEPT !.pc = Code(l), !.i = j]
  BY DEF IrqHandler
<1>12. Code(l) \in CodeAt /\ Code(l).at = l /\ Code(l).win = "idle"
  BY CodeType DEF Labels
<1>13. j \in BOOLEAN /\ l \in {"kernel", "prologue"} /\ l \in Base /\ (b => l = "kernel") /\ (~b => l = "prologue")
  BY <1>10 DEF Base
<1>. HIDE DEF s, l, j, x, k
<1>14. Differ(m', s, {"pc", "i"}) /\ m'.pc = Code(l) /\ m'.i = j
  BY <1>8, <1>11 DEF IsMachine, Differ, Fields
<1>15. IsMachine(m')
  BY <1>8, <1>12, <1>13, <1>14 DEF IsMachine, Differ, Fields
<1>16. /\ m'.pt = s.pt /\ m'.prev = s.prev /\ m'.vec = s.vec /\ m'.stk = s.stk
       /\ m'.timing = m.timing /\ m'.latch = m.latch /\ m'.v = m.v /\ m'.line = m.line
       /\ m'.pending = m.pending
  <2>1. Differ(s, m, {"stk", "pt", "prev", "vec"})
    BY <1>8
  <2>. QED  BY <1>14, <2>1 DEF Differ, Fields
<1>17. /\ m'.stk[UFrame(cur, 0)] = <<>> /\ m'.stk[KStack(cur)] = <<>>
       /\ \A f \in Stacks \ {UFrame(cur, 0)} : m'.stk[f] = m.stk[f]
  <2>1. m.stk \in [Stacks -> Seq(Entry)] /\ m'.stk = [m.stk EXCEPT ![UFrame(cur, 0)] = Tail(k)]
    BY <1>2, <1>8, <1>16 DEF IsMachine, k
  <2>2. m'.stk[UFrame(cur, 0)] = <<>> /\ \A f \in Stacks \ {UFrame(cur, 0)} : m'.stk[f] = m.stk[f]
    BY <1>3, <1>7, <2>1
  <2>. QED  BY <1>2, <1>3, <2>2
<1>18. m'.pc.at = l /\ m'.pc.win = "idle" /\ m'.pc.at \in Base
  BY <1>12, <1>13, <1>14
<1>19. own[cur] \in Gifts(cur)
  <2>1. state[cur] # "unused"
    BY <1>2
  <2>. QED  BY <1>2, <2>1 DEF TrapInv, Saved
<1>20. /\ RaftAfter(m) \in Context /\ RaftAfter(m).pt = Table(cur, own[cur])
       /\ RaftAfter(m).ctx = [pc |-> User(cur, pos[cur], w), i |-> FALSE]
  <2>. DEFINE t == [raft.pt EXCEPT ![15] = m.prev]
              c == [pc |-> Pulled(m).pc, i |-> Pulled(m).i]
  <2>1. Table(cur, own[cur]) \in [Segs -> Frame]
    BY <1>2, <1>19, TableFrames
  <2>2. t = Table(cur, own[cur])
    <3>1. t = [Table(cur, own[cur]) EXCEPT ![15] = Table(cur, own[cur])[15]]
      BY <1>2
    <3>. HIDE DEF t
    <3>. QED  BY <2>1, <3>1
  <2>3. c \in [pc : CodeAt \cup UserAt, i : BOOLEAN] /\ c = [pc |-> User(cur, pos[cur], w), i |-> FALSE]
    BY <1>8, <1>10 DEF Entry
  <2>4. RaftAfter(m) = [ctx |-> c, pt |-> t]
    BY DEF RaftAfter
  <2>. HIDE DEF t, c
  <2>5. [ctx |-> c, pt |-> t] \in Context
    <3>1. t \in [Segs -> Frame] /\ c \in [pc : CodeAt \cup UserAt, i : BOOLEAN]
      BY <2>1, <2>2, <2>3
    <3>. QED  BY ONLY <3>1 DEF Context
  <2>6. RaftAfter(m).pt = t /\ RaftAfter(m).ctx = c
    BY ONLY <2>4
  <2>. QED  BY <2>2, <2>3, <2>4, <2>5, <2>6
<1>21. pcb'[cur] = RaftAfter(m) /\ \A p \in Procs \ {cur} : pcb'[p] = pcb[p]
  <2>. HIDE DEF Context
  <2>. QED  BY <1>1, <1>2
<1>22. /\ low' \in [Procs -> [{0, 2} -> Frame]] /\ low'[cur][0] = KStack(cur) /\ low'[cur][2] = Home
       /\ \A p \in Procs \ {cur} : low'[p] = low[p]
  <2>. DEFINE t == [n \in {0, 2} |-> kpt[n]]
  <2>1. t \in [{0, 2} -> Frame] /\ t[0] = KStack(cur) /\ t[2] = Home
    <3>1. kpt[0] \in Frame /\ kpt[2] \in Frame
      BY <1>2 DEF Segs
    <3>. QED  BY <1>3, <3>1
  <2>2. low' = [low EXCEPT ![cur] = t]
    BY <1>1
  <2>. HIDE DEF t
  <2>. QED  BY <1>2, <2>1, <2>2
<1>23. TypeOK'
  <2>1. pcb' \in [Procs -> Context]
    BY <1>1, <1>2, <1>20
  <2>. QED  BY <1>1, <1>15, <1>20, <1>22, <2>1 DEF TrapInv, TypeOK
<1>24. Calm'
  BY <1>1, <1>2, <1>3, <1>16 DEF Calm
<1>25. Others'
  <2>1. Others /\ state' = state /\ cur' = cur
    BY <1>1 DEF TrapInv
  <2>2. ASSUME NEW p \in Procs, p # cur
        PROVE  m'.stk[KStack(p)] = m.stk[KStack(p)] /\ m'.stk[UFrame(p, 0)] = m.stk[UFrame(p, 0)]
    <3>1. KStack(p) \in Stacks \ {UFrame(cur, 0)} /\ UFrame(p, 0) \in Stacks \ {UFrame(cur, 0)}
      BY <2>2, FramesDistinct, FrameTypes
    <3>. QED  BY <1>17, <3>1
  <2>. QED  BY ONLY <2>1, <2>2, ZenonT(30) DEF Others, Waiting
<1>26. Saved'
  <2>1. \A p \in Procs : state[p] \in {"ready", "new"} => low'[p] = low[p] /\ pcb'[p] = pcb[p]
    BY <1>2, <1>21, <1>22
  <2>. QED  BY <1>1, <2>1 DEF TrapInv, Saved, SavedAs
<1>27. UserSide' /\ UserCode' /\ Trampolines'
  BY <1>13, <1>18 DEF UserSide, UserCode, Trampolines, OnUserStack
<1>28. KernelSide'
  <2>1. SavedAs(pcb[cur], cur)'
    BY <1>1, <1>20, <1>21 DEF SavedAs
  <2>2. LevelsOK(m'.pc, <<>>) /\ WindowsOK(m'.pc, <<>>, m'.pt[2], Home, Home)
    BY <1>18, NoLevels
  <2>. QED  BY <1>1, <1>2, <1>3, <1>8, <1>16, <1>17, <1>22, <2>1, <2>2 DEF KernelSide
<1>29. Serving'
  <2>1. CASE ~b
    BY <1>13, <1>18, <2>1 DEF Serving
  <2>2. CASE b
    <3>1. ~OneEntry(FALSE)
      <4>1. ASSUME NEW u, m.stk[UFrame(cur, 0)] = <<[pc |-> User(cur, pos[cur], u), i |-> FALSE, b |-> FALSE]>>
            PROVE  FALSE
        <5>. DEFINE y == [pc |-> User(cur, pos[cur], u), i |-> FALSE, b |-> FALSE]
        <5>1. y.b = FALSE
          OBVIOUS
        <5>2. <<y>> = <<x>>
          BY <1>7, <4>1 DEF k
        <5>. HIDE DEF y
        <5>3. y = x
          BY ONLY <5>2, SMTT(30)
        <5>. QED  BY <1>6, <2>2, <5>1, <5>3
      <4>. QED  BY <4>1 DEF OneEntry
    <3>2. Served
      BY <1>1, <3>1 DEF TrapInv, Serving
    <3>3. Served'
      BY <1>1, <1>16, <3>2 DEF Served
    <3>. QED  BY <1>13, <1>18, <3>3 DEF Serving
  <2>. QED  BY <2>1, <2>2
<1>30. LeakOnlyInTwoTraps'
  BY <1>1 DEF TrapInv, LeakOnlyInTwoTraps
<1>. QED  BY <1>23, <1>24, <1>25, <1>26, <1>27, <1>28, <1>29, <1>30 DEF TrapInv

\* kernel_epilogue puts the process's context back in the life raft.
LEMMA EpilogueStep ==
    ASSUME TrapInv, kernel_epilogue PROVE TrapInv'
<1>. DEFINE q == pcb[cur]
            t == [q.pt EXCEPT ![15] = m.pt[15]]
            u == INTER_OFF(m)
            s == [u EXCEPT !.vec = "irq_handler", !.pt = t, !.prev = q.pt[15], !.pc = Code("trap_rti")]
            x == [pc |-> q.ctx.pc, i |-> q.ctx.i, b |-> FALSE]
<1>1. /\ m.pc.at \in {"kernel", "epilogue"} /\ m.pc.win = "idle" /\ raft' = q
      /\ kpt' = [kpt EXCEPT ![0] = low[cur][0], ![2] = low[cur][2]] /\ m' = Push(s, x)
      /\ UNCHANGED <<pcb, low, state, cur, first, own, pos, leaked, twice, dropped, panicked>>
  BY DEF kernel_epilogue
<1>2. m.pc.at \in Base /\ m.pc.at \in Base \cup Above
  BY <1>1 DEF Base
<1>3. /\ IsMachine(m) /\ cur \in Procs /\ m.pt[0] = KStack(cur) /\ KStack(cur) \in Stacks
      /\ m.pt[15] = K15 /\ ~m.timing /\ m.latch = {} /\ ~m.v
      /\ LevelsOK(m.pc, m.stk[KStack(cur)])
      /\ WindowsOK(m.pc, m.stk[KStack(cur)], m.pt[2], kpt[2], low[cur][2])
  BY <1>2, KernelFacts
<1>4. m.stk[KStack(cur)] = <<>>
  BY <1>2, <1>3 DEF LevelsOK
<1>5. low[cur][2] = Home
  <2>1. WindowsOK(m.pc, <<>>, m.pt[2], kpt[2], low[cur][2]) /\ m.pc.win = "idle"
    BY <1>1, <1>3, <1>4
  <2>. QED  BY ONLY <2>1, NoLevelsHome
<1>6. /\ kpt \in [Segs -> Frame] /\ low \in [Procs -> [{0, 2} -> Frame]] /\ pcb \in [Procs -> Context]
      /\ kpt[15] = K15 /\ state[cur] = "running" /\ low[cur][0] = KStack(cur)
      /\ m.stk[UFrame(cur, 0)] = <<>> /\ SavedAs(q, cur) /\ Served
  <2>1. m.pc.at \notin {"irq_handler", "prologue", "kernel_vector"}
    BY <1>1
  <2>. QED  BY <1>2, <2>1 DEF TrapInv, TypeOK, Calm, Others, KernelSide, Serving
<1>7. own[cur] \in Gifts(cur)
  <2>1. state[cur] # "unused"
    BY <1>6
  <2>. QED  BY <1>3, <2>1 DEF TrapInv, Saved
<1>8. PICK w \in BOOLEAN : q.ctx = [pc |-> User(cur, pos[cur], w), i |-> FALSE]
  BY <1>6 DEF SavedAs
<1>9. q.pt = Table(cur, own[cur]) /\ q \in Context
  BY <1>3, <1>6 DEF SavedAs
<1>10. /\ Table(cur, own[cur]) \in [Segs -> Frame] /\ Table(cur, own[cur])[0] = UFrame(cur, 0)
       /\ Table(cur, own[cur])[2] = NoFrame
  BY <1>3, <1>7, TableFrames
<1>11. t \in [Segs -> Frame] /\ t[0] = UFrame(cur, 0) /\ t[2] = NoFrame /\ t[15] = K15
  <2>1. t = [Table(cur, own[cur]) EXCEPT ![15] = K15] /\ K15 \in Frame
    BY <1>3, <1>9, FrameTypes
  <2>. HIDE DEF t
  <2>. QED  BY ONLY <1>10, <2>1, SMTT(30) DEF Segs
<1>12. x = [pc |-> User(cur, pos[cur], w), i |-> FALSE, b |-> FALSE] /\ x \in Entry
  <2>1. q.ctx.pc = User(cur, pos[cur], w) /\ q.ctx.i = FALSE
    <3>. HIDE DEF q
    <3>. QED  BY ONLY <1>8
  <2>2. q.ctx.pc \in CodeAt \cup UserAt
    <3>. HIDE DEF q
    <3>. QED  BY <1>9 DEF Context
  <2>. QED  BY <2>1, <2>2, EntryType
<1>13. Differ(u, m, {"i"}) /\ u.i = TRUE
  BY <1>3 DEF INTER_OFF, IsMachine, Differ, Fields
<1>14. Code("trap_rti") \in CodeAt /\ Code("trap_rti").at = "trap_rti"
  BY CodeType DEF Labels
<1>15. q.pt[15] \in Frame
  BY <1>9, <1>10 DEF Segs
<1>. HIDE DEF q, t, u, x
<1>16. /\ Differ(s, u, {"vec", "pt", "prev", "pc"}) /\ s.vec = "irq_handler" /\ s.pt = t
       /\ s.prev = q.pt[15] /\ s.pc = Code("trap_rti")
  BY <1>13 DEF Differ, Fields
<1>. HIDE DEF s
<1>17. Differ(s, m, {"i", "vec", "pt", "prev", "pc"}) /\ s.i = TRUE
  BY <1>13, <1>16 DEF Differ, Fields
<1>18. IsMachine(s)
  BY <1>3, <1>11, <1>14, <1>15, <1>16, <1>17 DEF IsMachine, Differ, Fields
<1>19. UFrame(cur, 0) \in Stacks /\ KStack(cur) \in Stacks \ {UFrame(cur, 0)}
  BY <1>3, FrameTypes, FramesDistinct
<1>20. /\ IsMachine(m') /\ Differ(m', s, {"stk"})
       /\ m'.stk = [s.stk EXCEPT ![s.pt[0]] = <<x>> \o @]
  <2>1. s.pt[0] \in Stacks
    BY <1>11, <1>16, <1>19
  <2>. QED  BY <1>1, <1>12, <1>18, <2>1, PushType
<1>21. /\ m'.vec = "irq_handler" /\ m'.pt = t /\ m'.prev = Table(cur, own[cur])[15]
       /\ m'.pc = Code("trap_rti") /\ m'.i = TRUE /\ m'.timing = m.timing /\ m'.latch = m.latch
       /\ m'.v = m.v /\ m'.line = m.line /\ m'.pending = m.pending /\ s.stk = m.stk
  <2>1. Differ(m', s, {"stk"})
    BY <1>20
  <2>. QED  BY <1>9, <1>16, <1>17, <2>1 DEF Differ, Fields
<1>22. /\ m'.stk[UFrame(cur, 0)] = <<x>>
       /\ \A f \in Stacks \ {UFrame(cur, 0)} : m'.stk[f] = m.stk[f]
  <2>1. m.stk \in [Stacks -> Seq(Entry)] /\ m'.stk = [m.stk EXCEPT ![UFrame(cur, 0)] = <<x>> \o @]
    <3>1. s.pt[0] = UFrame(cur, 0) /\ s.stk = m.stk
      BY <1>11, <1>16, <1>21
    <3>2. m'.stk = [s.stk EXCEPT ![s.pt[0]] = <<x>> \o @]
      BY <1>20
    <3>. QED  BY <1>3, <3>1, <3>2 DEF IsMachine
  <2>2. m'.stk[UFrame(cur, 0)] = <<x>> \o m.stk[UFrame(cur, 0)]
    BY <1>19, <2>1
  <2>3. \A f \in Stacks \ {UFrame(cur, 0)} : m'.stk[f] = m.stk[f]
    BY <1>19, <2>1
  <2>. QED  BY <1>6, <2>2, <2>3, PushEmpty
<1>23. m'.pc.at = "trap_rti"
  BY ONLY <1>14, <1>21
<1>24. kpt' = KernelTable(cur) /\ kpt' \in [Segs -> Frame] /\ kpt'[15] = K15
  <2>1. KStack(cur) \in Frame /\ Home \in Frame
    BY <1>3, FrameTypes
  <2>2. kpt' = [kpt EXCEPT ![0] = KStack(cur), ![2] = Home]
    BY <1>1, <1>5, <1>6
  <2>3. kpt' \in [Segs -> Frame] /\ kpt'[0] = KStack(cur) /\ kpt'[2] = Home /\ kpt'[15] = K15
    BY ONLY <1>6, <2>1, <2>2, SMTT(30) DEF Segs
  <2>. QED  BY <1>3, <2>3, KernelTableFrames
<1>25. TypeOK'
  BY <1>1, <1>9, <1>20, <1>24 DEF TrapInv, TypeOK
<1>26. Calm'
  BY <1>3, <1>21, <1>24 DEF Calm
<1>27. Others'
  <2>1. Others /\ state' = state /\ cur' = cur
    BY <1>1 DEF TrapInv
  <2>2. ASSUME NEW p \in Procs, p # cur
        PROVE  m'.stk[KStack(p)] = m.stk[KStack(p)] /\ m'.stk[UFrame(p, 0)] = m.stk[UFrame(p, 0)]
    <3>1. KStack(p) \in Stacks \ {UFrame(cur, 0)} /\ UFrame(p, 0) \in Stacks \ {UFrame(cur, 0)}
      BY <2>2, FramesDistinct, FrameTypes
    <3>. QED  BY <1>22, <3>1
  <2>. QED  BY ONLY <2>1, <2>2, ZenonT(30) DEF Others, Waiting
<1>28. Saved'
  BY <1>1 DEF TrapInv, Saved, SavedAs
<1>29. UserSide'
  <2>1. m'.stk[KStack(cur)] = <<>>
    BY <1>4, <1>19, <1>22
  <2>2. m'.pt[0] = UFrame(cur, 0) /\ m'.pt[2] = NoFrame
    BY <1>11, <1>21
  <2>. QED  BY <1>1, <1>9, <1>21, <1>24, <2>1, <2>2 DEF UserSide
<1>30. UserCode' /\ KernelSide'
  BY <1>23 DEF UserCode, KernelSide, Base, Above
<1>31. Trampolines'
  <2>1. OneEntry(FALSE)'
    BY <1>1, <1>12, <1>22 DEF OneEntry
  <2>2. m'.pt[15] = K15
    BY <1>11, <1>21
  <2>. QED  BY <1>1, <1>21, <1>23, <2>1, <2>2 DEF Trampolines
<1>32. Serving'
  <2>1. Served'
    BY <1>1, <1>6, <1>21 DEF Served
  <2>. QED  BY <1>23, <2>1 DEF Serving
<1>33. LeakOnlyInTwoTraps'
  BY <1>1 DEF TrapInv, LeakOnlyInTwoTraps
<1>. QED  BY <1>25, <1>26, <1>27, <1>28, <1>29, <1>30, <1>31, <1>32, <1>33 DEF TrapInv

\* A switch to a process whose context is saved keeps the parts of the invariant
\* that are about the machine.
LEMMA SwitchInv ==
    ASSUME TrapInv, NEW s, NEW q \in Procs, SwitchFrom(s, q), kpt[0] = KStack(cur), kpt[2] = Home,
           q = cur \/ state[q] \in {"ready", "new"}, context_switch(s, q),
           SavedAs(pcb[q], q), pcb'[q] = pcb[q], own'[q] = own[q], pos' = pos, dropped' = dropped
    PROVE  /\ IsMachine(m') /\ kpt' \in [Segs -> Frame] /\ low' \in [Procs -> [{0, 2} -> Frame]] /\ cur' = q
           /\ Calm' /\ UserSide' /\ UserCode' /\ Trampolines' /\ KernelSide' /\ Serving'
           /\ \A f \in Stacks \ {KStack(q)} : m'.stk[f] = s.stk[f]
           /\ low'[cur][0] = KStack(cur) /\ low'[cur][2] = Home
           /\ \A p \in Procs \ {cur} : low'[p] = low[p]
<1>1. /\ IsMachine(s) /\ s.pt[15] = K15 /\ s.prev = K15 /\ s.vec = "kernel_vector"
      /\ ~s.v /\ ~s.timing /\ s.latch = {} /\ (s.line => s.pending \/ dropped)
      /\ s.stk[UFrame(q, 0)] = <<>> /\ Resumable(s, q)
  BY DEF SwitchFrom
<1>2. /\ cur \in Procs /\ kpt \in [Segs -> Frame] /\ low \in [Procs -> [{0, 2} -> Frame]] /\ kpt[15] = K15
  BY DEF TrapInv, TypeOK, Calm
<1>3. q # cur => low[q][0] = KStack(q) /\ low[q][2] = Home
  BY DEF TrapInv, Saved
<1>4. /\ AfterSwitch(m', s, q) /\ cur' = q
      /\ low' \in [Procs -> [{0, 2} -> Frame]] /\ \A p \in Procs \ {cur} : low'[p] = low[p]
      /\ low'[cur][0] = KStack(cur) /\ low'[cur][2] = Home
      /\ low'[q][0] = KStack(q) /\ low'[q][2] = Home
      /\ kpt' \in [Segs -> Frame] /\ kpt'[0] = KStack(q) /\ kpt'[2] = Home /\ kpt'[15] = kpt[15]
  BY <1>1, <1>2, <1>3, SwitchStep
<1>5. /\ IsMachine(m') /\ Differ(m', s, {"pt", "pc", "i", "stk"})
      /\ m'.pt[0] = KStack(q) /\ m'.pt[15] = K15
      /\ m'.stk[KStack(q)] = <<>> /\ \A f \in Stacks \ {KStack(q)} : m'.stk[f] = s.stk[f]
      /\ m'.pc.at \in {"kernel", "epilogue"} /\ m'.pc.win = "idle"
  BY <1>1, <1>4 DEF AfterSwitch
<1>6. /\ m'.prev = K15 /\ m'.vec = "kernel_vector" /\ ~m'.v /\ ~m'.timing /\ m'.latch = {}
      /\ m'.line => m'.pending \/ dropped
  BY <1>1, <1>5 DEF Differ, Fields
<1>7. m'.stk[UFrame(q, 0)] = <<>>
  <2>1. UFrame(q, 0) \in Stacks \ {KStack(q)}
    BY FrameTypes, FramesDistinct
  <2>. QED  BY <1>1, <1>5, <2>1
<1>8. Calm'
  BY <1>2, <1>4, <1>6 DEF Calm
<1>9. UserSide' /\ UserCode' /\ Trampolines'
  BY <1>5 DEF UserSide, UserCode, Trampolines, OnUserStack
<1>10. KernelSide'
  <2>1. SavedAs(pcb[cur], cur)'
    BY <1>4 DEF SavedAs
  <2>2. m'.pc.at \in Base
    BY <1>5 DEF Base
  <2>3. LevelsOK(m'.pc, <<>>) /\ WindowsOK(m'.pc, <<>>, m'.pt[2], Home, Home)
    BY <1>5, <2>2, NoLevels
  <2>. QED  BY <1>4, <1>5, <1>6, <1>7, <2>1, <2>3 DEF KernelSide
<1>11. Serving'
  BY <1>5, <1>6 DEF Serving, Served
<1>. QED  BY <1>4, <1>5, <1>8, <1>9, <1>10, <1>11

\* yield() leaves its place on the kernel stack and switches to a process that is
\* ready, or to itself.
LEMMA YieldStep ==
    ASSUME TrapInv, NEW q \in Procs, yield(q) PROVE TrapInv'
<1>. DEFINE x == [pc |-> m.pc, i |-> TRUE, b |-> FALSE]
            s == Push(m, x)
<1>1. /\ m.pc.at = "kernel" /\ m.pc.win = "idle" /\ (q = cur \/ state[q] \in {"ready", "new"})
      /\ context_switch(s, q)
      /\ state' = [[state EXCEPT ![cur] = "ready"] EXCEPT ![q] = "running"]
      /\ UNCHANGED <<raft, pcb, first, own, pos, leaked, twice, dropped, panicked>>
  BY DEF yield, Using
<1>2. m.pc.at \in Base /\ m.pc.at \in Base \cup Above
  BY <1>1 DEF Base
<1>3. /\ IsMachine(m) /\ cur \in Procs /\ m.pt[0] = KStack(cur) /\ KStack(cur) \in Stacks
      /\ m.pt[15] = K15 /\ m.prev = K15 /\ m.vec = "kernel_vector" /\ ~m.timing /\ m.latch = {} /\ ~m.v
      /\ LevelsOK(m.pc, m.stk[KStack(cur)]) /\ m.pc \in CodeAt
      /\ WindowsOK(m.pc, m.stk[KStack(cur)], m.pt[2], kpt[2], low[cur][2])
  BY <1>2, KernelFacts, CodeHere
<1>4. m.stk[KStack(cur)] = <<>>
  BY <1>2, <1>3 DEF LevelsOK
<1>5. kpt[2] = Home
  <2>1. WindowsOK(m.pc, <<>>, m.pt[2], kpt[2], low[cur][2]) /\ m.pc.win = "idle"
    BY <1>1, <1>3, <1>4
  <2>. QED  BY ONLY <2>1, NoLevelsHome
<1>6. /\ kpt[0] = KStack(cur) /\ state[cur] = "running" /\ m.stk[UFrame(cur, 0)] = <<>>
      /\ SavedAs(pcb[cur], cur) /\ Served
      /\ state \in [Procs -> {"unused", "new", "ready", "running"}]
  <2>1. m.pc.at \notin {"irq_handler", "prologue", "kernel_vector"}
    BY <1>1
  <2>. QED  BY <1>2, <2>1 DEF TrapInv, TypeOK, Others, KernelSide, Serving
<1>7. x \in Entry /\ x = [pc |-> m.pc, i |-> TRUE, b |-> FALSE]
  BY <1>3, EntryType
<1>. HIDE DEF x
<1>8. /\ IsMachine(s) /\ Differ(s, m, {"stk"}) /\ s.stk = [m.stk EXCEPT ![m.pt[0]] = <<x>> \o @]
  BY <1>3, <1>7, PushType
<1>. HIDE DEF s
<1>9. s.stk[KStack(cur)] = <<x>> /\ \A f \in Stacks \ {KStack(cur)} : s.stk[f] = m.stk[f]
  <2>1. m.stk \in [Stacks -> Seq(Entry)] /\ s.stk = [m.stk EXCEPT ![KStack(cur)] = <<x>> \o @]
    BY <1>3, <1>8 DEF IsMachine
  <2>2. s.stk[KStack(cur)] = <<x>> \o m.stk[KStack(cur)]
    BY <1>3, <2>1
  <2>3. \A f \in Stacks \ {KStack(cur)} : s.stk[f] = m.stk[f]
    BY <1>3, <2>1
  <2>. QED  BY <1>4, <2>2, <2>3, PushEmpty
<1>10. ASSUME NEW p \in Procs
       PROVE  /\ s.stk[UFrame(p, 0)] = m.stk[UFrame(p, 0)]
              /\ p # cur => s.stk[KStack(p)] = m.stk[KStack(p)]
  <2>1. UFrame(p, 0) \in Stacks \ {KStack(cur)} /\ (p # cur => KStack(p) \in Stacks \ {KStack(cur)})
    BY FrameTypes, FramesDistinct
  <2>. QED  BY <1>9, <2>1
<1>11. Resumable(s, q)
  <2>1. CASE q = cur
    <3>1. state[q] # "new" /\ s.stk[KStack(q)] = <<[pc |-> m.pc, i |-> TRUE, b |-> FALSE]>>
      BY <1>6, <1>7, <1>9, <2>1
    <3>. QED  BY <1>1, <1>3, <3>1 DEF Resumable
  <2>2. CASE q # cur
    <3>1. s.stk[KStack(q)] = m.stk[KStack(q)] /\ state[q] \in {"ready", "new"}
      BY <1>1, <1>10, <2>2
    <3>2. Others
      BY DEF TrapInv
    <3>. QED  BY ONLY <2>2, <3>1, <3>2, q \in Procs, SMTT(30) DEF Resumable, Others, Waiting
  <2>. QED  BY <2>1, <2>2
<1>12. SwitchFrom(s, q) /\ SavedAs(pcb[q], q)
  <2>1. /\ s.pt[15] = K15 /\ s.prev = K15 /\ s.vec = "kernel_vector"
        /\ ~s.v /\ ~s.timing /\ s.latch = {} /\ (s.line => s.pending \/ dropped)
    BY <1>3, <1>6, <1>8 DEF Differ, Fields, Served
  <2>2. s.stk[UFrame(q, 0)] = <<>>
    BY <1>6, <1>10 DEF TrapInv, Others
  <2>3. SavedAs(pcb[q], q)
    BY <1>1, <1>6 DEF TrapInv, Saved
  <2>. QED  BY <1>8, <1>11, <2>1, <2>2, <2>3 DEF SwitchFrom
<1>13. /\ IsMachine(m') /\ kpt' \in [Segs -> Frame] /\ low' \in [Procs -> [{0, 2} -> Frame]] /\ cur' = q
       /\ Calm' /\ UserSide' /\ UserCode' /\ Trampolines' /\ KernelSide' /\ Serving'
       /\ \A f \in Stacks \ {KStack(q)} : m'.stk[f] = s.stk[f]
       /\ low'[cur][0] = KStack(cur) /\ low'[cur][2] = Home
       /\ \A p \in Procs \ {cur} : low'[p] = low[p]
  BY <1>1, <1>5, <1>6, <1>12, SwitchInv
<1>14. /\ state' \in [Procs -> {"unused", "new", "ready", "running"}] /\ state'[q] = "running"
       /\ q # cur => state'[cur] = "ready"
       /\ \A p \in Procs : p # q /\ p # cur => state'[p] = state[p]
  BY <1>1, <1>3, <1>6
<1>15. TypeOK'
  BY <1>1, <1>13, <1>14 DEF TrapInv, TypeOK
<1>16. Others'
  <2>1. ASSUME NEW p \in Procs, p # q
        PROVE  m'.stk[KStack(p)] = s.stk[KStack(p)] /\ m'.stk[UFrame(p, 0)] = m.stk[UFrame(p, 0)]
    <3>1. KStack(p) \in Stacks \ {KStack(q)} /\ UFrame(p, 0) \in Stacks \ {KStack(q)}
      BY <2>1, FramesDistinct, FrameTypes
    <3>. QED  BY <1>10, <1>13, <3>1
  <2>2. ASSUME NEW p \in Procs, p # q, p = cur
        PROVE  m'.stk[UFrame(p, 0)] = <<>> /\ state'[p] = "ready" /\ Waiting(p)'
    <3>1. m'.stk[KStack(p)] = <<[pc |-> m.pc, i |-> TRUE, b |-> FALSE]>>
      BY <1>7, <1>9, <2>1, <2>2
    <3>2. Waiting(p)'
      BY <1>1, <1>3, <3>1 DEF Waiting
    <3>. QED  BY <1>6, <1>14, <2>1, <2>2, <3>2
  <2>3. ASSUME NEW p \in Procs, p # q, p # cur
        PROVE  /\ state'[p] = state[p] /\ m'.stk[UFrame(p, 0)] = m.stk[UFrame(p, 0)]
               /\ m'.stk[KStack(p)] = m.stk[KStack(p)]
    BY <1>10, <1>14, <2>1, <2>3
  <2>4. Others /\ cur' = q /\ state'[q] = "running"
    BY <1>13, <1>14 DEF TrapInv
  <2>5. ASSUME NEW p \in Procs, p # q
        PROVE  /\ state'[p] # "running" /\ m'.stk[UFrame(p, 0)] = <<>>
               /\ state'[p] = "ready" => Waiting(p)'
               /\ state'[p] # "ready" => m'.stk[KStack(p)] = <<>>
    <3>1. CASE p = cur
      BY <2>2, <2>5, <3>1
    <3>2. CASE p # cur
      <4>1. /\ state'[p] = state[p] /\ m'.stk[UFrame(p, 0)] = m.stk[UFrame(p, 0)]
            /\ m'.stk[KStack(p)] = m.stk[KStack(p)]
        BY <2>3, <2>5, <3>2
      <4>. QED  BY ONLY <2>4, <2>5, <3>2, <4>1, ZenonT(30) DEF Others, Waiting
    <3>. QED  BY <3>1, <3>2
  <2>. QED  BY ONLY <2>4, <2>5, SMTT(30) DEF Others
<1>17. Saved'
  <2>1. ASSUME NEW p \in Procs, state'[p] # "unused" PROVE (own[p] \in Gifts(p))'
    <3>1. state[p] # "unused"
      BY <1>1, <1>6, <1>14, <2>1
    <3>. QED  BY <1>1, <3>1 DEF TrapInv, Saved, Gifts
  <2>2. ASSUME NEW p \in Procs, state'[p] \in {"ready", "new"}
        PROVE  SavedAs(pcb[p], p)' /\ low'[p][0] = KStack(p) /\ low'[p][2] = Home
    <3>1. p # q
      BY <1>14, <2>2
    <3>2. CASE p = cur
      BY <1>1, <1>6, <1>13, <3>2 DEF SavedAs
    <3>3. CASE p # cur
      <4>1. state[p] \in {"ready", "new"} /\ low'[p] = low[p]
        BY <1>13, <1>14, <2>2, <3>1, <3>3
      <4>2. SavedAs(pcb[p], p) /\ low[p][0] = KStack(p) /\ low[p][2] = Home
        BY <4>1 DEF TrapInv, Saved
      <4>. QED  BY <1>1, <4>1, <4>2 DEF SavedAs
    <3>. QED  BY <3>2, <3>3
  <2>. QED  BY <2>1, <2>2 DEF Saved
<1>18. LeakOnlyInTwoTraps'
  BY <1>1 DEF TrapInv, LeakOnlyInTwoTraps
<1>. QED  BY <1>13, <1>15, <1>16, <1>17, <1>18 DEF TrapInv

\* sys_fork() gives the child a copy of the parent's context and frames of its own.
LEMMA ForkStep ==
    ASSUME TrapInv, NEW p \in Procs, NEW o \in Gifts(p), sys_fork(p, o) PROVE TrapInv'
<1>. DEFINE x == [pcb[cur].ctx EXCEPT !.pc.proc = p]
            r == [ctx |-> x, pt |-> Table(p, o)]
            t == [n \in {0, 2} |-> KernelTable(p)[n]]
<1>1. /\ m.pc.at = "kernel" /\ state[p] = "unused" /\ state' = [state EXCEPT ![p] = "new"]
      /\ own' = [own EXCEPT ![p] = o] /\ pos' = [pos EXCEPT ![p] = pos[cur]]
      /\ pcb' = [pcb EXCEPT ![p] = r] /\ low' = [low EXCEPT ![p] = t]
      /\ UNCHANGED <<m, kpt, raft, cur, first, leaked, twice, dropped, panicked>>
  BY DEF sys_fork, Using
<1>2. /\ cur \in Procs /\ pcb \in [Procs -> Context] /\ low \in [Procs -> [{0, 2} -> Frame]]
      /\ state \in [Procs -> {"unused", "new", "ready", "running"}]
      /\ own \in [Procs -> SUBSET Frame] /\ pos \in [Procs -> {0, 1}]
      /\ state[cur] = "running" /\ SavedAs(pcb[cur], cur)
  BY <1>1 DEF TrapInv, TypeOK, Others, KernelSide, Base
<1>3. p # cur
  BY <1>1, <1>2
<1>4. PICK w \in BOOLEAN : pcb[cur].ctx = [pc |-> User(cur, pos[cur], w), i |-> FALSE]
  BY <1>2 DEF SavedAs
<1>5. x = [pc |-> User(p, pos[cur], w), i |-> FALSE]
  <2>. DEFINE a == User(cur, pos[cur], w)
              c == [a EXCEPT !.proc = p]
              y == pcb[cur].ctx
  <2>1. c \in [at : {"user"}, proc : {p}, pos : {pos[cur]}, wild : {w}]
    BY DEF User
  <2>2. y = [pc |-> a, i |-> FALSE] /\ x = [y EXCEPT !.pc.proc = p]
    BY <1>4
  <2>. HIDE DEF a, y, x
  <2>3. y.pc = a
    BY ONLY <2>2
  <2>4. x = [y EXCEPT !.pc = c]
    BY ONLY <2>2, <2>3, SMTT(30)
  <2>. HIDE DEF c
  <2>5. c = User(p, pos[cur], w)
    BY ONLY <2>1, SMT DEF User
  <2>6. x = [[pc |-> a, i |-> FALSE] EXCEPT !.pc = c]
    BY ONLY <2>2, <2>4, ZenonT(30)
  <2>7. x = [pc |-> c, i |-> FALSE]
    BY ONLY <2>6, ZenonT(30)
  <2>. QED  BY <2>5, <2>7
<1>. HIDE DEF x
<1>6. r \in Context /\ r.ctx = [pc |-> User(p, pos[cur], w), i |-> FALSE] /\ r.pt = Table(p, o)
  <2>1. Table(p, o) \in [Segs -> Frame]
    BY TableFrames
  <2>2. User(p, pos[cur], w) \in UserAt
    BY <1>2 DEF User, UserAt
  <2>3. x \in [pc : CodeAt \cup UserAt, i : BOOLEAN]
    BY <1>5, <2>2
  <2>4. r \in Context
    BY ONLY <2>1, <2>3 DEF Context
  <2>. QED  BY <1>5, <2>4
<1>7. t \in [{0, 2} -> Frame] /\ t[0] = KStack(p) /\ t[2] = Home
  BY FrameTypes, KernelTableFrames
<1>. HIDE DEF r, t
<1>8. /\ state' \in [Procs -> {"unused", "new", "ready", "running"}] /\ state'[p] = "new"
      /\ own' \in [Procs -> SUBSET Frame] /\ own'[p] = o
      /\ pos' \in [Procs -> {0, 1}] /\ pos'[p] = pos[cur]
      /\ \A q \in Procs \ {p} : state'[q] = state[q] /\ own'[q] = own[q] /\ pos'[q] = pos[q]
  <2>1. o \in SUBSET Frame
    <3>1. o \subseteq {UFrame(p, 0), UFrame(p, 15)}
      BY TableFrames
    <3>2. UFrame(p, 0) \in Frame /\ UFrame(p, 15) \in Frame
      BY FrameTypes
    <3>. QED  BY <3>1, <3>2
  <2>2. own' \in [Procs -> SUBSET Frame] /\ own'[p] = o /\ \A q \in Procs \ {p} : own'[q] = own[q]
    BY <1>1, <1>2, <2>1
  <2>3. pos[cur] \in {0, 1}
    BY <1>2
  <2>4. pos' \in [Procs -> {0, 1}] /\ pos'[p] = pos[cur] /\ \A q \in Procs \ {p} : pos'[q] = pos[q]
    BY <1>1, <1>2, <2>3
  <2>. QED  BY <1>1, <1>2, <2>2, <2>4
<1>9. /\ pcb' \in [Procs -> Context] /\ pcb'[p] = r /\ \A q \in Procs \ {p} : pcb'[q] = pcb[q]
      /\ low' \in [Procs -> [{0, 2} -> Frame]] /\ low'[p] = t /\ \A q \in Procs \ {p} : low'[q] = low[q]
  <2>1. pcb' \in [Procs -> Context] /\ pcb'[p] = r /\ \A q \in Procs \ {p} : pcb'[q] = pcb[q]
    <3>1. r \in Context
      BY <1>6
    <3>. HIDE DEF Context
    <3>. QED  BY <1>1, <1>2, <3>1
  <2>. QED  BY <1>1, <1>2, <1>7, <2>1
<1>10. TypeOK'
  BY <1>1, <1>8, <1>9 DEF TrapInv, TypeOK
<1>11. Calm' /\ Serving' /\ LeakOnlyInTwoTraps'
  BY <1>1 DEF TrapInv, Calm, Serving, Served, LeakOnlyInTwoTraps
<1>12. UserSide' /\ UserCode' /\ Trampolines'
  BY <1>1 DEF UserSide, UserCode, Trampolines, OnUserStack
<1>13. Others'
  <2>1. Others /\ m' = m /\ cur' = cur
    BY <1>1 DEF TrapInv
  <2>2. state'[cur] = "running"
    BY <1>2, <1>3, <1>8
  <2>3. ASSUME NEW q \in Procs, q # cur
        PROVE  /\ state'[q] # "running" /\ m.stk[UFrame(q, 0)] = <<>>
               /\ state'[q] = "ready" => Waiting(q)
               /\ state'[q] # "ready" => m.stk[KStack(q)] = <<>>
    <3>1. CASE q = p
      <4>1. state'[q] = "new" /\ state[q] = "unused"
        BY <1>1, <1>8, <3>1
      <4>. QED  BY <2>1, <2>3, <4>1 DEF Others
    <3>2. CASE q # p
      <4>1. state'[q] = state[q]
        BY <1>8, <3>2
      <4>. QED  BY <2>1, <2>3, <4>1 DEF Others
    <3>. QED  BY <3>1, <3>2
  <2>. QED  BY ONLY <2>1, <2>2, <2>3, SMTT(30) DEF Others, Waiting
<1>14. ASSUME NEW q \in Procs, q # p, SavedAs(pcb[q], q) PROVE SavedAs(pcb[q], q)'
  BY <1>8, <1>9, <1>14 DEF SavedAs
<1>15. Saved'
  <2>1. SavedAs(pcb[p], p)' /\ (own[p] \in Gifts(p))' /\ low'[p][0] = KStack(p) /\ low'[p][2] = Home
    BY <1>6, <1>7, <1>8, <1>9 DEF SavedAs
  <2>2. ASSUME NEW q \in Procs, q # p, state'[q] # "unused" PROVE (own[q] \in Gifts(q))'
    BY <1>8, <2>2 DEF TrapInv, Saved
  <2>3. ASSUME NEW q \in Procs, q # p, state'[q] \in {"ready", "new"}
        PROVE  SavedAs(pcb[q], q)' /\ low'[q][0] = KStack(q) /\ low'[q][2] = Home
    <3>1. SavedAs(pcb[q], q) /\ low[q][0] = KStack(q) /\ low[q][2] = Home /\ low'[q] = low[q]
      BY <1>8, <1>9, <2>3 DEF TrapInv, Saved
    <3>. QED  BY <1>14, <2>3, <3>1
  <2>. QED  BY <2>1, <2>2, <2>3 DEF Saved
<1>16. KernelSide'
  <2>1. low'[cur] = low[cur] /\ SavedAs(pcb[cur], cur)' /\ UNCHANGED <<m, kpt, cur>>
    <3>1. UNCHANGED <<m, kpt, cur>> /\ low'[cur] = low[cur] /\ pcb'[cur] = pcb[cur]
          /\ own'[cur] = own[cur] /\ pos'[cur] = pos[cur]
      BY <1>1, <1>2, <1>3, <1>8, <1>9
    <3>. QED  BY <1>2, <3>1 DEF SavedAs
  <2>. QED  BY <2>1 DEF TrapInv, KernelSide
<1>. QED  BY <1>10, <1>11, <1>12, <1>13, <1>15, <1>16 DEF TrapInv

-----------------------------------------------------------------------------
(* The kernel code of a process. *)

\* What a step inside the kernel must show.
LEMMA KernelStep ==
    ASSUME TrapInv, m.pc.at \in Base \cup Above, m'.pc.at \in Base \cup Above,
           UNCHANGED <<raft, pcb, state, cur, first, own, pos, leaked, twice, panicked>>,
           IsMachine(m'), kpt' \in [Segs -> Frame], kpt'[0] = kpt[0], kpt'[15] = kpt[15],
           low' \in [Procs -> [{0, 2} -> Frame]], low'[cur][0] = low[cur][0],
           \A p \in Procs \ {cur} : low'[p] = low[p], dropped' \in BOOLEAN,
           m'.pt[0] = m.pt[0], m'.pt[15] = m.pt[15], m'.prev = m.prev, m'.vec = m.vec, m'.v = m.v,
           m'.timing = m.timing, m'.latch = m.latch,
           \A f \in Stacks \ {KStack(cur)} : m'.stk[f] = m.stk[f],
           LevelsOK(m'.pc, m'.stk[KStack(cur)]),
           WindowsOK(m'.pc, m'.stk[KStack(cur)], m'.pt[2], kpt'[2], low'[cur][2]),
           Serving'
    PROVE  TrapInv'
<1>1. TypeOK'
  BY DEF TrapInv, TypeOK
<1>2. m.pc.at # "user" /\ m'.pc.at \notin OnUserStack
  BY DEF Base, Above, OnUserStack
<1>3. Calm'
  BY <1>2 DEF TrapInv, Calm
<1>4. cur \in Procs /\ m'.stk[UFrame(cur, 0)] = m.stk[UFrame(cur, 0)]
  <2>1. cur \in Procs
    BY DEF TrapInv, TypeOK
  <2>2. UFrame(cur, 0) \in Stacks \ {KStack(cur)}
    BY <2>1, FramesDistinct, FrameTypes
  <2>. QED  BY <2>1, <2>2
<1>5. ASSUME NEW p \in Procs, p # cur
      PROVE  m'.stk[KStack(p)] = m.stk[KStack(p)] /\ m'.stk[UFrame(p, 0)] = m.stk[UFrame(p, 0)]
  <2>1. KStack(p) \in Stacks \ {KStack(cur)} /\ UFrame(p, 0) \in Stacks \ {KStack(cur)}
    BY <1>5, FramesDistinct, FrameTypes
  <2>. QED  BY <2>1
<1>6. Others'
  <2>1. Others /\ state' = state /\ cur' = cur
    BY DEF TrapInv
  <2>. QED  BY ONLY <1>5, <2>1, ZenonT(30) DEF Others, Waiting
<1>7. Saved'
  <2>1. state[cur] = "running"
    BY DEF TrapInv, Others
  <2>2. \A p \in Procs : state[p] \in {"ready", "new"} => low'[p] = low[p]
    BY <2>1
  <2>. QED  BY <2>2 DEF TrapInv, Saved, SavedAs
<1>8. UserSide' /\ UserCode' /\ Trampolines'
  BY <1>2 DEF UserSide, UserCode, Trampolines, OnUserStack
<1>9. KernelSide'
  <2>1. /\ m.pt[0] = KStack(cur) /\ kpt[0] = KStack(cur) /\ low[cur][0] = KStack(cur)
        /\ m.pt[15] = K15 /\ m.prev = K15 /\ m.vec = "kernel_vector"
        /\ m.stk[UFrame(cur, 0)] = <<>> /\ SavedAs(pcb[cur], cur)
    BY DEF TrapInv, KernelSide
  <2>2. SavedAs(pcb[cur], cur)'
    BY <2>1 DEF SavedAs
  <2>. QED  BY <1>4, <2>1, <2>2 DEF KernelSide
<1>10. LeakOnlyInTwoTraps'
  BY DEF TrapInv, LeakOnlyInTwoTraps
<1>. QED  BY <1>1, <1>3, <1>6, <1>7, <1>8, <1>9, <1>10 DEF TrapInv

\* A step that leaves the stacks alone.
LEMMA SameStack ==
    ASSUME TrapInv, m.pc.at \in Base \cup Above,
           UNCHANGED <<raft, pcb, state, cur, first, own, pos, leaked, twice, panicked>>,
           kpt' \in [Segs -> Frame], kpt'[0] = kpt[0], kpt'[15] = kpt[15],
           low' \in [Procs -> [{0, 2} -> Frame]], low'[cur][0] = low[cur][0],
           \A p \in Procs \ {cur} : low'[p] = low[p], dropped' \in BOOLEAN,
           Differ(m', m, {"pc", "pt", "i", "line"}), m'.pc \in CodeAt, m'.i \in BOOLEAN,
           m'.line \in BOOLEAN, m'.pt \in [Segs -> Frame],
           m'.pt[0] = m.pt[0], m'.pt[15] = m.pt[15],
           m'.pc.at \in IF m.pc.at \in Base THEN Base ELSE Above,
           m'.pc.at \in {"epilogue", "kernel_vector", "vector_rti"} => m'.pc.win = "idle",
           WindowsOK(m'.pc, m.stk[KStack(cur)], m'.pt[2], kpt'[2], low'[cur][2]),
           Serving'
    PROVE  TrapInv'
<1>1. IsMachine(m)
  BY KernelFacts
<1>2. IsMachine(m')
  BY <1>1 DEF IsMachine, Differ, Fields
<1>3. /\ m'.prev = m.prev /\ m'.vec = m.vec /\ m'.v = m.v /\ m'.timing = m.timing /\ m'.latch = m.latch
      /\ m'.stk = m.stk
  BY DEF Differ, Fields
<1>4. \A f \in Stacks \ {KStack(cur)} : m'.stk[f] = m.stk[f]
  BY <1>3
<1>5. m'.pc.at \in Base \cup Above
  OBVIOUS
<1>6. LevelsOK(m'.pc, m'.stk[KStack(cur)])
  <2>1. LevelsOK(m.pc, m.stk[KStack(cur)])
    BY KernelFacts
  <2>2. \A l : l \in Base => l \notin Above
    BY DEF Base, Above
  <2>. QED  BY <1>3, <2>1, <2>2, ZenonT(120) DEF LevelsOK
<1>7. WindowsOK(m'.pc, m'.stk[KStack(cur)], m'.pt[2], kpt'[2], low'[cur][2])
  BY <1>3
<1>. QED  BY <1>2, <1>3, <1>4, <1>5, <1>6, <1>7, KernelStep

\* The CPU takes an interrupt in the kernel, at code and stack marked as torn.
LEMMA KernelIrq ==
    ASSUME TrapInv, m.pc.at \in Busy \cup {"vector_rti"}, UNCHANGED memory, m.i \in BOOLEAN,
           NEW s, IsMachine(s), Differ(s, m, {"pc", "stk"}), s.pc \in CodeAt, s.pc.at = m.pc.at,
           \A f \in Stacks \ {KStack(cur)} : s.stk[f] = m.stk[f],
           LevelsOK(s.pc, s.stk[KStack(cur)]),
           WindowsOK(s.pc, s.stk[KStack(cur)], m.pt[2], kpt[2], low[cur][2]),
           s.pc.win = "hw" => s.pc.torn,
           s.pc.win = "unhw" => \A n \in 1 .. Len(s.stk[KStack(cur)]) : s.stk[KStack(cur)][n].pc.torn,
           AfterIrq(m', s)
    PROVE  TrapInv'
<1>. DEFINE k == s.stk[KStack(cur)]
            g == <<[pc |-> s.pc, i |-> s.i, b |-> FALSE]>> \o k
<1>1. m.pc.at \in Base \cup Above
  BY DEF Busy, Base, Above
<1>2. /\ IsMachine(m) /\ cur \in Procs /\ m.pt[0] = KStack(cur) /\ KStack(cur) \in Stacks
      /\ m.pt[15] = K15 /\ m.prev = K15 /\ m.vec = "kernel_vector" /\ ~m.timing /\ m.latch = {} /\ ~m.v
  BY <1>1, KernelFacts
<1>3. /\ s.pt = m.pt /\ s.vec = m.vec /\ s.timing = m.timing /\ s.latch = m.latch /\ s.v = m.v
  BY DEF Differ, Fields
<1>4. IsMachine(m') /\ Differ(m', s, {"stk", "i", "pc", "prev", "pending", "pt"})
  BY DEF AfterIrq
<1>5. /\ m'.vec = s.vec /\ m'.timing = s.timing /\ m'.latch = s.latch /\ m'.v = s.v
  BY <1>4 DEF Differ, Fields
<1>6. /\ m'.pt[0] = m.pt[0] /\ m'.pt[2] = m.pt[2] /\ m'.pt[15] = m.pt[15] /\ m'.prev = m.prev
      /\ m'.pc = Code("kernel_vector") /\ m'.i = TRUE
  BY <1>2, <1>3, ZenonT(120) DEF AfterIrq
<1>7. s.stk \in [Stacks -> Seq(Entry)] /\ k \in Seq(Entry) /\ s.i \in BOOLEAN
  BY <1>2 DEF IsMachine
<1>8. m'.stk[KStack(cur)] = g /\ \A f \in Stacks \ {KStack(cur)} : m'.stk[f] = m.stk[f]
  <2>1. m'.stk = [s.stk EXCEPT ![KStack(cur)] = g]
    BY <1>2, <1>3 DEF AfterIrq
  <2>. HIDE DEF g
  <2>. QED  BY <1>2, <1>7, <2>1
<1>9. LevelsOK(Code("kernel_vector"), g) /\ WindowsOK(Code("kernel_vector"), g, m.pt[2], kpt[2], low[cur][2])
  <2>1. /\ s.pc.at \in Busy \cup {"vector_rti"} /\ LevelsOK(s.pc, k) /\ s.pc \in CodeAt
        /\ WindowsOK(s.pc, k, m.pt[2], kpt[2], low[cur][2]) /\ (s.pc.win = "hw" => s.pc.torn)
        /\ s.pc.win = "unhw" => \A n \in 1 .. Len(k) : k[n].pc.torn
    OBVIOUS
  <2>. HIDE DEF k
  <2>. QED  BY ONLY <1>7, <2>1, IrqAbove, ZenonT(30)
<1>10. m'.pc.at = "kernel_vector"
  <2>1. Code("kernel_vector").at = "kernel_vector"
    BY DEF Code
  <2>. QED  BY ONLY <1>6, <2>1
<1>11. Serving'
  BY <1>6, <1>10 DEF Serving
<1>12. m'.pc.at \in Base \cup Above
  BY <1>10 DEF Above
<1>13. UNCHANGED <<kpt, raft, pcb, low, state, cur, first, own, pos, leaked, twice, dropped, panicked>>
  BY DEF memory
<1>14. kpt \in [Segs -> Frame] /\ low \in [Procs -> [{0, 2} -> Frame]] /\ dropped \in BOOLEAN
  BY DEF TrapInv, TypeOK
<1>15. LevelsOK(m'.pc, m'.stk[KStack(cur)])
  BY <1>6, <1>8, <1>9
<1>16. WindowsOK(m'.pc, m'.stk[KStack(cur)], m'.pt[2], kpt'[2], low'[cur][2])
  BY <1>6, <1>8, <1>9, <1>13
<1>17. m'.vec = m.vec /\ m'.timing = m.timing /\ m'.latch = m.latch /\ m'.v = m.v
  BY <1>3, <1>5
<1>. HIDE DEF g, k
<1>. QED  BY <1>1, <1>4, <1>6, <1>8, <1>11, <1>12, <1>13, <1>14, <1>15, <1>16, <1>17, KernelStep
=============================================================================
