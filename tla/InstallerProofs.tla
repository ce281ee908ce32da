--------------------------- MODULE InstallerProofs ---------------------------
(***************************************************************************)
(* Proofs about Installer, for any set of machines and sources and any     *)
(* number of attempts and faults.                                          *)
(***************************************************************************)
EXTENDS Installer, FiniteSetTheorems, TLAPS

----------------------------------------------------------------------------
(* The order of the steps.                                                 *)

StepNames ==
    {"stage_diskimage_tools", "extract_iso_lha", "mount_iso",
     "verify_cd_signature", "copy_base_os", "copy_installation_extras",
     "install_bootloader", "upd1", "upd2", "upd3", "install_enhancer",
     "install_ngf", "install_extras", "patch_amidock_prefs",
     "install_network_config", "install_serialshell", "quarantine_emu10kx",
     "quarantine_devs_monitors", "install_mcpd", "unmount_iso",
     "dismount_combi_device", "cleanup_tmp"}

Rank(x) ==
    CASE x = "stage_diskimage_tools" -> 1
      [] x = "extract_iso_lha" -> 2
      [] x = "mount_iso" -> 3
      [] x = "verify_cd_signature" -> 4
      [] x = "copy_base_os" -> 5
      [] x = "copy_installation_extras" -> 6
      [] x = "install_bootloader" -> 7
      [] x = "upd1" -> 8
      [] x = "upd2" -> 9
      [] x = "upd3" -> 10
      [] x = "install_enhancer" -> 11
      [] x = "install_ngf" -> 12
      [] x = "install_extras" -> 13
      [] x = "patch_amidock_prefs" -> 14
      [] x = "install_network_config" -> 15
      [] x = "install_serialshell" -> 16
      [] x = "quarantine_emu10kx" -> 17
      [] x = "quarantine_devs_monitors" -> 18
      [] x = "install_mcpd" -> 19
      [] x = "unmount_iso" -> 20
      [] x = "dismount_combi_device" -> 21
      [] x = "cleanup_tmp" -> 22

\* A sequence of steps between two ranks, in order.
Sorted(s, a, b) ==
    /\ s \in Seq(StepNames)
    /\ \A i \in 1..Len(s) : Rank(s[i]) \in a..b
    /\ \A i, j \in 1..Len(s) : i < j => Rank(s[i]) < Rank(s[j])

LEMMA RankType ==
    ASSUME NEW x \in StepNames
    PROVE  Rank(x) \in Nat
BY DEF StepNames, Rank

\* Two sequences in order, one before the other, make one in order.
LEMMA SortedConcat ==
    ASSUME NEW s, NEW t, NEW a \in Nat, NEW b \in Nat, NEW c \in Nat, NEW d \in Nat,
           Sorted(s, a, b), Sorted(t, c, d), b < c, a <= b, c <= d
    PROVE  Sorted(s \o t, a, d)
<1> DEFINE u == s \o t
<1>1. u \in Seq(StepNames) /\ Len(u) = Len(s) + Len(t)
  BY DEF Sorted
<1>2. \A i \in 1..Len(u) : u[i] = IF i <= Len(s) THEN s[i] ELSE t[i - Len(s)]
  BY DEF Sorted
<1>3. \A i \in 1..Len(s) : Rank(s[i]) \in a..b
  BY DEF Sorted
<1>4. \A i \in 1..Len(t) : Rank(t[i]) \in c..d
  BY DEF Sorted
<1>5. Len(s) \in Nat /\ Len(t) \in Nat
  BY DEF Sorted
<1>6. \A i \in 1..Len(u) : i > Len(s) => i - Len(s) \in 1..Len(t)
  BY <1>1, <1>5
<1> HIDE DEF u
<1>7. \A i \in 1..Len(u) : Rank(u[i]) \in a..d
  <2> TAKE i \in 1..Len(u)
  <2>1. CASE i <= Len(s)
    BY <2>1, <1>1, <1>2, <1>3, <1>5
  <2>2. CASE i > Len(s)
    BY <2>2, <1>1, <1>2, <1>4, <1>5, <1>6
  <2> QED BY <2>1, <2>2, <1>5
<1>8. ASSUME NEW i \in 1..Len(u), NEW j \in 1..Len(u), i < j
      PROVE  Rank(u[i]) < Rank(u[j])
  <2>1. CASE j <= Len(s)
    <3>1. u[i] = s[i] /\ u[j] = s[j] /\ i \in 1..Len(s) /\ j \in 1..Len(s)
      BY <2>1, <1>2, <1>8, <1>5
    <3> QED BY <3>1, <1>8 DEF Sorted
  <2>2. CASE i <= Len(s) /\ j > Len(s)
    <3>1. u[i] = s[i] /\ i \in 1..Len(s)
      BY <2>2, <1>2, <1>5
    <3>2. u[j] = t[j - Len(s)] /\ j - Len(s) \in 1..Len(t)
      BY <2>2, <1>2, <1>5, <1>6
    <3>3. Rank(s[i]) <= b /\ Rank(s[i]) \in Nat
      BY <3>1, <1>3
    <3>4. Rank(t[j - Len(s)]) >= c /\ Rank(t[j - Len(s)]) \in Nat
      BY <3>2, <1>4
    <3> QED BY <3>1, <3>2, <3>3, <3>4
  <2>3. CASE i > Len(s)
    <3>1. u[i] = t[i - Len(s)] /\ i - Len(s) \in 1..Len(t)
      BY <2>3, <1>2, <1>5, <1>6
    <3>2. u[j] = t[j - Len(s)] /\ j - Len(s) \in 1..Len(t) /\ i - Len(s) < j - Len(s)
      BY <2>3, <1>8, <1>2, <1>5, <1>6
    <3> QED BY <3>1, <3>2 DEF Sorted
  <2> QED BY <2>1, <2>2, <2>3, <1>5
<1> QED BY <1>1, <1>7, <1>8 DEF Sorted, u

LEMMA EmptySorted ==
    ASSUME NEW a \in Nat, NEW b \in Nat
    PROVE  Sorted(<<>>, a, b)
BY DEF Sorted

\* The steps of the updates of a machine.
UpdateSteps(m) == [i \in DOMAIN CONFIGS[m].updates |-> Update(CONFIGS[m].updates[i])]

LEMMA UpdatesSorted ==
    ASSUME NEW m \in DOMAIN CONFIGS
    PROVE  /\ Sorted(UpdateSteps(m), 8, 10)
           /\ Range(UpdateSteps(m)) = Updates(m)
<1>1. CASE m = "X5000"
  <2>1. CONFIGS[m].updates = <<2, 3>>
    BY <1>1 DEF CONFIGS, Config
  <2>2. UpdateSteps(m) = <<"upd2", "upd3">>
    BY <2>1 DEF UpdateSteps, Update
  <2> QED BY <2>1, <2>2 DEF Sorted, StepNames, Rank, Range, Updates, Update
<1>2. CASE m = "A1222"
  <2>1. CONFIGS[m].updates = <<3>>
    BY <1>2 DEF CONFIGS, Config
  <2>2. UpdateSteps(m) = <<"upd3">>
    BY <2>1 DEF UpdateSteps, Update
  <2> QED BY <2>1, <2>2 DEF Sorted, StepNames, Rank, Range, Updates, Update
<1>3. CASE m \in {"AmigaOne", "PegasosII", "Sam460"}
  <2>1. CONFIGS[m].updates = <<1, 2, 3>>
    BY <1>3 DEF CONFIGS, Config
  <2>2. UpdateSteps(m) = <<"upd1", "upd2", "upd3">>
    BY <2>1 DEF UpdateSteps, Update
  <2> QED BY <2>1, <2>2 DEF Sorted, StepNames, Rank, Range, Updates, Update
<1> QED BY <1>1, <1>2, <1>3 DEF CONFIGS

\* The steps that come before the updates, after the enhancer, and so on.
Opening == <<"stage_diskimage_tools", "extract_iso_lha", "mount_iso",
             "verify_cd_signature", "copy_base_os", "copy_installation_extras",
             "install_bootloader">>
Ngf(m) == IF CONFIGS[m].ngf THEN <<"install_ngf">> ELSE <<>>
Middle == <<"install_extras", "patch_amidock_prefs", "install_network_config",
            "install_serialshell">>
Quarantines(m) ==
    IF CONFIGS[m].quarantine
      THEN <<"quarantine_emu10kx", "quarantine_devs_monitors">> ELSE <<>>

LEMMA BuildParts ==
    ASSUME NEW m
    PROVE  BuildSequence(m) = Opening \o UpdateSteps(m) \o <<"install_enhancer">>
                              \o Ngf(m) \o Middle \o Quarantines(m) \o Teardown
BY DEF BuildSequence, Opening, UpdateSteps, Ngf, Middle, Quarantines

LEMMA PartsSorted ==
    ASSUME NEW m \in DOMAIN CONFIGS
    PROVE  /\ Sorted(Opening, 1, 7)
           /\ Sorted(<<"install_enhancer">>, 11, 11)
           /\ Sorted(Ngf(m), 12, 12)
           /\ Sorted(Middle, 13, 16)
           /\ Sorted(Quarantines(m), 17, 18)
           /\ Sorted(Teardown, 19, 22)
<1>1. Sorted(Opening, 1, 7)
  BY DEF Sorted, StepNames, Rank, Opening
<1>2. Sorted(<<"install_enhancer">>, 11, 11)
  BY DEF Sorted, StepNames, Rank
<1>3. Sorted(Ngf(m), 12, 12)
  <2>1. Sorted(<<"install_ngf">>, 12, 12)
    BY DEF Sorted, StepNames, Rank
  <2> QED BY <2>1, EmptySorted DEF Ngf
<1>4. Sorted(Middle, 13, 16)
  BY DEF Sorted, StepNames, Rank, Middle
<1>5. Sorted(Quarantines(m), 17, 18)
  <2>1. Sorted(<<"quarantine_emu10kx", "quarantine_devs_monitors">>, 17, 18)
    BY DEF Sorted, StepNames, Rank
  <2> QED BY <2>1, EmptySorted DEF Quarantines
<1>6. Sorted(Teardown, 19, 22)
  BY DEF Sorted, StepNames, Rank, Teardown
<1> QED BY <1>1, <1>2, <1>3, <1>4, <1>5, <1>6

\* build_sequence puts the steps of every machine in the same order.
LEMMA BuildSorted ==
    ASSUME NEW m \in DOMAIN CONFIGS
    PROVE  Sorted(BuildSequence(m), 1, 22)
<1>1. Sorted(Opening \o UpdateSteps(m), 1, 10)
  BY PartsSorted, UpdatesSorted, SortedConcat
<1>2. Sorted(Opening \o UpdateSteps(m) \o <<"install_enhancer">>, 1, 11)
  BY <1>1, PartsSorted, SortedConcat
<1>3. Sorted(Opening \o UpdateSteps(m) \o <<"install_enhancer">> \o Ngf(m), 1, 12)
  BY <1>2, PartsSorted, SortedConcat
<1>4. Sorted(Opening \o UpdateSteps(m) \o <<"install_enhancer">> \o Ngf(m) \o Middle, 1, 16)
  BY <1>3, PartsSorted, SortedConcat
<1>5. Sorted(Opening \o UpdateSteps(m) \o <<"install_enhancer">> \o Ngf(m) \o Middle
             \o Quarantines(m), 1, 18)
  BY <1>4, PartsSorted, SortedConcat
<1>6. Sorted(Opening \o UpdateSteps(m) \o <<"install_enhancer">> \o Ngf(m) \o Middle
             \o Quarantines(m) \o Teardown, 1, 22)
  BY <1>5, PartsSorted, SortedConcat
<1> QED BY <1>6, BuildParts

LEMMA RangeConcat ==
    ASSUME NEW S, NEW s \in Seq(S), NEW t \in Seq(S)
    PROVE  Range(s \o t) = Range(s) \cup Range(t)
<1>1. ASSUME NEW i \in DOMAIN (s \o t) PROVE (s \o t)[i] \in Range(s) \cup Range(t)
  <2>1. CASE i <= Len(s)
    BY <2>1 DEF Range
  <2>2. CASE i > Len(s)
    <3>1. (s \o t)[i] = t[i - Len(s)] /\ i - Len(s) \in DOMAIN t
      BY <2>2
    <3> QED BY <3>1 DEF Range
  <2> QED BY <2>1, <2>2
<1>2. ASSUME NEW i \in DOMAIN s PROVE s[i] \in Range(s \o t)
  <2>1. (s \o t)[i] = s[i] /\ i \in DOMAIN (s \o t)
    OBVIOUS
  <2> QED BY <2>1 DEF Range
<1>3. ASSUME NEW i \in DOMAIN t PROVE t[i] \in Range(s \o t)
  <2>1. (s \o t)[i + Len(s)] = t[i] /\ i + Len(s) \in DOMAIN (s \o t)
    OBVIOUS
  <2> QED BY <2>1 DEF Range
<1> QED BY <1>1, <1>2, <1>3 DEF Range

\* The steps every machine has.
Common == {"stage_diskimage_tools", "extract_iso_lha", "mount_iso",
           "verify_cd_signature", "copy_base_os", "copy_installation_extras",
           "install_bootloader", "install_enhancer", "install_extras",
           "patch_amidock_prefs", "install_network_config", "install_serialshell",
           "install_mcpd", "unmount_iso", "dismount_combi_device", "cleanup_tmp"}

LEMMA BuildRange ==
    ASSUME NEW m \in DOMAIN CONFIGS
    PROVE  Range(BuildSequence(m)) =
             Common \cup Updates(m)
             \cup (IF CONFIGS[m].ngf THEN {"install_ngf"} ELSE {})
             \cup (IF CONFIGS[m].quarantine
                     THEN {"quarantine_emu10kx", "quarantine_devs_monitors"} ELSE {})
<1> DEFINE p1 == Opening \o UpdateSteps(m)
           p2 == p1 \o <<"install_enhancer">>
           p3 == p2 \o Ngf(m)
           p4 == p3 \o Middle
           p5 == p4 \o Quarantines(m)
<1>0. /\ Opening \in Seq(StepNames) /\ UpdateSteps(m) \in Seq(StepNames)
      /\ <<"install_enhancer">> \in Seq(StepNames) /\ Ngf(m) \in Seq(StepNames)
      /\ Middle \in Seq(StepNames) /\ Quarantines(m) \in Seq(StepNames)
      /\ Teardown \in Seq(StepNames)
  BY PartsSorted, UpdatesSorted DEF Sorted
<1> HIDE DEF p1, p2, p3, p4, p5
<1>1. p1 \in Seq(StepNames) /\ Range(p1) = Range(Opening) \cup Range(UpdateSteps(m))
  BY <1>0, RangeConcat DEF p1
<1>2. p2 \in Seq(StepNames) /\ Range(p2) = Range(p1) \cup Range(<<"install_enhancer">>)
  <2> DEFINE e == <<"install_enhancer">>
  <2> HIDE DEF e
  <2>1. e \in Seq(StepNames)
    BY <1>0 DEF e
  <2>2. p1 \o e \in Seq(StepNames) /\ Range(p1 \o e) = Range(p1) \cup Range(e)
    BY <2>1, <1>1, RangeConcat
  <2> QED BY <2>2 DEF e, p2
<1>3. p3 \in Seq(StepNames) /\ Range(p3) = Range(p2) \cup Range(Ngf(m))
  BY <1>0, <1>2, RangeConcat DEF p3
<1>4. p4 \in Seq(StepNames) /\ Range(p4) = Range(p3) \cup Range(Middle)
  BY <1>0, <1>3, RangeConcat DEF p4
<1>5. p5 \in Seq(StepNames) /\ Range(p5) = Range(p4) \cup Range(Quarantines(m))
  BY <1>0, <1>4, RangeConcat DEF p5
<1>6. Range(BuildSequence(m)) = Range(p5) \cup Range(Teardown)
  <2>1. BuildSequence(m) = p5 \o Teardown
    BY BuildParts DEF p1, p2, p3, p4, p5
  <2> QED BY <2>1, <1>0, <1>5, RangeConcat
<1>7. Range(Opening) = {"stage_diskimage_tools", "extract_iso_lha", "mount_iso",
           "verify_cd_signature", "copy_base_os", "copy_installation_extras",
           "install_bootloader"}
  BY DEF Range, Opening
<1>8. /\ Range(<<"install_enhancer">>) = {"install_enhancer"}
      /\ Range(Ngf(m)) = IF CONFIGS[m].ngf THEN {"install_ngf"} ELSE {}
  BY DEF Range, Ngf
<1>9. Range(Middle) = {"install_extras", "patch_amidock_prefs",
                       "install_network_config", "install_serialshell"}
  BY DEF Range, Middle
<1>10. Range(Quarantines(m)) =
         IF CONFIGS[m].quarantine
           THEN {"quarantine_emu10kx", "quarantine_devs_monitors"} ELSE {}
  <2>1. CASE CONFIGS[m].quarantine
    <3>1. Quarantines(m) = <<"quarantine_emu10kx", "quarantine_devs_monitors">>
      BY <2>1 DEF Quarantines
    <3> QED BY <2>1, <3>1 DEF Range
  <2>2. CASE ~CONFIGS[m].quarantine
    <3>1. Quarantines(m) = <<>>
      BY <2>2 DEF Quarantines
    <3> QED BY <2>2, <3>1 DEF Range
  <2> QED BY <2>1, <2>2
<1>11. Range(Teardown) = {"install_mcpd", "unmount_iso", "dismount_combi_device",
                          "cleanup_tmp"}
  BY DEF Range, Teardown
<1>12. Range(BuildSequence(m)) =
         Range(Opening) \cup Updates(m) \cup Range(<<"install_enhancer">>)
         \cup Range(Ngf(m)) \cup Range(Middle) \cup Range(Quarantines(m))
         \cup Range(Teardown)
  BY <1>1, <1>2, <1>3, <1>4, <1>5, <1>6, UpdatesSorted
<1> QED BY <1>7, <1>8, <1>9, <1>10, <1>11, <1>12 DEF Common

\* What is left of a sequence in order is its steps from some rank on.
LEMMA SuffixOrder ==
    ASSUME NEW b, NEW s, Sorted(b, 1, 22), s \in Seq(StepNames), s # <<>>, Suffix(s, b)
    PROVE  \A y \in Range(b) : y \in Range(s) <=> Rank(y) >= Rank(Head(s))
<1>1. Len(s) \in Nat /\ Len(b) \in Nat /\ Len(s) >= 1 /\ Len(s) <= Len(b)
  BY DEF Sorted, Suffix
<1> DEFINE k == Len(b) - Len(s)
<1>2. k \in Nat /\ Head(s) = b[k + 1] /\ k + 1 \in 1..Len(b)
  BY <1>1 DEF Suffix
<1>3. \A i \in 1..Len(b) : b[i] \in StepNames /\ Rank(b[i]) \in Nat
  BY RankType DEF Sorted
<1>4. SUFFICES ASSUME NEW j \in 1..Len(b)
               PROVE  b[j] \in Range(s) <=> Rank(b[j]) >= Rank(Head(s))
  BY <1>1 DEF Range, Sorted
<1>5. CASE j > k
  <2>1. b[j] = s[j - k] /\ j - k \in 1..Len(s)
    BY <1>1, <1>5 DEF Suffix
  <2>2. b[j] \in Range(s)
    BY <2>1 DEF Range
  <2>3. j = k + 1 \/ k + 1 < j
    BY <1>5, <1>1
  <2>4. Rank(b[j]) >= Rank(b[k + 1])
    BY <2>3, <1>2, <1>3 DEF Sorted
  <2> QED BY <2>2, <2>4, <1>2
<1>6. CASE j <= k
  <2>1. Rank(b[j]) < Rank(b[k + 1])
    BY <1>6, <1>2 DEF Sorted
  <2>2. ASSUME NEW i \in 1..Len(s), s[i] = b[j] PROVE FALSE
    <3>1. s[i] = b[k + i] /\ k + i \in 1..Len(b) /\ j < k + i
      BY <1>1, <1>6 DEF Suffix
    <3>2. Rank(b[j]) < Rank(b[k + i])
      BY <3>1 DEF Sorted
    <3> QED BY <3>1, <3>2, <2>2, <1>3
  <2>3. b[j] \notin Range(s)
    BY <2>2 DEF Range
  <2> QED BY <2>1, <2>3, <1>2, <1>3
<1> QED BY <1>5, <1>6, <1>1

\* A step done is one more step behind the run, and no other.
LEMMA SuffixTail ==
    ASSUME NEW b, NEW s, Sorted(b, 1, 22), s \in Seq(StepNames), s # <<>>, Suffix(s, b)
    PROVE  /\ Suffix(Tail(s), b)
           /\ Tail(s) \in Seq(StepNames)
           /\ Range(Tail(s)) = Range(s) \ {Head(s)}
           /\ Head(s) \in Range(b)
<1>1. Len(s) \in Nat /\ Len(b) \in Nat /\ Len(s) >= 1 /\ Len(s) <= Len(b)
  BY DEF Sorted, Suffix
<1>2. /\ Tail(s) \in Seq(StepNames) /\ Len(Tail(s)) = Len(s) - 1
      /\ \A i \in 1..(Len(s) - 1) : Tail(s)[i] = s[i + 1]
  BY <1>1
<1>3. Suffix(Tail(s), b)
  <2>1. ASSUME NEW i \in 1..(Len(s) - 1)
        PROVE  Tail(s)[i] = b[Len(b) - (Len(s) - 1) + i]
    <3>1. i + 1 \in 1..Len(s)
      BY <1>1
    <3>2. s[i + 1] = b[Len(b) - Len(s) + (i + 1)]
      BY <3>1 DEF Suffix
    <3>3. Len(b) - Len(s) + (i + 1) = Len(b) - (Len(s) - 1) + i
      BY <1>1
    <3> QED BY <3>2, <3>3, <1>2
  <2> QED BY <2>1, <1>1, <1>2 DEF Suffix
<1>4. Head(s) = s[1] /\ Head(s) = b[Len(b) - Len(s) + 1]
      /\ Len(b) - Len(s) + 1 \in 1..Len(b)
  BY <1>1 DEF Suffix
<1>5. Head(s) \in Range(b)
  BY <1>4 DEF Range, Sorted
<1>6. ASSUME NEW i \in 2..Len(s) PROVE s[i] # s[1]
  <2>1. /\ s[i] = b[Len(b) - Len(s) + i] /\ Len(b) - Len(s) + i \in 1..Len(b)
        /\ Len(b) - Len(s) + 1 < Len(b) - Len(s) + i
    BY <1>1 DEF Suffix
  <2>2. Rank(b[Len(b) - Len(s) + 1]) < Rank(b[Len(b) - Len(s) + i])
    BY <2>1, <1>4 DEF Sorted
  <2>3. Rank(s[1]) < Rank(s[i]) /\ Rank(s[1]) \in Nat
    BY <2>1, <2>2, <1>4, <1>1, RankType
  <2> QED BY <2>3
<1>7. Range(Tail(s)) = {s[i] : i \in 2..Len(s)}
  <2>1. ASSUME NEW i \in 1..(Len(s) - 1) PROVE Tail(s)[i] = s[i + 1] /\ i + 1 \in 2..Len(s)
    BY <1>1, <1>2
  <2>2. ASSUME NEW i \in 2..Len(s)
        PROVE  i - 1 \in 1..(Len(s) - 1) /\ Tail(s)[i - 1] = s[i]
    BY <1>1, <1>2
  <2>3. Range(Tail(s)) = {Tail(s)[i] : i \in 1..(Len(s) - 1)}
    <3>1. DOMAIN Tail(s) = 1..Len(Tail(s))
      BY <1>2
    <3> QED BY <3>1, <1>2, Zenon DEF Range
  <2>4. ASSUME NEW y \in Range(Tail(s)) PROVE y \in {s[i] : i \in 2..Len(s)}
    BY <2>1, <2>3
  <2>5. ASSUME NEW i \in 2..Len(s) PROVE s[i] \in Range(Tail(s))
    BY <2>2, <2>3
  <2> QED BY <2>4, <2>5
<1>8. Range(s) = {s[1]} \cup {s[i] : i \in 2..Len(s)}
  <2>1. \A i : i \in 1..Len(s) <=> i = 1 \/ i \in 2..Len(s)
    BY <1>1
  <2>2. Range(s) = {s[i] : i \in 1..Len(s)}
    BY DEF Range
  <2> QED BY <2>1, <2>2
<1> QED BY <1>2, <1>3, <1>4, <1>5, <1>6, <1>7, <1>8

----------------------------------------------------------------------------
(* What every step of a run has in common.                                 *)

LEMMA BuildFacts ==
    ASSUME TypeOK
    PROVE  /\ machine \in DOMAIN CONFIGS
           /\ Sorted(BuildSequence(machine), 1, 22)
           /\ Range(BuildSequence(machine)) \subseteq StepNames
           /\ seq \in Seq(StepNames)
<1>1. machine \in DOMAIN CONFIGS
  BY InstallerAssumption DEF TypeOK
<1>2. Sorted(BuildSequence(machine), 1, 22)
  BY <1>1, BuildSorted
<1>3. Range(BuildSequence(machine)) \subseteq StepNames
  BY <1>2 DEF Sorted, Range
<1>4. seq \in Seq(Range(BuildSequence(machine)))
  BY DEF TypeOK
<1> QED BY <1>1, <1>2, <1>3, <1>4

\* The parts of TypeOK that steps change, one by one.
DataTypes ==
    /\ tmp \in [Items -> States] /\ dest \in [Pieces -> States]
    /\ kick \in Seq(Block) /\ ustart \in Startup /\ nstart \in Startup
    /\ libz \in {"none", "iso", "1.2.3", "1.2.13"}
    /\ legacy \subseteq Legacy
    /\ combi \in {"none", "ours", "user"}
    /\ media \in BOOLEAN /\ live \in BOOLEAN /\ jammed \subseteq Ejections
    /\ late \subseteq {"lha", "copy"}
    /\ extracted \in BOOLEAN

\* The run does step h, or raises in it.
Moves(h) ==
    /\ At(h) /\ UNCHANGED run
    /\ Ok \/ Fail
    /\ faults' \in 0..MaxFaults
    /\ clean' \in BOOLEAN /\ (clean' => clean)

LEMMA FaultType ==
    ASSUME TypeOK, NEW n \in Nat, Fault(n)
    PROVE  faults' \in 0..MaxFaults
BY InstallerAssumption DEF Fault, TypeOK

LEMMA DoneMoves ==
    ASSUME TypeOK, NEW n \in Nat, Done(n)
    PROVE  (Ok \/ Fail) /\ faults' \in 0..MaxFaults
BY FaultType DEF Done

LEMMA SupplyItems ==
    ASSUME TypeOK
    PROVE  RequiredFiles(machine) \cup {"MCPd"} \cup Optional \subseteq Items \ {"iso", "iso_lha"}
<1>1. machine \in DOMAIN CONFIGS
  BY BuildFacts
<1>2. Updates(machine) \subseteq {"upd1", "upd2", "upd3"}
  BY <1>1 DEF Updates, Update, CONFIGS, Config
<1> QED BY <1>2 DEF RequiredFiles, Optional, Items

\* Where a run stands tells which steps are behind it.
LEMMA Order ==
    ASSUME TypeOK, SeqInv, NEW h, At(h)
    PROVE  /\ h \in StepNames /\ h \in Range(BuildSequence(machine))
           /\ \A y \in Range(BuildSequence(machine)) :
                y \in Range(seq) <=> Rank(y) >= Rank(h)
           /\ \A y \in StepNames : Rank(y) >= Rank(h) => y \notin passed
           /\ \A y \in Common : Rank(y) < Rank(h) => y \in passed
<1>1. /\ Sorted(BuildSequence(machine), 1, 22) /\ seq \in Seq(StepNames)
      /\ Range(BuildSequence(machine)) \subseteq StepNames
  BY BuildFacts
<1>2. seq # <<>> /\ Head(seq) = h /\ Suffix(seq, BuildSequence(machine))
  BY DEF At, SeqInv
<1>3. h \in StepNames /\ h \in Range(BuildSequence(machine))
  BY <1>1, <1>2, SuffixTail
<1>4. \A y \in Range(BuildSequence(machine)) : y \in Range(seq) <=> Rank(y) >= Rank(h)
  BY <1>1, <1>2, SuffixOrder
<1>5. Common \subseteq Range(BuildSequence(machine)) /\ Common \subseteq StepNames
  BY BuildFacts, BuildRange DEF Common, StepNames
<1>6. \A y \in Common : Rank(y) < Rank(h) => y \in passed
  BY <1>3, <1>4, <1>5, RankType DEF passed
<1> QED BY <1>3, <1>4, <1>6 DEF passed

LEMMA Advance ==
    ASSUME TypeOK, SeqInv, NEW h, At(h), machine' = machine, Ok
    PROVE  /\ Suffix(seq', BuildSequence(machine))
           /\ seq' \in Seq(Range(BuildSequence(machine)))
           /\ Range(seq') = Range(seq) \ {h}
           /\ passed' = passed \cup {h}
           /\ (seq' # <<>>) = (res' = "running") /\ res' \in {"running", "ok"}
<1>1. Sorted(BuildSequence(machine), 1, 22) /\ seq \in Seq(StepNames)
  BY BuildFacts
<1>2. /\ seq # <<>> /\ Head(seq) = h /\ Suffix(seq, BuildSequence(machine))
      /\ seq' = Tail(seq)
  BY DEF At, SeqInv, Ok
<1>3. /\ Suffix(seq', BuildSequence(machine)) /\ Range(seq') = Range(seq) \ {h}
      /\ h \in Range(BuildSequence(machine))
  BY <1>1, <1>2, SuffixTail
<1>4. seq' \in Seq(Range(BuildSequence(machine)))
  BY <1>2 DEF TypeOK
<1>5. (seq' # <<>>) = (res' = "running") /\ res' \in {"running", "ok"}
  BY DEF Ok
<1>6. passed' = Range(BuildSequence(machine)) \ Range(seq')
  BY DEF passed, BuildSequence
<1>7. h \notin passed
  <2>1. h \in Range(seq)
    BY <1>1, <1>2 DEF Range
  <2> QED BY <2>1 DEF passed
<1>8. passed' = passed \cup {h}
  BY <1>3, <1>6 DEF passed
<1> QED BY <1>3, <1>4, <1>5, <1>8

LEMMA StepTypes ==
    ASSUME TypeOK, SeqInv, NEW h, Moves(h), DataTypes'
    PROVE  TypeOK'
<1>1. machine' = machine /\ UNCHANGED run /\ At(h)
  BY DEF Moves, run, hostside
<1>2. seq' \in Seq(Range(BuildSequence(machine)))
      /\ (seq' # <<>>) = (res' = "running") /\ res' \in {"running", "ok", "fail"}
  <2>1. CASE Ok
    BY <1>1, <2>1, Advance
  <2>2. CASE Fail
    BY <2>2 DEF Fail
  <2> QED BY <2>1, <2>2 DEF Moves
<1>3. BuildSequence(machine)' = BuildSequence(machine)
  BY <1>1 DEF BuildSequence
<1>4. seq' \in Seq(Range(BuildSequence(machine)'))
  BY <1>2, <1>3
<1> QED BY <1>1, <1>2, <1>4 DEF TypeOK, Moves, run, hostside, DataTypes

LEMMA SeqKeeps ==
    ASSUME TypeOK, SeqInv, NEW h, Moves(h), media \in BOOLEAN, media' \in BOOLEAN,
           media' => media \/ h = "mount_iso", jammed \subseteq jammed',
           h = "unmount_iso" /\ media' => h \in jammed'
    PROVE  SeqInv'
<1>1. machine' = machine /\ At(h)
  BY DEF Moves, run, hostside
<1>2. BuildSequence(machine)' = BuildSequence(machine)
  BY <1>1 DEF BuildSequence
<1>3. CASE Fail
  <2>1. seq' = <<>>
    BY <1>3 DEF Fail
  <2>2. Len(BuildSequence(machine)) \in Nat
    BY BuildFacts DEF Sorted
  <2>3. Suffix(seq', BuildSequence(machine)')
    BY <1>2, <2>1, <2>2 DEF Suffix
  <2> QED BY <2>1, <2>3 DEF SeqInv
<1>4. CASE Ok
  <2>1. /\ Suffix(seq', BuildSequence(machine)) /\ Range(seq') = Range(seq) \ {h}
        /\ seq # <<>>
    BY <1>1, <1>4, Advance DEF At
  <2>2. ASSUME media' PROVE "unmount_iso" \in Range(seq') \cup jammed'
    <3>1. CASE h = "unmount_iso"
      BY <2>2, <3>1
    <3>2. CASE media /\ h # "unmount_iso"
      BY <2>1, <3>2 DEF SeqInv
    <3>3. CASE h = "mount_iso"
      <4>1. "unmount_iso" \in Range(BuildSequence(machine))
        BY BuildFacts, BuildRange DEF Common
      <4>2. Rank("unmount_iso") >= Rank("mount_iso")
        BY DEF Rank
      <4>3. "unmount_iso" \in Range(seq)
        BY <1>1, <3>3, <4>1, <4>2, Order
      <4> QED BY <2>1, <3>3, <4>3
    <3> QED BY <2>2, <3>1, <3>2, <3>3
  <2>3. Suffix(seq', BuildSequence(machine)')
    BY <1>2, <2>1
  <2> QED BY <2>2, <2>3 DEF SeqInv
<1> QED BY <1>3, <1>4 DEF Moves

LEMMA FailSeq ==
    ASSUME TypeOK, Fail, machine' = machine
    PROVE  SeqInv'
<1>1. seq' = <<>>
  BY DEF Fail
<1>2. Len(BuildSequence(machine)) \in Nat
  BY BuildFacts DEF Sorted
<1>3. BuildSequence(machine)' = BuildSequence(machine)
  BY DEF BuildSequence
<1> QED BY <1>1, <1>2, <1>3 DEF SeqInv, Suffix

LEMMA StageKeeps ==
    ASSUME StageInv, UNCHANGED <<hostside, tmp>>, extracted' => extracted,
           "lha" \in late' => "lha" \in late
    PROVE  StageInv'
<1>1. /\ UNCHANGED <<machine, src, isoarg, pre, staged, tmp>>
  BY DEF hostside
<1>2. /\ StageRefuses' = StageRefuses /\ PreflightIso' = PreflightIso
      /\ RequiredFiles(machine)' = RequiredFiles(machine)
  BY <1>1 DEF StageRefuses, PreflightIso, IsoDetected, RequiredFiles, Updates
<1> QED BY <1>1, <1>2 DEF StageInv

\* A run that is sound after a step was sound before it.
LEMMA SoundMoves ==
    ASSUME InstallerInv, NEW h, Moves(h), Sound'
    PROVE  /\ Sound /\ SuppliesInv /\ PiecesInv /\ TextsInv /\ ClearedInv
           /\ passed' = passed \cup {h}
           /\ UNCHANGED hostside
           /\ \A y \in StepNames : Rank(y) >= Rank(h) => y \notin passed
<1>1. TypeOK /\ SeqInv /\ At(h) /\ machine' = machine /\ UNCHANGED hostside
      /\ isoleft' = isoleft
  BY DEF InstallerInv, Moves, run, hostside
<1>2. Ok
  BY DEF Moves, Sound, Fail
<1>3. res = "running"
  BY <1>1 DEF TypeOK, At
<1>4. Sound
  BY <1>1, <1>3 DEF Sound, Moves
<1>5. passed' = passed \cup {h}
  BY <1>1, <1>2, Advance
<1>6. \A y \in StepNames : Rank(y) >= Rank(h) => y \notin passed
  BY <1>1, Order
<1> QED BY <1>1, <1>4, <1>5, <1>6 DEF InstallerInv

LEMMA SuppliesKeep ==
    ASSUME SuppliesInv, NEW h, passed' = passed \cup {h},
           h \notin {"extract_iso_lha", "verify_cd_signature", "mount_iso"},
           UNCHANGED hostside, UNCHANGED tmp, UNCHANGED late,
           h = "unmount_iso" \/ media' = media
    PROVE  SuppliesInv'
<1>1. UNCHANGED <<machine, disc, staged>> /\ RequiredFiles(machine)' = RequiredFiles(machine)
  BY DEF hostside, RequiredFiles, Updates
<1> QED BY <1>1 DEF SuppliesInv

LEMMA PiecesKeep ==
    ASSUME PiecesInv, NEW h, passed' = passed \cup {h},
           h \in {"stage_diskimage_tools", "extract_iso_lha", "mount_iso",
                  "verify_cd_signature", "quarantine_emu10kx",
                  "quarantine_devs_monitors", "unmount_iso",
                  "dismount_combi_device", "cleanup_tmp"},
           UNCHANGED hostside, UNCHANGED dest,
           \A x \in Optional : tmp'[x] = tmp[x]
    PROVE  PiecesInv'
<1>1. /\ machine' = machine /\ tmp'["AmiDock"] = tmp["AmiDock"]
      /\ tmp'["SerialShell"] = tmp["SerialShell"] /\ tmp'["helpers"] = tmp["helpers"]
  BY DEF hostside, Optional
<1> QED BY <1>1 DEF PiecesInv

LEMMA TextsKeep ==
    ASSUME TextsInv, NEW h, passed' = passed \cup {h},
           h \notin {"copy_base_os", "copy_installation_extras", "upd1", "upd2", "upd3",
                     "install_enhancer", "install_network_config",
                     "install_serialshell", "install_mcpd"},
           UNCHANGED hostside, UNCHANGED <<kick, ustart, nstart, libz>>,
           tmp'["SerialShell"] = tmp["SerialShell"]
    PROVE  TextsInv'
BY DEF TextsInv, hostside, HasModule

LEMMA ClearedKeep ==
    ASSUME ClearedInv, NEW h, passed' = passed \cup {h},
           h \notin {"quarantine_emu10kx", "quarantine_devs_monitors", "unmount_iso",
                     "dismount_combi_device"},
           UNCHANGED <<legacy, system>>
    PROVE  ClearedInv'
BY DEF ClearedInv, system

----------------------------------------------------------------------------
(* The steps, one by one.                                                  *)

LEMMA StepRaisesKeeps ==
    ASSUME InstallerInv, StepRaises
    PROVE  InstallerInv'
<1> DEFINE h == Head(seq)
<1>1. Moves(h)
  BY InstallerAssumption DEF InstallerInv, StepRaises, Moves, At, Fault, TypeOK
<1> HIDE DEF h
<1>2. DataTypes'
  BY DEF InstallerInv, StepRaises, TypeOK, DataTypes, volume, system
<1>3. TypeOK'
  BY <1>1, <1>2, StepTypes DEF InstallerInv
<1>4. SeqInv'
  BY FailSeq DEF InstallerInv, StepRaises, run, hostside
<1>5. StageInv'
  BY StageKeeps DEF InstallerInv, StepRaises, run
<1>6. LaunchedOnce'
  BY DEF InstallerInv, LaunchedOnce, StepRaises, volume
<1>7. ~Sound'
  BY DEF StepRaises, Fail, Sound
<1> QED BY <1>3, <1>4, <1>5, <1>6, <1>7 DEF InstallerInv

LEMMA StageToolsKeeps ==
    ASSUME InstallerInv, stage_diskimage_tools
    PROVE  InstallerInv'
<1> DEFINE h == "stage_diskimage_tools"
<1>1. /\ UNCHANGED <<run, tmp, volume, media, live, jammed, late, extracted, clean>>
      /\ combi' \in {combi, "ours"} /\ TypeOK
      /\ \E n \in {0, 1} : Done(n)
  BY DEF stage_diskimage_tools, InstallerInv
<1>2. Moves(h)
  <2>1. (Ok \/ Fail) /\ faults' \in 0..MaxFaults
    BY <1>1, DoneMoves
  <2> QED BY <2>1, <1>1 DEF stage_diskimage_tools, Moves, TypeOK
<1>3. DataTypes'
  BY <1>1 DEF TypeOK, DataTypes, volume
<1>4. TypeOK'
  BY <1>2, <1>3, StepTypes DEF InstallerInv
<1>5. SeqInv'
  BY <1>1, <1>2, SeqKeeps DEF InstallerInv, TypeOK
<1>6. StageInv'
  BY <1>1, StageKeeps DEF InstallerInv, run
<1>7. LaunchedOnce'
  BY <1>1 DEF InstallerInv, LaunchedOnce, volume
<1>8. ASSUME Sound' PROVE SuppliesInv' /\ PiecesInv' /\ TextsInv' /\ ClearedInv'
  <2>1. /\ SuppliesInv /\ PiecesInv /\ TextsInv /\ ClearedInv
        /\ passed' = passed \cup {h} /\ UNCHANGED hostside
        /\ \A y \in StepNames : Rank(y) >= Rank(h) => y \notin passed
    BY <1>2, <1>8, SoundMoves
  <2>2. SuppliesInv'
    BY <1>1, <2>1, SuppliesKeep
  <2>3. PiecesInv'
    BY <1>1, <2>1, PiecesKeep DEF volume
  <2>4. TextsInv'
    BY <1>1, <2>1, TextsKeep DEF volume
  <2>5. "dismount_combi_device" \notin passed'
    <3>1. Rank("dismount_combi_device") >= Rank(h)
      BY DEF Rank
    <3> QED BY <2>1, <3>1 DEF StepNames
  <2>6. ClearedInv'
    BY <1>1, <2>1, <2>5 DEF ClearedInv, volume
  <2> QED BY <2>2, <2>3, <2>4, <2>6
<1> QED BY <1>4, <1>5, <1>6, <1>7, <1>8 DEF InstallerInv

\* The only thing runs change in tmp/ is the unpacked ISO.
LEMMA IsoChanges ==
    ASSUME StageInv, TypeOK, UNCHANGED hostside,
           \A x \in Items \ {"iso"} : tmp'[x] = tmp[x],
           tmp'["iso"] = tmp["iso"] \/ tmp["iso_lha"] # "none",
           tmp'["iso"] = "full" => "full" \in {tmp["iso"], tmp["iso_lha"]},
           extracted' \/ "lha" \in late' => tmp["iso_lha"] # "none"
    PROVE  StageInv'
<1>1. UNCHANGED <<machine, src, isoarg, pre, staged>>
  BY DEF hostside
<1>2. /\ StageRefuses' = StageRefuses /\ PreflightIso' = PreflightIso
      /\ RequiredFiles(machine)' = RequiredFiles(machine)
  BY <1>1 DEF StageRefuses, PreflightIso, IsoDetected, RequiredFiles, Updates
<1>3. "iso" \notin RequiredFiles(machine) \cup Optional \cup {"MCPd"}
  BY SupplyItems
<1>4. src.has \subseteq Items
  BY DEF TypeOK
<1>5. \A x \in src.has : tmp'[x] = tmp[x]
  BY <1>3, <1>4 DEF StageInv
<1>6. tmp'["iso_lha"] = tmp["iso_lha"] /\ "iso_lha" \in Items /\ "iso" \in Items
  BY DEF Items
<1>7. staged \in {"none", "refused"} => \A x \in Items : tmp'[x] = "none"
  BY <1>6 DEF StageInv
<1>8. staged = "failed" => \/ \E x \in src.has : tmp'[x] = "part"
                           \/ "full" \notin {tmp'["iso"], tmp'["iso_lha"]}
  BY <1>5, <1>6 DEF StageInv
<1>9. staged = "ok" => /\ \A x \in src.has : tmp'[x] # "none"
                       /\ tmp'["iso"] # "none" \/ tmp'["iso_lha"] # "none"
  BY <1>5, <1>6 DEF StageInv
<1> QED BY <1>1, <1>2, <1>6, <1>7, <1>8, <1>9 DEF StageInv

LEMMA ExtractKeeps ==
    ASSUME InstallerInv, extract_iso_lha
    PROVE  InstallerInv'
<1> DEFINE h == "extract_iso_lha"
           Kept == /\ UNCHANGED <<tmp, late, extracted>> /\ clean' = clean
                   /\ tmp["iso"] # "none" \/ tmp["iso_lha"] = "none"
           Unpacked == /\ tmp["iso"] = "none" /\ tmp["iso_lha"] # "none"
                       /\ extracted' = TRUE /\ clean' \in {clean, FALSE}
                       /\ \/ tmp' = [tmp EXCEPT !["iso"] = tmp["iso_lha"]]
                          \/ tmp' = [tmp EXCEPT !["iso"] = "part"]
                       /\ late' \in {late, late \cup {"lha"}}
                       /\ (clean' /\ Ok => /\ tmp' = [tmp EXCEPT !["iso"] = tmp["iso_lha"]]
                                           /\ late' = late)
<1>1. UNCHANGED <<run, volume, system>> /\ TypeOK
  BY DEF extract_iso_lha, InstallerInv
<1>2. Kept \/ Unpacked
  BY DEF extract_iso_lha, Ok, Fail
<1>3. Moves(h)
  <2>1. (Ok \/ Fail) /\ faults' \in 0..MaxFaults
    <3>1. \/ \E n \in {0, 1} : Done(n)
          \/ (Ok \/ Fail) /\ Fault(1)
      BY DEF extract_iso_lha
    <3> QED BY <1>1, <3>1, DoneMoves, FaultType
  <2> QED BY <2>1, <1>1, <1>2 DEF extract_iso_lha, Moves, TypeOK
<1>4. DataTypes'
  BY <1>1, <1>2 DEF TypeOK, DataTypes, volume, system, Items, States
<1>5. TypeOK'
  BY <1>3, <1>4, StepTypes DEF InstallerInv
<1>6. SeqInv'
  BY <1>1, <1>3, SeqKeeps DEF InstallerInv, TypeOK, system
<1>7. StageInv'
  <2>1. CASE Kept
    BY <1>1, <2>1, StageKeeps DEF InstallerInv, run
  <2>2. CASE Unpacked
    <3>1. /\ \A x \in Items \ {"iso"} : tmp'[x] = tmp[x]
          /\ tmp'["iso"] = "full" => "full" \in {tmp["iso"], tmp["iso_lha"]}
      BY <1>1, <2>2 DEF TypeOK, Items
    <3> QED BY <1>1, <2>2, <3>1, IsoChanges DEF InstallerInv, run
  <2> QED BY <1>2, <2>1, <2>2
<1>8. LaunchedOnce'
  BY <1>1 DEF InstallerInv, LaunchedOnce, volume
<1>9. ASSUME Sound' PROVE SuppliesInv' /\ PiecesInv' /\ TextsInv' /\ ClearedInv'
  <2>1. /\ SuppliesInv /\ PiecesInv /\ TextsInv /\ ClearedInv
        /\ passed' = passed \cup {h} /\ UNCHANGED hostside
        /\ \A y \in StepNames : Rank(y) >= Rank(h) => y \notin passed
    BY <1>3, <1>9, SoundMoves
  <2>2. clean' /\ Ok
    BY <1>3, <1>9 DEF Sound, Moves, Fail
  <2>3. \A x \in Items \ {"iso"} : tmp'[x] = tmp[x]
    BY <1>1, <1>2 DEF TypeOK, Items
  <2>4. tmp'["iso"] = "full" /\ late' = late
    <3>1. "cleanup_tmp" \notin passed
      <4>1. Rank("cleanup_tmp") >= Rank(h)
        BY DEF Rank
      <4> QED BY <2>1, <4>1 DEF StepNames
    <3>2. tmp["iso"] \in {"none", "full"} /\ (tmp["iso"] = "none" => tmp["iso_lha"] = "full")
      BY <2>1, <3>1 DEF SuppliesInv
    <3>3. CASE Kept
      BY <3>2, <3>3
    <3>4. CASE Unpacked
      BY <1>1, <2>2, <3>2, <3>4 DEF TypeOK, Items
    <3> QED BY <1>2, <3>3, <3>4
  <2>5. SuppliesInv'
    <3>1. UNCHANGED <<machine, disc, staged>> /\ media' = media
          /\ RequiredFiles(machine)' = RequiredFiles(machine)
      BY <1>1 DEF run, hostside, RequiredFiles, Updates, system
    <3>2. \A x \in RequiredFiles(machine) \cup {"MCPd"} \cup Optional : tmp'[x] = tmp[x]
      BY <1>1, <2>3, SupplyItems
    <3> QED BY <2>1, <2>4, <3>1, <3>2 DEF SuppliesInv
  <2>6. PiecesInv'
    BY <1>1, <2>1, <2>3, PiecesKeep DEF volume, Optional, Items
  <2>7. TextsInv'
    BY <1>1, <2>1, <2>3, TextsKeep DEF volume, Items, Optional
  <2>8. ClearedInv'
    BY <1>1, <2>1, ClearedKeep DEF volume
  <2> QED BY <2>5, <2>6, <2>7, <2>8
<1> QED BY <1>5, <1>6, <1>7, <1>8, <1>9 DEF InstallerInv

LEMMA MountKeeps ==
    ASSUME InstallerInv, mount_iso
    PROVE  InstallerInv'
<1> DEFINE h == "mount_iso"
<1>1. /\ UNCHANGED <<run, tmp, volume, combi, jammed, late, extracted, clean>> /\ TypeOK
      /\ At(h)
  BY DEF mount_iso, InstallerInv
<1>2. /\ media' \in BOOLEAN /\ live' \in BOOLEAN
      /\ Ok => media'
      /\ \E n \in {0, 1} : Done(n) \/ (Fail /\ Fault(n))
  <2>1. PICK e \in BOOLEAN :
          LET lost == IF e THEN 0 ELSE 1
              in   == tmp["iso"] # "none" /\ (e \/ ~media)
          IN  /\ media' = in
              /\ live' = (live \/ combi # "none")
              /\ IF in /\ live' THEN Done(lost) ELSE Fail /\ Fault(lost)
    BY DEF mount_iso
  <2>2. media' \in BOOLEAN /\ live' \in BOOLEAN
    BY <2>1, <1>1 DEF TypeOK
  <2>3. Fail => ~Ok
    BY DEF Fail, Ok
  <2>4. Ok => media'
    BY <2>1, <2>3
  <2>5. (IF e THEN 0 ELSE 1) \in {0, 1}
    OBVIOUS
  <2> QED BY <2>1, <2>2, <2>4, <2>5
<1>3. Moves(h)
  <2>1. (Ok \/ Fail) /\ faults' \in 0..MaxFaults
    BY <1>1, <1>2, DoneMoves, FaultType
  <2> QED BY <2>1, <1>1 DEF Moves, TypeOK
<1>4. DataTypes'
  BY <1>1, <1>2 DEF TypeOK, DataTypes, volume
<1>5. TypeOK'
  BY <1>3, <1>4, StepTypes DEF InstallerInv
<1>6. SeqInv'
  BY <1>1, <1>2, <1>3, SeqKeeps DEF InstallerInv, TypeOK
<1>7. StageInv'
  BY <1>1, StageKeeps DEF InstallerInv, run
<1>8. LaunchedOnce'
  BY <1>1 DEF InstallerInv, LaunchedOnce, volume
<1>9. ASSUME Sound' PROVE SuppliesInv' /\ PiecesInv' /\ TextsInv' /\ ClearedInv'
  <2>1. /\ SuppliesInv /\ PiecesInv /\ TextsInv /\ ClearedInv
        /\ passed' = passed \cup {h} /\ UNCHANGED hostside
        /\ \A y \in StepNames : Rank(y) >= Rank(h) => y \notin passed
    BY <1>3, <1>9, SoundMoves
  <2>2. media'
    BY <1>2, <1>3, <1>9 DEF Sound, Moves, Fail
  <2>3. SuppliesInv'
    <3>1. /\ UNCHANGED <<machine, disc, staged, tmp, late>>
          /\ RequiredFiles(machine)' = RequiredFiles(machine)
      BY <1>1 DEF run, hostside, RequiredFiles, Updates
    <3> QED BY <2>1, <2>2, <3>1 DEF SuppliesInv
  <2>4. PiecesInv'
    BY <1>1, <2>1, PiecesKeep DEF volume
  <2>5. TextsInv'
    BY <1>1, <2>1, TextsKeep DEF volume
  <2>6. "dismount_combi_device" \notin passed' /\ "unmount_iso" \notin passed'
    <3>1. Rank("dismount_combi_device") >= Rank(h) /\ Rank("unmount_iso") >= Rank(h)
      BY DEF Rank
    <3> QED BY <2>1, <3>1 DEF StepNames
  <2>7. ClearedInv'
    BY <1>1, <2>1, <2>6 DEF ClearedInv, volume
  <2> QED BY <2>3, <2>4, <2>5, <2>7
<1> QED BY <1>5, <1>6, <1>7, <1>8, <1>9 DEF InstallerInv

LEMMA VerifySignatureKeeps ==
    ASSUME InstallerInv, verify_cd_signature
    PROVE  InstallerInv'
<1> DEFINE h == "verify_cd_signature"
<1>1. /\ UNCHANGED <<run, tmp, volume, system, late, extracted, clean>> /\ TypeOK
      /\ At(h)
      /\ Done(0) \/ (Fail /\ Fault(0))
      /\ CONFIGS[machine].sig /\ disc = "wrong" => Fail
  BY DEF verify_cd_signature, InstallerInv
<1>2. Moves(h)
  <2>1. (Ok \/ Fail) /\ faults' \in 0..MaxFaults
    BY <1>1, DoneMoves, FaultType
  <2> QED BY <2>1, <1>1 DEF Moves, TypeOK
<1>3. DataTypes'
  BY <1>1 DEF TypeOK, DataTypes, volume, system
<1>4. TypeOK'
  BY <1>2, <1>3, StepTypes DEF InstallerInv
<1>5. SeqInv'
  BY <1>1, <1>2, SeqKeeps DEF InstallerInv, TypeOK, system
<1>6. StageInv'
  BY <1>1, StageKeeps DEF InstallerInv, run
<1>7. LaunchedOnce'
  BY <1>1 DEF InstallerInv, LaunchedOnce, volume
<1>8. ASSUME Sound' PROVE SuppliesInv' /\ PiecesInv' /\ TextsInv' /\ ClearedInv'
  <2>1. /\ SuppliesInv /\ PiecesInv /\ TextsInv /\ ClearedInv
        /\ passed' = passed \cup {h} /\ UNCHANGED hostside
    BY <1>2, <1>8, SoundMoves
  <2>2. disc = "right"
    <3>1. ~(CONFIGS[machine].sig /\ disc = "wrong")
      BY <1>1, <1>8 DEF Sound, Fail
    <3> QED BY <1>1, <2>1, <3>1 DEF SuppliesInv, TypeOK
  <2>3. SuppliesInv'
    <3>1. /\ UNCHANGED <<machine, disc, staged, tmp, late, media>>
          /\ RequiredFiles(machine)' = RequiredFiles(machine)
      BY <1>1 DEF run, hostside, RequiredFiles, Updates, system
    <3> QED BY <2>1, <2>2, <3>1 DEF SuppliesInv
  <2>4. PiecesInv'
    BY <1>1, <2>1, PiecesKeep DEF volume
  <2>5. TextsInv'
    BY <1>1, <2>1, TextsKeep DEF volume
  <2>6. ClearedInv'
    BY <1>1, <2>1, ClearedKeep DEF volume
  <2> QED BY <2>3, <2>4, <2>5, <2>6
<1> QED BY <1>4, <1>5, <1>6, <1>7, <1>8 DEF InstallerInv

\* While a sound run copies from it, the whole ISO is there to be copied.
LEMMA IsoFull ==
    ASSUME InstallerInv, Sound, NEW h, At(h), Rank(h) \in 5..19
    PROVE  Iso = "full"
<1>1. SuppliesInv /\ TypeOK /\ SeqInv
  BY DEF InstallerInv
<1>2. \A y \in {"cleanup_tmp", "unmount_iso"} : y \notin passed
  <2>1. Rank("cleanup_tmp") = 22 /\ Rank("unmount_iso") = 20
    BY DEF Rank
  <2>2. \A y \in {"cleanup_tmp", "unmount_iso"} : y \in StepNames /\ Rank(y) >= Rank(h)
    BY <2>1 DEF StepNames
  <2> QED BY <1>1, <2>2, Order
<1>3. \A y \in {"extract_iso_lha", "mount_iso", "verify_cd_signature"} : y \in passed
  <2>1. \A y \in {"extract_iso_lha", "mount_iso", "verify_cd_signature"} :
          y \in Common /\ Rank(y) \in 1..4
    BY DEF Common, Rank
  <2>2. \A y \in {"extract_iso_lha", "mount_iso", "verify_cd_signature"} :
          y \in Common /\ Rank(y) < Rank(h)
    BY <2>1
  <2> QED BY <1>1, <2>2, Order
<1> QED BY <1>1, <1>2, <1>3 DEF SuppliesInv, Iso

LEMMA KickTypes ==
    ASSUME TypeOK
    PROVE  IsoKicklayout(machine) \in Seq(Block)
<1>1. /\ [config |-> TRUE, modules |-> {"p5020sata"}] \in Block
      /\ [config |-> TRUE, modules |-> {}] \in Block
      /\ [config |-> FALSE, modules |-> {}] \in Block
      /\ [config |-> TRUE, modules |-> {"diskcache", "RadeonHD.debug"}] \in Block
  BY DEF Block, Modules
<1>2. CASE CONFIGS[machine].sata
  BY <1>1, <1>2 DEF IsoKicklayout
<1>3. CASE ~CONFIGS[machine].sata
  BY <1>1, <1>3 DEF IsoKicklayout
<1> QED BY <1>2, <1>3

LEMMA CopyBaseKeeps ==
    ASSUME InstallerInv, copy_base_os
    PROVE  InstallerInv'
<1> DEFINE h == "copy_base_os"
           Whole == /\ dest' = [dest EXCEPT !["base"] = Iso] /\ BaseCopied
                    /\ Done(0) /\ UNCHANGED <<late, clean>>
           Cut == /\ dest' = [dest EXCEPT !["base"] = "part"]
                  /\ BaseCopied \/ UNCHANGED <<kick, libz, legacy>>
                  /\ late' \in {late, late \cup {"copy"}}
                  /\ clean' = FALSE /\ Done(1)
<1>1. /\ UNCHANGED <<run, tmp, ustart, nstart, system, extracted>> /\ TypeOK
      /\ At(h)
      /\ Whole \/ Cut
  BY DEF copy_base_os, InstallerInv
<1>2. Moves(h)
  <2>1. (Ok \/ Fail) /\ faults' \in 0..MaxFaults
    BY <1>1, DoneMoves
  <2> QED BY <2>1, <1>1 DEF Moves, TypeOK
<1>3. DataTypes'
  <2>1. kick' \in Seq(Block) /\ libz' \in {"none", "iso", "1.2.3", "1.2.13"}
        /\ legacy' \subseteq Legacy
    BY <1>1, KickTypes DEF BaseCopied, TypeOK
  <2>2. dest' \in [Pieces -> States]
    BY <1>1 DEF TypeOK, Iso, States, Pieces, Items
  <2> QED BY <1>1, <2>1, <2>2 DEF TypeOK, DataTypes, system
<1>4. TypeOK'
  BY <1>2, <1>3, StepTypes DEF InstallerInv
<1>5. SeqInv'
  BY <1>1, <1>2, SeqKeeps DEF InstallerInv, TypeOK, system
<1>6. StageInv'
  BY <1>1, StageKeeps DEF InstallerInv, run
<1>7. LaunchedOnce'
  BY <1>1 DEF InstallerInv, LaunchedOnce
<1>8. ASSUME Sound' PROVE SuppliesInv' /\ PiecesInv' /\ TextsInv' /\ ClearedInv'
  <2>1. /\ SuppliesInv /\ PiecesInv /\ TextsInv /\ ClearedInv /\ Sound
        /\ passed' = passed \cup {h} /\ UNCHANGED hostside
        /\ \A y \in StepNames : Rank(y) >= Rank(h) => y \notin passed
    BY <1>2, <1>8, SoundMoves
  <2>2. Whole
    BY <1>1, <1>8 DEF Sound
  <2>3. Iso = "full"
    <3>1. Rank(h) \in 5..19
      BY DEF Rank
    <3> QED BY <1>1, <2>1, <3>1, IsoFull
  <2>4. SuppliesInv'
    BY <1>1, <2>1, <2>2, SuppliesKeep DEF system
  <2>5. PiecesInv'
    <3>1. /\ \A p \in Pieces : p # "base" => dest'[p] = dest[p]
          /\ dest'["base"] = "full"
      BY <1>1, <2>2, <2>3 DEF TypeOK, Pieces
    <3> QED BY <1>1, <2>1, <3>1 DEF PiecesInv, hostside, Pieces
  <2>6. \A y \in {"copy_installation_extras", "upd1", "upd2", "upd3", "install_enhancer",
                  "install_network_config", "quarantine_emu10kx",
                  "quarantine_devs_monitors"} : y \notin passed'
    <3>1. \A y \in {"copy_installation_extras", "upd1", "upd2", "upd3", "install_enhancer",
                  "install_network_config", "quarantine_emu10kx",
                  "quarantine_devs_monitors"} :
            y \in StepNames /\ Rank(y) >= Rank(h) /\ y # h
      BY DEF StepNames, Rank
    <3> QED BY <2>1, <3>1
  <2>7. TextsInv'
    <3>1. kick' = IsoKicklayout(machine) /\ machine' = machine
      BY <2>1, <2>2 DEF BaseCopied, hostside
    <3>2. kick' # NoText
      BY <3>1 DEF IsoKicklayout, NoText
    <3>3. ASSUME ~CONFIGS[machine].sata, NEW i \in DOMAIN kick'
          PROVE  "p5020sata" \notin kick'[i].modules
      BY <3>1, <3>3 DEF IsoKicklayout
    <3> QED BY <2>6, <3>1, <3>2, <3>3 DEF TextsInv
  <2>8. ClearedInv'
    BY <1>1, <2>1, <2>6 DEF ClearedInv, system
  <2> QED BY <2>4, <2>5, <2>7, <2>8
<1> QED BY <1>4, <1>5, <1>6, <1>7, <1>8 DEF InstallerInv

----------------------------------------------------------------------------
(* The steps that copy.                                                    *)

LEMMA CopyEffect ==
    ASSUME TypeOK, NEW pieces \in SUBSET Pieces, IsFiniteSet(pieces), NEW q \in States,
           NEW n \in Nat, Copy(pieces, q, n)
    PROVE  /\ dest' \in [Pieces -> States] /\ clean' \in BOOLEAN
           /\ (Ok \/ Fail) /\ faults' \in 0..MaxFaults
           /\ clean' => /\ clean /\ n = 0
                        /\ \A p \in Pieces : dest'[p] = IF p \in pieces THEN q ELSE dest[p]
<1>0. PICK got \in SUBSET pieces : \E torn \in SUBSET (pieces \ got) :
        /\ q = "none" => got = {} /\ torn = {}
        /\ dest' = [p \in Pieces |->
                      IF p \in got THEN q
                      ELSE IF p \in torn THEN "part" ELSE dest[p]]
        /\ clean' = (clean /\ got = pieces /\ n = 0)
        /\ Done(n + IF q = "none" THEN 0 ELSE Cardinality(pieces \ got))
  BY DEF Copy
<1>1. PICK torn \in SUBSET (pieces \ got) :
        /\ q = "none" => got = {} /\ torn = {}
        /\ dest' = [p \in Pieces |->
                      IF p \in got THEN q
                      ELSE IF p \in torn THEN "part" ELSE dest[p]]
        /\ clean' = (clean /\ got = pieces /\ n = 0)
        /\ Done(n + IF q = "none" THEN 0 ELSE Cardinality(pieces \ got))
  BY <1>0
<1>2. Cardinality(pieces \ got) \in Nat
  BY FS_Subset, FS_CardinalityType
<1>3. (Ok \/ Fail) /\ faults' \in 0..MaxFaults
  <2>1. n + (IF q = "none" THEN 0 ELSE Cardinality(pieces \ got)) \in Nat
    BY <1>2
  <2> QED BY <1>1, <2>1, DoneMoves
<1>4. dest' \in [Pieces -> States]
  BY <1>1 DEF TypeOK, States
<1>5. clean' \in BOOLEAN /\ (clean' => clean /\ n = 0 /\ got = pieces)
  BY <1>1 DEF TypeOK
<1>6. clean' => \A p \in Pieces : dest'[p] = IF p \in pieces THEN q ELSE dest[p]
  BY <1>1, <1>5
<1> QED BY <1>3, <1>4, <1>5, <1>6

LEMMA SmallSets ==
    ASSUME NEW a, NEW b
    PROVE  IsFiniteSet({}) /\ IsFiniteSet({a}) /\ IsFiniteSet({a, b})
<1>1. IsFiniteSet({}) /\ IsFiniteSet({a})
  BY FS_EmptySet, FS_Singleton
<1>2. IsFiniteSet({a} \cup {b})
  BY <1>1, FS_AddElement
<1>3. {a, b} = {a} \cup {b}
  OBVIOUS
<1> QED BY <1>1, <1>2, <1>3

\* What a step that copies pieces has done when it succeeds.
LEMMA PiecesCopied ==
    ASSUME TypeOK, PiecesInv, NEW h, NEW pieces, passed' = passed \cup {h},
           UNCHANGED hostside, UNCHANGED tmp,
           \A p \in Pieces : dest'[p] = IF p \in pieces THEN "full" ELSE dest[p],
           h = "copy_base_os" => "base" \in pieces,
           h = "copy_installation_extras" => {"startup", "prefs"} \subseteq pieces,
           h = "install_bootloader" /\ CONFIGS[machine].boot => "boot" \in pieces,
           h \in {"upd1", "upd2", "upd3"} => h \in pieces,
           h = "install_enhancer" =>
             "enhancer" \in pieces /\ (CONFIGS[machine].eth => "eth" \in pieces),
           h = "install_ngf" => "ngf" \in pieces,
           h = "install_extras" => "extras" \in pieces,
           h \notin {"patch_amidock_prefs", "install_network_config",
                     "install_serialshell", "install_mcpd"}
    PROVE  PiecesInv'
<1>1. machine' = machine
  BY DEF hostside
<1>2. ASSUME NEW p \in Pieces, p \in pieces \/ dest[p] = "full" PROVE dest'[p] = "full"
  BY <1>2
<1> HIDE DEF Pieces
<1>3. {"base", "startup", "prefs", "boot", "upd1", "upd2", "upd3",
       "enhancer", "eth", "ngf", "extras", "AmiDock", "interface",
       "SerialShell", "MCPd", "helpers"} = Pieces
  BY DEF Pieces
<1> QED BY <1>1, <1>2, <1>3 DEF PiecesInv

LEMMA CopyExtrasKeeps ==
    ASSUME InstallerInv, copy_installation_extras
    PROVE  InstallerInv'
<1> DEFINE h == "copy_installation_extras"
<1>1. /\ UNCHANGED <<run, tmp, kick, nstart, libz, legacy, system, late, extracted>>
      /\ TypeOK /\ At(h)
  BY DEF copy_installation_extras, InstallerInv
<1>2. PICK user \in BOOLEAN :
        /\ ustart' = IF user THEN [text |-> TRUE, lines |-> 0] ELSE ustart
        /\ Copy({"startup", "prefs"}, Iso, IF user THEN 0 ELSE 1)
  BY DEF copy_installation_extras
<1>3. /\ dest' \in [Pieces -> States] /\ clean' \in BOOLEAN
      /\ (Ok \/ Fail) /\ faults' \in 0..MaxFaults
      /\ clean' => /\ clean /\ user
                   /\ \A p \in Pieces : dest'[p] = IF p \in {"startup", "prefs"} THEN Iso
                                                   ELSE dest[p]
  <2>1. {"startup", "prefs"} \in SUBSET Pieces /\ IsFiniteSet({"startup", "prefs"})
    BY SmallSets DEF Pieces
  <2>2. Iso \in States
    BY <1>1 DEF Iso, TypeOK, Items, States
  <2>3. (IF user THEN 0 ELSE 1) \in Nat /\ ((IF user THEN 0 ELSE 1) = 0 => user)
    OBVIOUS
  <2> QED BY <1>1, <1>2, <2>1, <2>2, <2>3, CopyEffect
<1>4. Moves(h)
  BY <1>1, <1>3 DEF Moves
<1>5. ustart' \in Startup /\ ustart'.lines <= 1
  BY <1>1, <1>2 DEF InstallerInv, LaunchedOnce, TypeOK, Startup
<1>6. DataTypes'
  BY <1>1, <1>3, <1>5 DEF TypeOK, DataTypes, system
<1>7. TypeOK'
  BY <1>4, <1>6, StepTypes DEF InstallerInv
<1>8. SeqInv'
  BY <1>1, <1>4, SeqKeeps DEF InstallerInv, TypeOK, system
<1>9. StageInv'
  BY <1>1, StageKeeps DEF InstallerInv, run
<1>10. LaunchedOnce'
  BY <1>1, <1>5 DEF InstallerInv, LaunchedOnce
<1>11. ASSUME Sound' PROVE SuppliesInv' /\ PiecesInv' /\ TextsInv' /\ ClearedInv'
  <2>1. /\ SuppliesInv /\ PiecesInv /\ TextsInv /\ ClearedInv /\ Sound
        /\ passed' = passed \cup {h} /\ UNCHANGED hostside
        /\ \A y \in StepNames : Rank(y) >= Rank(h) => y \notin passed
    BY <1>4, <1>11, SoundMoves
  <2>2. Iso = "full"
    <3>1. Rank(h) \in 5..19
      BY DEF Rank
    <3> QED BY <1>1, <2>1, <3>1, IsoFull
  <2>3. clean'
    BY <1>11 DEF Sound
  <2>4. SuppliesInv'
    BY <1>1, <2>1, SuppliesKeep DEF system
  <2>5. PiecesInv'
    BY <1>1, <1>3, <2>1, <2>2, <2>3, PiecesCopied
  <2>6. TextsInv'
    <3>1. "install_serialshell" \notin passed'
      <4>1. Rank("install_serialshell") >= Rank(h)
        BY DEF Rank
      <4> QED BY <2>1, <4>1 DEF StepNames
    <3>2. ustart' = [text |-> TRUE, lines |-> 0] /\ machine' = machine
      BY <1>2, <1>3, <2>1, <2>3 DEF hostside
    <3> QED BY <1>1, <2>1, <3>1, <3>2 DEF TextsInv, HasModule
  <2>7. ClearedInv'
    BY <1>1, <2>1, ClearedKeep
  <2> QED BY <2>4, <2>5, <2>6, <2>7
<1> QED BY <1>7, <1>8, <1>9, <1>10, <1>11 DEF InstallerInv

\* Steps that copy pieces and do nothing else.
LEMMA PlainCopy ==
    ASSUME InstallerInv, NEW h, At(h),
           NEW pieces \in SUBSET Pieces, IsFiniteSet(pieces),
           NEW q \in States, Copy(pieces, q, 0), Sound => q = "full",
           UNCHANGED <<run, tmp, kick, ustart, nstart, libz, legacy, system, late,
                       extracted>>,
           h \in {"install_bootloader", "install_ngf", "install_extras"},
           h = "install_bootloader" /\ CONFIGS[machine].boot => "boot" \in pieces,
           h = "install_ngf" => "ngf" \in pieces,
           h = "install_extras" => "extras" \in pieces
    PROVE  InstallerInv'
<1>1. TypeOK
  BY DEF InstallerInv
<1>2. /\ dest' \in [Pieces -> States] /\ clean' \in BOOLEAN
      /\ (Ok \/ Fail) /\ faults' \in 0..MaxFaults
      /\ clean' => /\ clean
                   /\ \A p \in Pieces : dest'[p] = IF p \in pieces THEN q ELSE dest[p]
  BY <1>1, CopyEffect
<1>3. Moves(h)
  BY <1>2 DEF Moves
<1>4. DataTypes'
  BY <1>1, <1>2 DEF TypeOK, DataTypes, system
<1>5. TypeOK'
  BY <1>3, <1>4, StepTypes DEF InstallerInv
<1>6. SeqInv'
  BY <1>3, SeqKeeps DEF InstallerInv, TypeOK, system
<1>7. StageInv'
  BY StageKeeps DEF InstallerInv, run
<1>8. LaunchedOnce'
  BY DEF InstallerInv, LaunchedOnce
<1>9. ASSUME Sound' PROVE SuppliesInv' /\ PiecesInv' /\ TextsInv' /\ ClearedInv'
  <2>1. /\ SuppliesInv /\ PiecesInv /\ TextsInv /\ ClearedInv /\ Sound
        /\ passed' = passed \cup {h} /\ UNCHANGED hostside
    BY <1>3, <1>9, SoundMoves
  <2>2. clean' /\ q = "full"
    BY <1>9, <2>1 DEF Sound
  <2>3. SuppliesInv'
    BY <2>1, SuppliesKeep DEF system
  <2>4. PiecesInv'
    BY <1>1, <1>2, <2>1, <2>2, PiecesCopied
  <2>5. TextsInv'
    BY <2>1, TextsKeep
  <2>6. ClearedInv'
    BY <2>1, ClearedKeep
  <2> QED BY <2>3, <2>4, <2>5, <2>6
<1> QED BY <1>5, <1>6, <1>7, <1>8, <1>9 DEF InstallerInv

LEMMA BootloaderKeeps ==
    ASSUME InstallerInv, install_bootloader
    PROVE  InstallerInv'
<1> DEFINE h == "install_bootloader"
           pieces == IF CONFIGS[machine].boot THEN {"boot"} ELSE {}
           q == IF CONFIGS[machine].boot THEN Iso ELSE "full"
<1>1. At(h) /\ Copy(pieces, q, 0)
      /\ UNCHANGED <<run, tmp, kick, ustart, nstart, libz, legacy, system, late,
                     extracted>>
  BY DEF install_bootloader
<1>2. pieces \in SUBSET Pieces /\ IsFiniteSet(pieces)
  BY SmallSets DEF Pieces
<1>3. q \in States
  BY DEF InstallerInv, Iso, TypeOK, Items, States
<1>4. Sound => q = "full"
  <2>1. Rank(h) \in 5..19
    BY DEF Rank
  <2> QED BY <1>1, <2>1, IsoFull
<1>5. CONFIGS[machine].boot => "boot" \in pieces
  OBVIOUS
<1> HIDE DEF pieces, q
<1> QED BY <1>1, <1>2, <1>3, <1>4, <1>5, PlainCopy

LEMMA ExtrasKeeps ==
    ASSUME InstallerInv, install_extras
    PROVE  InstallerInv'
<1> DEFINE h == "install_extras"
<1>1. At(h) /\ Copy({"extras"}, Iso, 0)
      /\ UNCHANGED <<run, tmp, kick, ustart, nstart, libz, legacy, system, late,
                     extracted>>
  BY DEF install_extras
<1>2. {"extras"} \in SUBSET Pieces /\ IsFiniteSet({"extras"})
  BY SmallSets DEF Pieces
<1>3. Iso \in States
  BY DEF InstallerInv, Iso, TypeOK, Items, States
<1>4. Sound => Iso = "full"
  <2>1. Rank(h) \in 5..19
    BY DEF Rank
  <2> QED BY <1>1, <2>1, IsoFull
<1> QED BY <1>1, <1>2, <1>3, <1>4, PlainCopy

\* A machine has the files its steps need among its required ones.
LEMMA StepFiles ==
    ASSUME TypeOK, SeqInv, NEW h, At(h)
    PROVE  /\ h \in {"upd1", "upd2", "upd3"} => h \in RequiredFiles(machine)
           /\ h = "install_ngf" => "ngf" \in RequiredFiles(machine)
           /\ h \in {"quarantine_emu10kx", "quarantine_devs_monitors"} =>
                CONFIGS[machine].quarantine
<1>1. h \in Range(BuildSequence(machine)) /\ machine \in DOMAIN CONFIGS
  BY Order, BuildFacts
<1>2. \/ h \in Common \/ h \in Updates(machine)
      \/ h = "install_ngf" /\ CONFIGS[machine].ngf
      \/ CONFIGS[machine].quarantine
         /\ h \in {"quarantine_emu10kx", "quarantine_devs_monitors"}
  BY <1>1, BuildRange
<1>3. Updates(machine) \subseteq {"upd1", "upd2", "upd3"}
  BY <1>1 DEF Updates, Update, CONFIGS, Config
<1> QED BY <1>2, <1>3 DEF Common, RequiredFiles

LEMMA NgfKeeps ==
    ASSUME InstallerInv, install_ngf
    PROVE  InstallerInv'
<1> DEFINE h == "install_ngf"
<1>1. At(h) /\ Copy({"ngf"}, tmp["ngf"], 0)
      /\ UNCHANGED <<run, tmp, kick, ustart, nstart, libz, legacy, system, late,
                     extracted>>
  BY DEF install_ngf
<1>2. {"ngf"} \in SUBSET Pieces /\ IsFiniteSet({"ngf"})
  BY SmallSets DEF Pieces
<1>3. tmp["ngf"] \in States
  BY DEF InstallerInv, TypeOK, Items
<1>4. Sound => tmp["ngf"] = "full"
  BY <1>1, StepFiles DEF InstallerInv, SuppliesInv
<1> QED BY <1>1, <1>2, <1>3, <1>4, PlainCopy

----------------------------------------------------------------------------
(* The Kicklayout.                                                         *)

\* The same blocks, perhaps with other modules.
SameBlocks(t, text) ==
    /\ t \in Seq(Block) /\ DOMAIN t = DOMAIN text /\ (text # NoText => t # NoText)
    /\ \A i \in DOMAIN text : t[i].config = text[i].config

Added(t, text, mods) ==
    \A i \in DOMAIN text : text[i].config =>
        /\ text[i].modules \subseteq t[i].modules
        /\ t[i].modules \subseteq text[i].modules \cup mods
        /\ \A mod \in mods : HasModule(t[i], mod)

Replaced(t, text, old) ==
    \A i \in DOMAIN text :
        /\ old \notin t[i].modules
        /\ \A mod \in text[i].modules : mod # old => mod \in t[i].modules

\* add_modules keeps what is there and adds nothing but what it is given.
LEMMA AddModules ==
    ASSUME NEW text \in Seq(Block), NEW mods \in SUBSET Modules
    PROVE  /\ SameBlocks(add_modules(text, mods), text)
           /\ Added(add_modules(text, mods), text, mods)
<1>0. PICK t : t = add_modules(text, mods)
  OBVIOUS
<1>1. DOMAIN t = DOMAIN text /\ DOMAIN text = 1..Len(text) /\ Len(text) \in Nat
  BY <1>0 DEF add_modules
<1>2. ASSUME NEW i \in DOMAIN text
      PROVE  /\ t[i] \in Block /\ t[i].config = text[i].config
             /\ text[i].config =>
                  t[i].modules = text[i].modules \cup {mod \in mods : ~HasModule(text[i], mod)}
  <2>1. text[i] \in Block
    BY <1>1
  <2>2. PICK b : b = text[i]
    OBVIOUS
  <2>3. b \in [config: BOOLEAN, modules: SUBSET Modules]
    BY <2>1, <2>2 DEF Block
  <2>4. CASE ~b.config
    <3>1. t[i] = b
      BY <1>1, <2>2, <2>4, <1>0 DEF add_modules
    <3> QED BY <2>1, <2>2, <2>4, <3>1
  <2>5. CASE b.config
    <3> DEFINE new == {mod \in mods : ~HasModule(b, mod)}
    <3>1. t[i] = [b EXCEPT !.modules = b.modules \cup new]
      BY <1>1, <2>2, <2>5, <1>0 DEF add_modules
    <3>2. new \in SUBSET Modules
      OBVIOUS
    <3> HIDE DEF new
    <3>3. t[i] \in [config: BOOLEAN, modules: SUBSET Modules] /\ t[i].config = b.config
          /\ t[i].modules = b.modules \cup new
      BY <2>3, <3>1, <3>2
    <3> QED BY <2>2, <3>3 DEF new, Block
  <2> QED BY <2>4, <2>5
<1>3. t \in Seq(Block)
  <2>1. t \in [1..Len(text) -> Block]
    <3>1. t = [i \in DOMAIN text |-> t[i]]
      BY <1>0 DEF add_modules
    <3> QED BY <1>1, <1>2, <3>1
  <2> QED BY <1>1, <2>1
<1>4. text # NoText => t # NoText
  BY <1>1 DEF NoText
<1>5. ASSUME NEW i \in DOMAIN text, text[i].config
      PROVE  /\ text[i].modules \subseteq t[i].modules
             /\ t[i].modules \subseteq text[i].modules \cup mods
             /\ \A mod \in mods : HasModule(t[i], mod)
  BY <1>2, <1>5 DEF HasModule
<1>6. SameBlocks(t, text)
  BY <1>1, <1>2, <1>3, <1>4 DEF SameBlocks
<1>7. Added(t, text, mods)
  BY <1>5 DEF Added
<1> QED BY <1>0, <1>6, <1>7

\* replace_text leaves none of what it replaces.
LEMMA ReplaceText ==
    ASSUME NEW text \in Seq(Block), NEW old \in Modules, NEW new \in Modules, old # new
    PROVE  /\ SameBlocks(replace_text(text, old, new), text)
           /\ Replaced(replace_text(text, old, new), text, old)
<1>0. PICK t : t = replace_text(text, old, new)
  OBVIOUS
<1>1. DOMAIN t = DOMAIN text /\ DOMAIN text = 1..Len(text) /\ Len(text) \in Nat
  BY <1>0 DEF replace_text
<1>2. ASSUME NEW i \in DOMAIN text
      PROVE  /\ t[i] \in Block /\ t[i].config = text[i].config
             /\ old \notin t[i].modules
             /\ \A mod \in text[i].modules : mod # old => mod \in t[i].modules
  <2>1. text[i] \in Block
    BY <1>1
  <2>2. PICK b : b = text[i]
    OBVIOUS
  <2>3. b \in [config: BOOLEAN, modules: SUBSET Modules]
    BY <2>1, <2>2 DEF Block
  <2>4. CASE old \notin b.modules
    <3>1. t[i] = b
      BY <1>1, <2>2, <2>4, <1>0 DEF replace_text
    <3> QED BY <2>1, <2>2, <2>4, <3>1
  <2>5. CASE old \in b.modules
    <3>1. t[i] = [b EXCEPT !.modules = (b.modules \ {old}) \cup {new}]
      BY <1>1, <2>2, <2>5, <1>0 DEF replace_text
    <3>2. t[i] \in [config: BOOLEAN, modules: SUBSET Modules] /\ t[i].config = b.config
          /\ t[i].modules = (b.modules \ {old}) \cup {new}
      BY <2>3, <3>1
    <3> QED BY <2>2, <3>2 DEF Block
  <2> QED BY <2>4, <2>5
<1>3. t \in Seq(Block)
  <2>1. t \in [1..Len(text) -> Block]
    <3>1. t = [i \in DOMAIN text |-> t[i]]
      BY <1>0 DEF replace_text
    <3> QED BY <1>1, <1>2, <3>1
  <2> QED BY <1>1, <2>1
<1>4. text # NoText => t # NoText
  BY <1>1 DEF NoText
<1>5. SameBlocks(t, text)
  BY <1>1, <1>2, <1>3, <1>4 DEF SameBlocks
<1>6. Replaced(t, text, old)
  BY <1>2 DEF Replaced
<1> QED BY <1>0, <1>5, <1>6

LEMMA NothingToPatchKeeps ==
    ASSUME InstallerInv, NEW step, NothingToPatch(step)
    PROVE  InstallerInv'
<1>1. Moves(step)
  <2>1. faults' \in 0..MaxFaults
    BY FaultType DEF NothingToPatch, InstallerInv
  <2> QED BY <2>1 DEF InstallerInv, NothingToPatch, Moves, TypeOK
<1>2. DataTypes'
  BY DEF InstallerInv, NothingToPatch, TypeOK, DataTypes, volume, system
<1>3. TypeOK'
  BY <1>1, <1>2, StepTypes DEF InstallerInv
<1>4. SeqInv'
  BY FailSeq DEF InstallerInv, NothingToPatch, run, hostside
<1>5. StageInv'
  BY StageKeeps DEF InstallerInv, NothingToPatch, run
<1>6. LaunchedOnce'
  BY DEF InstallerInv, LaunchedOnce, NothingToPatch, volume
<1>7. ~Sound'
  BY DEF NothingToPatch, Fail, Sound
<1> QED BY <1>3, <1>4, <1>5, <1>6, <1>7 DEF InstallerInv

\* What an update does to the volume beside its packages.
LEMMA UpdateKick ==
    ASSUME TypeOK, NEW n \in 1..3, PatchesOf(n)
    PROVE  /\ SameBlocks(kick', kick)
           /\ \A i \in DOMAIN kick : kick[i].config =>
                /\ n = 1 => "mounter" \in kick'[i].modules
                /\ "mounter" \in kick[i].modules => "mounter" \in kick'[i].modules
                /\ "p5020sata" \notin kick[i].modules => "p5020sata" \notin kick'[i].modules
                /\ n = 2 /\ CONFIGS[machine].sata => "p5020sata" \notin kick'[i].modules
<1>1. kick \in Seq(Block)
  BY DEF TypeOK
<1>2. CASE n = 1
  <2>1. kick' = add_modules(kick, {"mounter"})
    BY <1>2 DEF PatchesOf, Patch
  <2>2. {"mounter"} \in SUBSET Modules
    BY DEF Modules
  <2>3. SameBlocks(kick', kick) /\ Added(kick', kick, {"mounter"})
    BY <1>1, <2>1, <2>2, AddModules
  <2> QED BY <1>2, <2>3 DEF Added, HasModule
<1>3. CASE n = 2 /\ CONFIGS[machine].sata
  <2>1. kick' = replace_text(kick, "p5020sata", "p50x0sata")
    BY <1>3 DEF PatchesOf, Patch
  <2>2. "p5020sata" \in Modules /\ "p50x0sata" \in Modules
    BY DEF Modules
  <2>3. SameBlocks(kick', kick) /\ Replaced(kick', kick, "p5020sata")
    BY <1>1, <2>1, <2>2, ReplaceText
  <2>4. ASSUME NEW i \in DOMAIN kick
        PROVE  /\ "p5020sata" \notin kick'[i].modules
               /\ "mounter" \in kick[i].modules => "mounter" \in kick'[i].modules
    BY <2>3 DEF Replaced
  <2> QED BY <1>3, <2>3, <2>4
<1>4. CASE n # 1 /\ ~(n = 2 /\ CONFIGS[machine].sata)
  <2>1. kick' = kick
    BY <1>4 DEF PatchesOf
  <2> QED BY <1>1, <1>4, <2>1 DEF SameBlocks
<1> QED BY <1>2, <1>3, <1>4

LEMMA UpdateKeeps ==
    ASSUME InstallerInv, NEW n \in 1..3, apply_one_update(n)
    PROVE  InstallerInv'
<1> DEFINE h == Update(n)
<1>0. h \in {"upd1", "upd2", "upd3"} /\ (h = "upd1" <=> n = 1) /\ (h = "upd2" <=> n = 2)
      /\ (h = "upd3" <=> n = 3)
  BY DEF Update
<1>1. /\ UNCHANGED <<run, tmp, ustart, nstart, legacy, system, late, extracted>>
      /\ TypeOK /\ SeqInv /\ At(h) /\ PatchesOf(n)
  BY DEF apply_one_update, InstallerInv
<1>2. PICK linked \in BOOLEAN :
         /\ libz' = Links(n, linked)
         /\ Copy({h}, tmp[h], IF linked THEN 0 ELSE 1)
  BY DEF apply_one_update
<1> HIDE DEF h
<1>3. /\ dest' \in [Pieces -> States] /\ clean' \in BOOLEAN
      /\ (Ok \/ Fail) /\ faults' \in 0..MaxFaults
      /\ clean' => /\ clean /\ linked
                   /\ \A p \in Pieces : dest'[p] = IF p \in {h} THEN tmp[h] ELSE dest[p]
  <2>1. {h} \in SUBSET Pieces /\ IsFiniteSet({h})
    BY <1>0, SmallSets DEF Pieces
  <2>2. tmp[h] \in States
    BY <1>0, <1>1 DEF TypeOK, Items
  <2>3. (IF linked THEN 0 ELSE 1) \in Nat /\ ((IF linked THEN 0 ELSE 1) = 0 => linked)
    OBVIOUS
  <2> QED BY <1>1, <1>2, <2>1, <2>2, <2>3, CopyEffect
<1>4. Moves(h)
  BY <1>1, <1>3 DEF Moves
<1>5. libz' \in {"none", "iso", "1.2.3", "1.2.13"}
  BY <1>1, <1>2 DEF Links, TypeOK
<1>6. DataTypes'
  <2>1. kick' \in Seq(Block)
    BY <1>1, UpdateKick DEF SameBlocks
  <2> QED BY <1>1, <1>3, <1>5, <2>1 DEF TypeOK, DataTypes, system
<1>7. TypeOK'
  BY <1>1, <1>4, <1>6, StepTypes
<1>8. SeqInv'
  <2>1. h # "unmount_iso" /\ media' = media /\ jammed' = jammed
    BY <1>0, <1>1 DEF system
  <2> QED BY <1>1, <1>4, <2>1, SeqKeeps DEF TypeOK
<1>9. StageInv'
  BY <1>1, StageKeeps DEF InstallerInv, run
<1>10. LaunchedOnce'
  BY <1>1 DEF InstallerInv, LaunchedOnce
<1>11. ASSUME Sound' PROVE SuppliesInv' /\ PiecesInv' /\ TextsInv' /\ ClearedInv'
  <2>1. /\ SuppliesInv /\ PiecesInv /\ TextsInv /\ ClearedInv
        /\ passed' = passed \cup {h} /\ UNCHANGED hostside
        /\ \A y \in StepNames : Rank(y) >= Rank(h) => y \notin passed
    BY <1>4, <1>11, SoundMoves
  <2>2. clean' /\ tmp[h] = "full"
    <3>1. h \in RequiredFiles(machine)
      BY <1>0, <1>1, StepFiles
    <3> QED BY <1>11, <2>1, <3>1 DEF Sound, SuppliesInv
  <2>3. SuppliesInv'
    BY <1>0, <1>1, <2>1, SuppliesKeep DEF system
  <2>4. PiecesInv'
    BY <1>0, <1>1, <1>3, <2>1, <2>2, PiecesCopied
  <2>5. /\ "install_enhancer" \notin passed' /\ (n < 3 => "upd3" \notin passed')
    <3>0. /\ Rank("install_enhancer") = 11 /\ Rank("upd3") = 10 /\ Rank("upd2") = 9
          /\ Rank("upd1") = 8
      BY DEF Rank
    <3>1. Rank(h) \in 8..10 /\ (n < 3 => Rank(h) < 10)
      BY <1>0, <3>0
    <3>2. Rank("install_enhancer") = 11 /\ Rank("upd3") = 10
      BY <3>0
    <3> QED BY <1>0, <2>1, <3>1, <3>2 DEF StepNames
  <2>6. n = 3 => libz' = "1.2.13"
    BY <1>0, <1>2, <1>3, <2>2 DEF Links
  <2>7. machine' = machine
    BY <2>1 DEF hostside
  <2>8. TextsInv'
    <3> DEFINE K(i) == /\ kick'[i].config = kick[i].config
                       /\ kick[i].config =>
                            /\ n = 1 => "mounter" \in kick'[i].modules
                            /\ "mounter" \in kick[i].modules => "mounter" \in kick'[i].modules
                            /\ "p5020sata" \notin kick[i].modules
                                 => "p5020sata" \notin kick'[i].modules
                            /\ n = 2 /\ CONFIGS[machine].sata
                                 => "p5020sata" \notin kick'[i].modules
    <3>1. /\ DOMAIN kick' = DOMAIN kick
          /\ kick # NoText => kick' # NoText
          /\ \A i \in DOMAIN kick : K(i)
      BY <1>1, UpdateKick DEF SameBlocks
    <3>2. "copy_base_os" \in passed' => kick' # NoText
      BY <1>0, <2>1, <3>1 DEF TextsInv
    <3>3. ASSUME NEW i \in DOMAIN kick', kick'[i].config
          PROVE  /\ "upd1" \in passed' => "mounter" \in kick'[i].modules
                 /\ "copy_base_os" \in passed' /\ (~CONFIGS[machine].sata \/ "upd2" \in passed')
                      => "p5020sata" \notin kick'[i].modules
      <4>1. K(i) /\ i \in DOMAIN kick
        BY <3>1, <3>3
      <4>2. /\ "upd1" \in passed => "mounter" \in kick[i].modules
            /\ "copy_base_os" \in passed /\ (~CONFIGS[machine].sata \/ "upd2" \in passed) =>
              "p5020sata" \notin kick[i].modules
        BY <2>1, <3>3, <4>1 DEF TextsInv
      <4> QED BY <1>0, <2>1, <3>3, <4>1, <4>2
    <3>4. /\ ("copy_installation_extras" \in passed' <=> "copy_installation_extras" \in passed)
          /\ ("install_serialshell" \in passed' <=> "install_serialshell" \in passed)
          /\ ("install_network_config" \in passed' <=> "install_network_config" \in passed)
          /\ ("install_mcpd" \in passed' <=> "install_mcpd" \in passed)
      BY <1>0, <2>1
    <3>5. "upd3" \in passed' => libz' = "1.2.13"
      BY <2>5, <2>6
    <3> HIDE DEF K
    <3> QED BY <1>1, <2>1, <2>5, <2>7, <3>2, <3>3, <3>4, <3>5 DEF TextsInv
  <2>9. ClearedInv'
    BY <1>0, <1>1, <2>1, ClearedKeep
  <2> QED BY <2>3, <2>4, <2>8, <2>9
<1> QED BY <1>7, <1>8, <1>9, <1>10, <1>11 DEF InstallerInv

LEMMA EnhancerKeeps ==
    ASSUME InstallerInv, install_enhancer
    PROVE  InstallerInv'
<1> DEFINE h == "install_enhancer"
           pieces == {"enhancer"} \cup (IF CONFIGS[machine].eth THEN {"eth"} ELSE {})
<1>1. /\ UNCHANGED <<run, tmp, ustart, nstart, libz, legacy, system, late, extracted>>
      /\ TypeOK /\ At(h) /\ Copy(pieces, tmp["enhancer"], 0)
      /\ kick # NoText /\ kick' = add_modules(kick, ENHANCER_MODULES)
  BY DEF install_enhancer, InstallerInv, Patch
<1>2. /\ pieces \in SUBSET Pieces /\ IsFiniteSet(pieces) /\ "enhancer" \in pieces
      /\ CONFIGS[machine].eth => "eth" \in pieces
  <2>1. pieces = {"enhancer"} \/ pieces = {"enhancer", "eth"}
    OBVIOUS
  <2> QED BY <2>1, SmallSets DEF Pieces
<1> HIDE DEF pieces
<1>3. /\ dest' \in [Pieces -> States] /\ clean' \in BOOLEAN
      /\ (Ok \/ Fail) /\ faults' \in 0..MaxFaults
      /\ clean' => /\ clean
                   /\ \A p \in Pieces : dest'[p] = IF p \in pieces THEN tmp["enhancer"]
                                                   ELSE dest[p]
  <2>1. tmp["enhancer"] \in States
    BY <1>1 DEF TypeOK, Items
  <2> QED BY <1>1, <1>2, <2>1, CopyEffect
<1>4. Moves(h)
  BY <1>1, <1>3 DEF Moves
<1>5. SameBlocks(kick', kick) /\ Added(kick', kick, ENHANCER_MODULES) /\ kick' # NoText
  <2>1. kick \in Seq(Block) /\ ENHANCER_MODULES \in SUBSET Modules
    BY <1>1 DEF TypeOK, ENHANCER_MODULES, Modules
  <2>2. SameBlocks(kick', kick) /\ Added(kick', kick, ENHANCER_MODULES)
    BY <1>1, <2>1, AddModules
  <2> QED BY <1>1, <2>2 DEF SameBlocks
<1>6. DataTypes'
  BY <1>1, <1>3, <1>5 DEF TypeOK, DataTypes, system, SameBlocks
<1>7. TypeOK'
  BY <1>4, <1>6, StepTypes DEF InstallerInv
<1>8. SeqInv'
  BY <1>1, <1>4, SeqKeeps DEF InstallerInv, TypeOK, system
<1>9. StageInv'
  BY <1>1, StageKeeps DEF InstallerInv, run
<1>10. LaunchedOnce'
  BY <1>1 DEF InstallerInv, LaunchedOnce
<1>11. ASSUME Sound' PROVE SuppliesInv' /\ PiecesInv' /\ TextsInv' /\ ClearedInv'
  <2>1. /\ SuppliesInv /\ PiecesInv /\ TextsInv /\ ClearedInv
        /\ passed' = passed \cup {h} /\ UNCHANGED hostside
    BY <1>4, <1>11, SoundMoves
  <2>2. clean' /\ tmp["enhancer"] = "full"
    BY <1>11, <2>1 DEF Sound, SuppliesInv, RequiredFiles
  <2>3. SuppliesInv'
    BY <1>1, <2>1, SuppliesKeep DEF system
  <2>4. PiecesInv'
    BY <1>1, <1>2, <1>3, <2>1, <2>2, PiecesCopied
  <2>5. TextsInv'
    <3>1. machine' = machine
      BY <2>1 DEF hostside
    <3>2. ASSUME NEW i \in DOMAIN kick', kick'[i].config
          PROVE  /\ "upd1" \in passed' => "mounter" \in kick'[i].modules
                 /\ "copy_base_os" \in passed' /\ (~CONFIGS[machine].sata \/ "upd2" \in passed')
                      => "p5020sata" \notin kick'[i].modules
                 /\ \A mod \in ENHANCER_MODULES : HasModule(kick'[i], mod)
      <4>1. /\ i \in DOMAIN kick /\ kick[i].config
            /\ kick[i].modules \subseteq kick'[i].modules
            /\ kick'[i].modules \subseteq kick[i].modules \cup ENHANCER_MODULES
            /\ \A mod \in ENHANCER_MODULES : HasModule(kick'[i], mod)
        BY <1>5, <3>2 DEF SameBlocks, Added
      <4>2. /\ "upd1" \in passed => "mounter" \in kick[i].modules
            /\ "copy_base_os" \in passed /\ (~CONFIGS[machine].sata \/ "upd2" \in passed) =>
              "p5020sata" \notin kick[i].modules
        BY <2>1, <4>1 DEF TextsInv
      <4>3. "p5020sata" \notin ENHANCER_MODULES
        BY DEF ENHANCER_MODULES
      <4> QED BY <2>1, <4>1, <4>2, <4>3
    <3>3. /\ ("copy_installation_extras" \in passed' <=> "copy_installation_extras" \in passed)
          /\ ("install_serialshell" \in passed' <=> "install_serialshell" \in passed)
          /\ ("install_network_config" \in passed' <=> "install_network_config" \in passed)
          /\ ("install_mcpd" \in passed' <=> "install_mcpd" \in passed)
          /\ ("upd3" \in passed' <=> "upd3" \in passed)
      BY <2>1
    <3> QED BY <1>1, <1>5, <2>1, <3>1, <3>2, <3>3 DEF TextsInv
  <2>6. ClearedInv'
    BY <1>1, <2>1, ClearedKeep
  <2> QED BY <2>3, <2>4, <2>5, <2>6
<1> QED BY <1>7, <1>8, <1>9, <1>10, <1>11 DEF InstallerInv

----------------------------------------------------------------------------
(* The steps for single files.                                             *)

LEMMA PiecesGrow ==
    ASSUME PiecesInv, NEW h, passed' = passed \cup {h}, UNCHANGED hostside,
           UNCHANGED tmp, \A p \in Pieces : dest[p] = "full" => dest'[p] = "full",
           h \in {"patch_amidock_prefs", "install_network_config",
                  "install_serialshell", "install_mcpd"},
           h = "patch_amidock_prefs" /\ tmp["AmiDock"] = "full" => dest'["AmiDock"] = "full",
           h = "install_network_config" /\ CONFIGS[machine].eth =>
             dest'["interface"] = "full",
           h = "install_serialshell" /\ tmp["SerialShell"] = "full" =>
             dest'["SerialShell"] = "full",
           h = "install_mcpd" => /\ dest'["MCPd"] = "full"
                                 /\ tmp["helpers"] = "full" => dest'["helpers"] = "full"
    PROVE  PiecesInv'
<1>1. machine' = machine
  BY DEF hostside
<1>2. \A p \in {"base", "startup", "prefs", "boot", "upd1", "upd2", "upd3",
       "enhancer", "eth", "ngf", "extras", "AmiDock", "interface",
       "SerialShell", "MCPd", "helpers"} : dest[p] = "full" => dest'[p] = "full"
  BY DEF Pieces
<1> QED BY <1>1, <1>2 DEF PiecesInv

LEMMA SkipEffect ==
    ASSUME TypeOK, NEW item, Skip(item)
    PROVE  /\ (Ok \/ Fail) /\ faults' \in 0..MaxFaults /\ UNCHANGED volume
           /\ clean' \in BOOLEAN /\ (clean' => clean /\ tmp[item] = "none")
<1>1. CASE tmp[item] = "none"
  BY <1>1, DoneMoves DEF Skip, TypeOK
<1>2. CASE tmp[item] # "none"
  BY <1>2, DoneMoves DEF Skip, TypeOK
<1> QED BY <1>1, <1>2

LEMMA AmiDockKeeps ==
    ASSUME InstallerInv, patch_amidock_prefs
    PROVE  InstallerInv'
<1> DEFINE h == "patch_amidock_prefs"
           Put == /\ tmp["AmiDock"] # "none" /\ Done(0)
                  /\ dest' = [dest EXCEPT !["AmiDock"] = tmp["AmiDock"]]
                  /\ UNCHANGED <<kick, ustart, nstart, libz, legacy, clean>>
<1>1. /\ UNCHANGED <<run, tmp, system, late, extracted>> /\ TypeOK /\ At(h)
      /\ Skip("AmiDock") \/ Put
  BY DEF patch_amidock_prefs, InstallerInv
<1>2. /\ UNCHANGED <<kick, ustart, nstart, libz, legacy>>
      /\ dest' \in [Pieces -> States]
  BY <1>1, SkipEffect DEF volume, TypeOK, Items, Optional, States, Pieces
<1>3. Moves(h)
  BY <1>1, SkipEffect, DoneMoves DEF Moves, TypeOK
<1>4. DataTypes'
  BY <1>1, <1>2 DEF TypeOK, DataTypes, system
<1>5. TypeOK'
  BY <1>3, <1>4, StepTypes DEF InstallerInv
<1>6. SeqInv'
  BY <1>1, <1>3, SeqKeeps DEF InstallerInv, TypeOK, system
<1>7. StageInv'
  BY <1>1, StageKeeps DEF InstallerInv, run
<1>8. LaunchedOnce'
  BY <1>2 DEF InstallerInv, LaunchedOnce
<1>9. ASSUME Sound' PROVE SuppliesInv' /\ PiecesInv' /\ TextsInv' /\ ClearedInv'
  <2>1. /\ SuppliesInv /\ PiecesInv /\ TextsInv /\ ClearedInv
        /\ passed' = passed \cup {h} /\ UNCHANGED hostside
    BY <1>3, <1>9, SoundMoves
  <2>2. tmp["AmiDock"] \in {"none", "full"}
    BY <1>1, <2>1 DEF SuppliesInv, Optional, TypeOK, Items, States
  <2>3. /\ \A p \in Pieces : dest[p] = "full" => dest'[p] = "full"
        /\ tmp["AmiDock"] = "full" => dest'["AmiDock"] = "full"
    <3>1. CASE Skip("AmiDock")
      BY <1>1, <1>9, <3>1, SkipEffect DEF Sound, volume
    <3>2. CASE Put
      BY <1>1, <2>2, <3>2 DEF TypeOK, Pieces
    <3> QED BY <1>1, <3>1, <3>2
  <2>4. SuppliesInv'
    BY <1>1, <2>1, SuppliesKeep DEF system
  <2>5. PiecesInv'
    BY <1>1, <2>1, <2>3, PiecesGrow
  <2>6. TextsInv'
    BY <1>1, <1>2, <2>1, TextsKeep
  <2>7. ClearedInv'
    BY <1>1, <1>2, <2>1, ClearedKeep
  <2> QED BY <2>4, <2>5, <2>6, <2>7
<1> QED BY <1>5, <1>6, <1>7, <1>8, <1>9 DEF InstallerInv

LEMMA NetworkKeeps ==
    ASSUME InstallerInv, install_network_config
    PROVE  InstallerInv'
<1> DEFINE h == "install_network_config"
<1>1. /\ UNCHANGED <<run, tmp, kick, ustart, libz, legacy, system, late, extracted, clean>>
      /\ TypeOK /\ At(h) /\ Done(0)
      /\ nstart' = [text |-> TRUE, lines |-> 0]
      /\ dest' = [dest EXCEPT !["interface"] =
                     IF CONFIGS[machine].eth THEN "full" ELSE dest["interface"]]
  BY DEF install_network_config, InstallerInv
<1>2. /\ dest' \in [Pieces -> States]
      /\ \A p \in Pieces : dest[p] = "full" => dest'[p] = "full"
      /\ CONFIGS[machine].eth => dest'["interface"] = "full"
  BY <1>1 DEF TypeOK, States, Pieces
<1>3. nstart' \in Startup /\ nstart'.lines <= 1
  BY <1>1 DEF Startup
<1>4. Moves(h)
  BY <1>1, DoneMoves DEF Moves, TypeOK
<1>5. DataTypes'
  BY <1>1, <1>2, <1>3 DEF TypeOK, DataTypes, system
<1>6. TypeOK'
  BY <1>4, <1>5, StepTypes DEF InstallerInv
<1>7. SeqInv'
  BY <1>1, <1>4, SeqKeeps DEF InstallerInv, TypeOK, system
<1>8. StageInv'
  BY <1>1, StageKeeps DEF InstallerInv, run
<1>9. LaunchedOnce'
  BY <1>1, <1>3 DEF InstallerInv, LaunchedOnce
<1>10. ASSUME Sound' PROVE SuppliesInv' /\ PiecesInv' /\ TextsInv' /\ ClearedInv'
  <2>1. /\ SuppliesInv /\ PiecesInv /\ TextsInv /\ ClearedInv
        /\ passed' = passed \cup {h} /\ UNCHANGED hostside
        /\ \A y \in StepNames : Rank(y) >= Rank(h) => y \notin passed
    BY <1>4, <1>10, SoundMoves
  <2>2. SuppliesInv'
    BY <1>1, <2>1, SuppliesKeep DEF system
  <2>3. PiecesInv'
    BY <1>1, <1>2, <2>1, PiecesGrow
  <2>4. TextsInv'
    <3>1. "install_mcpd" \notin passed'
      <4>1. Rank("install_mcpd") >= Rank(h)
        BY DEF Rank
      <4> QED BY <2>1, <4>1 DEF StepNames
    <3>2. machine' = machine
      BY <2>1 DEF hostside
    <3> QED BY <1>1, <2>1, <3>1, <3>2 DEF TextsInv, HasModule
  <2>5. ClearedInv'
    BY <1>1, <2>1, ClearedKeep
  <2> QED BY <2>2, <2>3, <2>4, <2>5
<1> QED BY <1>6, <1>7, <1>8, <1>9, <1>10 DEF InstallerInv

LEMMA AppendOnceType ==
    ASSUME NEW file \in Startup, file.lines <= 1, NEW read \in BOOLEAN
    PROVE  /\ AppendOnce(file, read) \in Startup
           /\ AppendOnce(file, read).lines = 1
           /\ read /\ file.lines = 0 => AppendOnce(file, read) = [text |-> file.text, lines |-> 1]
BY DEF AppendOnce, Startup

LEMMA FirstLine ==
    AppendOnce([text |-> TRUE, lines |-> 0], TRUE) = [text |-> TRUE, lines |-> 1]
<1> DEFINE f == [text |-> TRUE, lines |-> 0]
<1>1. f.text = TRUE /\ ~(f.lines > 0)
  OBVIOUS
<1> HIDE DEF f
<1>2. AppendOnce(f, TRUE) = [text |-> f.text /\ TRUE, lines |-> 1]
  BY <1>1 DEF AppendOnce
<1>3. (f.text /\ TRUE) = TRUE
  BY <1>1
<1>4. AppendOnce(f, TRUE) = [text |-> TRUE, lines |-> 1]
  BY <1>2, <1>3
<1> QED BY <1>4 DEF f

LEMMA SerialShellKeeps ==
    ASSUME InstallerInv, install_serialshell
    PROVE  InstallerInv'
<1> DEFINE h == "install_serialshell"
           Put(read) == /\ tmp["SerialShell"] # "none" /\ Done(IF read THEN 0 ELSE 1)
                        /\ dest' = [dest EXCEPT !["SerialShell"] = tmp["SerialShell"]]
                        /\ ustart' = AppendOnce(ustart, read)
                        /\ clean' = (clean /\ read)
                        /\ UNCHANGED <<kick, nstart, libz, legacy>>
<1>1. /\ UNCHANGED <<run, tmp, system, late, extracted>> /\ TypeOK /\ At(h)
      /\ Skip("SerialShell") \/ \E read \in BOOLEAN : Put(read)
  BY DEF install_serialshell, InstallerInv
<1>2. /\ UNCHANGED <<kick, nstart, libz, legacy>>
      /\ dest' \in [Pieces -> States]
      /\ ustart' \in Startup /\ ustart'.lines <= 1
  <2>1. ustart \in Startup /\ ustart.lines <= 1
    BY DEF InstallerInv, TypeOK, LaunchedOnce
  <2>2. CASE Skip("SerialShell")
    BY <1>1, <2>1, <2>2, SkipEffect DEF volume, TypeOK
  <2>3. ASSUME NEW read \in BOOLEAN, Put(read)
        PROVE  /\ UNCHANGED <<kick, nstart, libz, legacy>>
               /\ dest' \in [Pieces -> States]
               /\ ustart' \in Startup /\ ustart'.lines <= 1
    <3>1. ustart' \in Startup /\ ustart'.lines = 1
      BY <2>1, <2>3, AppendOnceType
    <3>2. dest' \in [Pieces -> States]
      BY <1>1, <2>3 DEF TypeOK, Items, Optional, Pieces
    <3> QED BY <2>3, <3>1, <3>2
  <2> QED BY <1>1, <2>2, <2>3
<1>3. Moves(h)
  <2>1. CASE Skip("SerialShell")
    BY <1>1, <2>1, SkipEffect DEF Moves
  <2>2. ASSUME NEW read \in BOOLEAN, Put(read)
        PROVE  Moves(h)
    <3>1. (IF read THEN 0 ELSE 1) \in Nat
      OBVIOUS
    <3>2. (Ok \/ Fail) /\ faults' \in 0..MaxFaults
      BY <1>1, <2>2, <3>1, DoneMoves
    <3> QED BY <1>1, <2>2, <3>2 DEF Moves, TypeOK
  <2> QED BY <1>1, <2>1, <2>2
<1>4. DataTypes'
  BY <1>1, <1>2 DEF TypeOK, DataTypes, system
<1>5. TypeOK'
  BY <1>3, <1>4, StepTypes DEF InstallerInv
<1>6. SeqInv'
  BY <1>1, <1>3, SeqKeeps DEF InstallerInv, TypeOK, system
<1>7. StageInv'
  BY <1>1, StageKeeps DEF InstallerInv, run
<1>8. LaunchedOnce'
  BY <1>2 DEF InstallerInv, LaunchedOnce
<1>9. ASSUME Sound' PROVE SuppliesInv' /\ PiecesInv' /\ TextsInv' /\ ClearedInv'
  <2>1. /\ SuppliesInv /\ PiecesInv /\ TextsInv /\ ClearedInv
        /\ passed' = passed \cup {h} /\ UNCHANGED hostside
        /\ \A y \in StepNames : Rank(y) >= Rank(h) => y \notin passed
    BY <1>3, <1>9, SoundMoves
  <2>2. tmp["SerialShell"] \in {"none", "full"}
    BY <1>1, <2>1 DEF SuppliesInv, Optional, TypeOK, Items, States
  <2>3. "install_serialshell" \notin passed /\ "copy_installation_extras" \in passed
    <3>1. /\ Rank("install_serialshell") >= Rank(h)
          /\ Rank("copy_installation_extras") < Rank(h)
      BY DEF Rank
    <3>2. "copy_installation_extras" \in passed
      BY <1>1, <3>1, Order DEF InstallerInv, Common
    <3> QED BY <2>1, <3>1, <3>2 DEF StepNames
  <2>4. ustart = [text |-> TRUE, lines |-> 0]
    BY <2>1, <2>3 DEF TextsInv
  <2>5. /\ \A p \in Pieces : dest[p] = "full" => dest'[p] = "full"
        /\ tmp["SerialShell"] = "full" => dest'["SerialShell"] = "full"
        /\ ustart' = [text |-> TRUE, lines |-> IF tmp["SerialShell"] = "full" THEN 1 ELSE 0]
    <3>1. CASE Skip("SerialShell")
      BY <1>1, <1>9, <2>4, <3>1, SkipEffect DEF Sound, volume
    <3>2. ASSUME NEW read \in BOOLEAN, Put(read)
          PROVE  /\ \A p \in Pieces : dest[p] = "full" => dest'[p] = "full"
                 /\ dest'["SerialShell"] = "full" /\ tmp["SerialShell"] = "full"
                 /\ ustart' = [text |-> TRUE, lines |-> 1]
      <4>1. read = TRUE
        <5>1. clean' /\ clean' = (clean /\ read)
          BY <1>9, <3>2 DEF Sound
        <5> QED BY <5>1, Zenon
      <4>2. ustart' = [text |-> TRUE, lines |-> 1]
        BY <2>4, <3>2, <4>1, FirstLine
      <4> QED BY <1>1, <2>2, <3>2, <4>2 DEF TypeOK, Pieces
    <3> QED BY <1>1, <3>1, <3>2
  <2>6. SuppliesInv'
    BY <1>1, <2>1, SuppliesKeep DEF system
  <2>7. PiecesInv'
    BY <1>1, <2>1, <2>5, PiecesGrow
  <2>8. TextsInv'
    <3>1. machine' = machine
      BY <2>1 DEF hostside
    <3> QED BY <1>1, <1>2, <2>1, <2>5, <3>1 DEF TextsInv, HasModule
  <2>9. ClearedInv'
    BY <1>1, <1>2, <2>1, ClearedKeep
  <2> QED BY <2>6, <2>7, <2>8, <2>9
<1> QED BY <1>5, <1>6, <1>7, <1>8, <1>9 DEF InstallerInv

LEMMA McpdKeeps ==
    ASSUME InstallerInv, install_mcpd
    PROVE  InstallerInv'
<1> DEFINE h == "install_mcpd"
           helpers == IF tmp["helpers"] = "none" THEN dest["helpers"] ELSE tmp["helpers"]
           Put(read) == /\ tmp["MCPd"] # "none" /\ Done(IF read THEN 0 ELSE 1)
                        /\ dest' = [dest EXCEPT !["MCPd"] = tmp["MCPd"],
                                                !["helpers"] = helpers]
                        /\ nstart' = AppendOnce(nstart, read)
                        /\ clean' = (clean /\ read)
                        /\ UNCHANGED <<kick, ustart, libz, legacy>>
<1>1. /\ UNCHANGED <<run, tmp, system, late, extracted>> /\ TypeOK /\ At(h)
      /\ Skip("MCPd") \/ \E read \in BOOLEAN : Put(read)
  BY DEF install_mcpd, InstallerInv, TypeOK, Pieces
<1>2. tmp["MCPd"] \in States /\ tmp["helpers"] \in States /\ helpers \in States
  BY <1>1 DEF TypeOK, Items, Optional, Pieces
<1>3. ASSUME NEW read \in BOOLEAN, Put(read)
      PROVE  /\ dest' \in [Pieces -> States]
             /\ dest'["MCPd"] = tmp["MCPd"] /\ dest'["helpers"] = helpers
             /\ \A p \in Pieces \ {"MCPd", "helpers"} : dest'[p] = dest[p]
  BY <1>1, <1>2, <1>3 DEF TypeOK, Pieces
<1> HIDE DEF helpers
<1>4. /\ UNCHANGED <<kick, ustart, libz, legacy>>
      /\ dest' \in [Pieces -> States]
      /\ nstart' \in Startup /\ nstart'.lines <= 1
  <2>1. nstart \in Startup /\ nstart.lines <= 1
    BY DEF InstallerInv, TypeOK, LaunchedOnce
  <2>2. CASE Skip("MCPd")
    BY <1>1, <2>1, <2>2, SkipEffect DEF volume, TypeOK
  <2>3. ASSUME NEW read \in BOOLEAN, Put(read)
        PROVE  /\ UNCHANGED <<kick, ustart, libz, legacy>>
               /\ dest' \in [Pieces -> States]
               /\ nstart' \in Startup /\ nstart'.lines <= 1
    <3>1. nstart' \in Startup /\ nstart'.lines = 1
      BY <2>1, <2>3, AppendOnceType
    <3> QED BY <1>3, <2>3, <3>1
  <2> QED BY <1>1, <2>2, <2>3
<1>5. Moves(h)
  <2>1. CASE Skip("MCPd")
    BY <1>1, <2>1, SkipEffect DEF Moves
  <2>2. ASSUME NEW read \in BOOLEAN, Put(read)
        PROVE  Moves(h)
    <3>1. (IF read THEN 0 ELSE 1) \in Nat
      OBVIOUS
    <3>2. (Ok \/ Fail) /\ faults' \in 0..MaxFaults
      BY <1>1, <2>2, <3>1, DoneMoves
    <3> QED BY <1>1, <2>2, <3>2 DEF Moves, TypeOK
  <2> QED BY <1>1, <2>1, <2>2
<1>6. DataTypes'
  BY <1>1, <1>4 DEF TypeOK, DataTypes, system
<1>7. TypeOK'
  BY <1>5, <1>6, StepTypes DEF InstallerInv
<1>8. SeqInv'
  BY <1>1, <1>5, SeqKeeps DEF InstallerInv, TypeOK, system
<1>9. StageInv'
  BY <1>1, StageKeeps DEF InstallerInv, run
<1>10. LaunchedOnce'
  BY <1>4 DEF InstallerInv, LaunchedOnce
<1>11. ASSUME Sound' PROVE SuppliesInv' /\ PiecesInv' /\ TextsInv' /\ ClearedInv'
  <2>1. /\ SuppliesInv /\ PiecesInv /\ TextsInv /\ ClearedInv
        /\ passed' = passed \cup {h} /\ UNCHANGED hostside
        /\ \A y \in StepNames : Rank(y) >= Rank(h) => y \notin passed
    BY <1>5, <1>11, SoundMoves
  <2>2. tmp["MCPd"] = "full" /\ tmp["helpers"] # "part"
    BY <2>1 DEF SuppliesInv, Optional
  <2>3. "install_mcpd" \notin passed /\ "install_network_config" \in passed
    <3>1. /\ Rank("install_mcpd") >= Rank(h)
          /\ Rank("install_network_config") < Rank(h)
      BY DEF Rank
    <3>2. "install_network_config" \in passed
      BY <1>1, <3>1, Order DEF InstallerInv, Common
    <3> QED BY <2>1, <3>1, <3>2 DEF StepNames
  <2>4. nstart = [text |-> TRUE, lines |-> 0]
    BY <2>1, <2>3 DEF TextsInv
  <2>5. clean'
    BY <1>11 DEF Sound
  <2>6. PICK read \in BOOLEAN : Put(read)
    <3>1. ~Skip("MCPd")
      BY <1>1, <2>2, <2>5, SkipEffect
    <3> QED BY <1>1, <3>1
  <2>7. read = TRUE
    <3>1. clean' /\ clean' = (clean /\ read)
      BY <2>5, <2>6
    <3> QED BY <3>1, Zenon
  <2>8. nstart' = [text |-> TRUE, lines |-> 1]
    BY <2>4, <2>6, <2>7, FirstLine
  <2>9. /\ \A p \in Pieces : dest[p] = "full" => dest'[p] = "full"
        /\ dest'["MCPd"] = "full" /\ (tmp["helpers"] = "full" => dest'["helpers"] = "full")
    <3>1. /\ dest'["MCPd"] = tmp["MCPd"] /\ dest'["helpers"] = helpers
          /\ \A p \in Pieces \ {"MCPd", "helpers"} : dest'[p] = dest[p]
      BY <1>3, <2>6
    <3>2. tmp["helpers"] \in {"none", "full"}
      BY <1>2, <2>2 DEF States
    <3>3. /\ tmp["helpers"] = "full" => helpers = "full"
          /\ dest["helpers"] = "full" => helpers = "full"
      BY <3>2 DEF helpers
    <3> QED BY <2>2, <3>1, <3>3
  <2>10. SuppliesInv'
    BY <1>1, <2>1, SuppliesKeep DEF system
  <2>11. PiecesInv'
    BY <1>1, <2>1, <2>9, PiecesGrow
  <2>12. TextsInv'
    <3>1. machine' = machine
      BY <2>1 DEF hostside
    <3> QED BY <1>1, <1>4, <2>1, <2>8, <3>1 DEF TextsInv, HasModule
  <2>13. ClearedInv'
    BY <1>1, <1>4, <2>1, ClearedKeep
  <2> QED BY <2>10, <2>11, <2>12, <2>13
<1> QED BY <1>7, <1>8, <1>9, <1>10, <1>11 DEF InstallerInv

----------------------------------------------------------------------------
(* The steps that take away.                                               *)

LEMMA QuarantineKeeps ==
    ASSUME InstallerInv, NEW h, At(h), NEW driver, Quarantine(driver),
           \/ h = "quarantine_emu10kx" /\ driver = "emu10kx"
           \/ h = "quarantine_devs_monitors" /\ driver = "monitors"
    PROVE  InstallerInv'
<1>1. /\ UNCHANGED <<run, tmp, dest, kick, ustart, nstart, libz, system, late, extracted>>
      /\ TypeOK
      /\ Ok /\ (Fault(0) \/ Fault(1))
      /\ \/ legacy' = legacy \ {driver} /\ clean' = clean
         \/ legacy' = legacy /\ clean' = (clean /\ driver \notin legacy)
  BY DEF Quarantine, InstallerInv
<1>2. Moves(h)
  <2>1. faults' \in 0..MaxFaults
    BY <1>1, FaultType
  <2> QED BY <1>1, <2>1 DEF Moves, TypeOK
<1>3. legacy' \subseteq legacy /\ (clean' => driver \notin legacy')
  BY <1>1
<1>4. DataTypes'
  BY <1>1, <1>3 DEF TypeOK, DataTypes, system
<1>5. TypeOK'
  BY <1>2, <1>4, StepTypes DEF InstallerInv
<1>6. SeqInv'
  BY <1>1, <1>2, SeqKeeps DEF InstallerInv, TypeOK, system
<1>7. StageInv'
  BY <1>1, StageKeeps DEF InstallerInv, run
<1>8. LaunchedOnce'
  BY <1>1 DEF InstallerInv, LaunchedOnce
<1>9. ASSUME Sound' PROVE SuppliesInv' /\ PiecesInv' /\ TextsInv' /\ ClearedInv'
  <2>1. /\ SuppliesInv /\ PiecesInv /\ TextsInv /\ ClearedInv
        /\ passed' = passed \cup {h} /\ UNCHANGED hostside
    BY <1>2, <1>9, SoundMoves
  <2>2. SuppliesInv'
    BY <1>1, <2>1, SuppliesKeep DEF system
  <2>3. PiecesInv'
    BY <1>1, <2>1, PiecesKeep
  <2>4. TextsInv'
    BY <1>1, <2>1, TextsKeep
  <2>5. clean'
    BY <1>9 DEF Sound
  <2>6. ClearedInv'
    BY <1>1, <1>3, <2>1, <2>5 DEF ClearedInv, system
  <2> QED BY <2>2, <2>3, <2>4, <2>6
<1> QED BY <1>5, <1>6, <1>7, <1>8, <1>9 DEF InstallerInv

LEMMA UnmountKeeps ==
    ASSUME InstallerInv, unmount_iso
    PROVE  InstallerInv'
<1> DEFINE h == "unmount_iso"
<1>1. /\ UNCHANGED <<run, tmp, volume, combi, live, late, extracted>>
      /\ TypeOK /\ SeqInv /\ At(h)
  BY DEF unmount_iso, InstallerInv
<1>2. PICK ejected \in BOOLEAN :
         /\ media' = (media /\ ~ejected)
         /\ jammed' = IF ejected THEN jammed ELSE jammed \cup {h}
         /\ clean' = (clean /\ ejected)
         /\ Done(IF ejected THEN 0 ELSE 1)
  BY DEF unmount_iso, Eject
<1>3. /\ media' \in BOOLEAN /\ (media' => media) /\ jammed \subseteq jammed'
      /\ jammed' \subseteq Ejections /\ (media' => h \in jammed')
  BY <1>1, <1>2 DEF TypeOK, Ejections
<1>4. clean' \in BOOLEAN /\ (clean' => clean /\ ejected)
  BY <1>1, <1>2 DEF TypeOK
<1>5. Moves(h)
  <2>1. (IF ejected THEN 0 ELSE 1) \in Nat
    OBVIOUS
  <2>2. (Ok \/ Fail) /\ faults' \in 0..MaxFaults
    BY <1>1, <1>2, <2>1, DoneMoves
  <2> QED BY <1>1, <1>4, <2>2 DEF Moves
<1>6. DataTypes'
  BY <1>1, <1>3 DEF TypeOK, DataTypes, volume
<1>7. TypeOK'
  BY <1>5, <1>6, StepTypes DEF InstallerInv
<1>8. SeqInv'
  BY <1>1, <1>3, <1>5, SeqKeeps DEF TypeOK
<1>9. StageInv'
  BY <1>1, StageKeeps DEF InstallerInv, run
<1>10. LaunchedOnce'
  BY <1>1 DEF InstallerInv, LaunchedOnce, volume
<1>11. ASSUME Sound' PROVE SuppliesInv' /\ PiecesInv' /\ TextsInv' /\ ClearedInv'
  <2>1. /\ SuppliesInv /\ PiecesInv /\ TextsInv /\ ClearedInv
        /\ passed' = passed \cup {h} /\ UNCHANGED hostside
    BY <1>5, <1>11, SoundMoves
  <2>2. SuppliesInv'
    BY <1>1, <2>1, SuppliesKeep
  <2>3. PiecesInv'
    BY <1>1, <2>1, PiecesKeep DEF volume
  <2>4. TextsInv'
    BY <1>1, <2>1, TextsKeep DEF volume
  <2>5. ~media'
    BY <1>2, <1>4, <1>11 DEF Sound
  <2>6. ClearedInv'
    BY <1>1, <2>1, <2>5 DEF ClearedInv, volume
  <2> QED BY <2>2, <2>3, <2>4, <2>6
<1> QED BY <1>7, <1>8, <1>9, <1>10, <1>11 DEF InstallerInv

LEMMA DismountKeeps ==
    ASSUME InstallerInv, dismount_combi_device
    PROVE  /\ InstallerInv'
           /\ media' => jammed' = Ejections
<1> DEFINE h == "dismount_combi_device"
<1>1. /\ UNCHANGED <<run, tmp, volume, late, extracted>> /\ TypeOK /\ SeqInv /\ At(h)
  BY DEF dismount_combi_device, InstallerInv
<1>2. PICK ejected, read, dropped \in BOOLEAN :
         /\ media' = (media /\ ~ejected)
         /\ jammed' = IF ejected THEN jammed ELSE jammed \cup {h}
         /\ combi' = IF read /\ combi = "ours" THEN "none" ELSE combi
         /\ live' = (live /\ ~dropped)
         /\ clean' = (clean /\ read /\ dropped)
         /\ Ok /\ Fault(Cardinality({i \in 1..3 : ~<<ejected, read, dropped>>[i]}))
  BY DEF dismount_combi_device, Eject
<1>3. faults' \in 0..MaxFaults
  <2> DEFINE S == {i \in 1..3 : ~<<ejected, read, dropped>>[i]}
  <2>1. IsFiniteSet(1..3)
    <3>1. 1 \in Int /\ 3 \in Int
      OBVIOUS
    <3> QED BY <3>1, FS_Interval, Zenon
  <2>2. S \subseteq 1..3
    OBVIOUS
  <2> HIDE DEF S
  <2>3. Cardinality(S) \in Nat
    BY <2>1, <2>2, FS_Subset, FS_CardinalityType
  <2>4. Fault(Cardinality(S))
    BY <1>2 DEF S
  <2> QED BY <1>1, <2>3, <2>4, FaultType
<1>4. clean' \in BOOLEAN /\ (clean' => clean /\ read /\ dropped)
  BY <1>1, <1>2 DEF TypeOK
<1>5. Moves(h)
  BY <1>1, <1>2, <1>3, <1>4 DEF Moves
<1>6. "unmount_iso" \in passed
  <2>1. Rank("unmount_iso") < Rank(h)
    BY DEF Rank
  <2> QED BY <1>1, <2>1, Order DEF Common
<1>7. /\ media' \in BOOLEAN /\ (media' => media) /\ jammed \subseteq jammed'
      /\ jammed' \subseteq Ejections /\ live' \in BOOLEAN
  BY <1>1, <1>2 DEF TypeOK, Ejections
<1>8. media' => jammed' = Ejections
  <2>1. media => "unmount_iso" \in jammed
    BY <1>1, <1>6 DEF SeqInv, At, passed
  <2>2. media' => h \in jammed'
    BY <1>2
  <2> QED BY <1>7, <2>1, <2>2 DEF Ejections
<1>9. DataTypes'
  BY <1>1, <1>2, <1>7 DEF TypeOK, DataTypes, volume
<1>10. TypeOK'
  BY <1>1, <1>5, <1>9, StepTypes
<1>11. SeqInv'
  BY <1>1, <1>5, <1>7, SeqKeeps DEF TypeOK
<1>12. StageInv'
  BY <1>1, StageKeeps DEF InstallerInv, run
<1>13. LaunchedOnce'
  BY <1>1 DEF InstallerInv, LaunchedOnce, volume
<1>14. ASSUME Sound' PROVE SuppliesInv' /\ PiecesInv' /\ TextsInv' /\ ClearedInv'
  <2>1. /\ SuppliesInv /\ PiecesInv /\ TextsInv /\ ClearedInv
        /\ passed' = passed \cup {h} /\ UNCHANGED hostside
    BY <1>5, <1>14, SoundMoves
  <2>2. ~media /\ ~media'
    BY <1>6, <1>7, <2>1 DEF ClearedInv
  <2>3. SuppliesInv'
    <3>1. media' = media
      BY <1>1, <1>7, <2>2 DEF TypeOK
    <3> QED BY <1>1, <2>1, <3>1, SuppliesKeep
  <2>4. PiecesInv'
    BY <1>1, <2>1, PiecesKeep DEF volume
  <2>5. TextsInv'
    BY <1>1, <2>1, TextsKeep DEF volume
  <2>6. read /\ dropped
    BY <1>4, <1>14 DEF Sound
  <2>7. combi' # "ours" /\ ~live'
    BY <1>2, <2>6
  <2>8. ClearedInv'
    BY <1>1, <2>1, <2>2, <2>7 DEF ClearedInv, volume
  <2> QED BY <2>3, <2>4, <2>5, <2>8
<1> QED BY <1>8, <1>10, <1>11, <1>12, <1>13, <1>14 DEF InstallerInv

LEMMA CleanupKeeps ==
    ASSUME InstallerInv, cleanup_tmp
    PROVE  InstallerInv'
<1> DEFINE h == "cleanup_tmp"
<1>1. /\ UNCHANGED <<run, volume, system, late, extracted, clean>> /\ TypeOK /\ At(h)
      /\ Ok /\ (Fault(0) \/ Fault(1))
      /\ \/ tmp' = tmp
         \/ extracted /\ tmp' = [tmp EXCEPT !["iso"] = "none"]
  BY DEF cleanup_tmp, InstallerInv
<1>2. Moves(h)
  <2>1. faults' \in 0..MaxFaults
    BY <1>1, FaultType
  <2> QED BY <1>1, <2>1 DEF Moves, TypeOK
<1>3. /\ tmp' \in [Items -> States] /\ \A x \in Items \ {"iso"} : tmp'[x] = tmp[x]
      /\ tmp'["iso"] \in {tmp["iso"], "none"}
  BY <1>1 DEF TypeOK, Items, States
<1>4. DataTypes'
  BY <1>1, <1>3 DEF TypeOK, DataTypes, system, volume
<1>5. TypeOK'
  BY <1>2, <1>4, StepTypes DEF InstallerInv
<1>6. SeqInv'
  BY <1>1, <1>2, SeqKeeps DEF InstallerInv, TypeOK, system
<1>7. StageInv'
  <2>1. extracted \/ "lha" \in late => tmp["iso_lha"] # "none"
    BY DEF InstallerInv, StageInv
  <2>2. tmp'["iso"] = tmp["iso"] \/ tmp["iso_lha"] # "none"
    BY <1>1, <2>1
  <2>3. tmp'["iso"] = "full" => "full" \in {tmp["iso"], tmp["iso_lha"]}
    BY <1>3
  <2> QED BY <1>1, <1>3, <2>1, <2>2, <2>3, IsoChanges DEF InstallerInv, run
<1>8. LaunchedOnce'
  BY <1>1 DEF InstallerInv, LaunchedOnce, volume
<1>9. ASSUME Sound' PROVE SuppliesInv' /\ PiecesInv' /\ TextsInv' /\ ClearedInv'
  <2>1. /\ SuppliesInv /\ PiecesInv /\ TextsInv /\ ClearedInv
        /\ passed' = passed \cup {h} /\ UNCHANGED hostside
    BY <1>2, <1>9, SoundMoves
  <2>2. SuppliesInv'
    <3>1. UNCHANGED <<machine, disc, staged>> /\ media' = media
          /\ RequiredFiles(machine)' = RequiredFiles(machine)
      BY <1>1 DEF run, hostside, RequiredFiles, Updates, system
    <3>2. \A x \in RequiredFiles(machine) \cup {"MCPd"} \cup Optional : tmp'[x] = tmp[x]
      BY <1>1, <1>3, SupplyItems
    <3> QED BY <1>1, <2>1, <3>1, <3>2 DEF SuppliesInv
  <2>3. PiecesInv'
    BY <1>1, <1>3, <2>1, PiecesKeep DEF volume, Optional, Items
  <2>4. TextsInv'
    BY <1>1, <1>3, <2>1, TextsKeep DEF volume, Optional, Items
  <2>5. ClearedInv'
    BY <1>1, <2>1, ClearedKeep DEF volume
  <2> QED BY <2>2, <2>3, <2>4, <2>5
<1> QED BY <1>5, <1>6, <1>7, <1>8, <1>9 DEF InstallerInv

----------------------------------------------------------------------------
(* The calls, and the target.                                              *)

\* What leaves the run, tmp/ and the target alone.
LEMMA SameRun ==
    ASSUME InstallerInv, UNCHANGED <<machine, disc, staged, tmp, volume, system, late,
                                     seq, clean, isoleft, res>>
    PROVE  /\ SeqInv' /\ LaunchedOnce'
           /\ Sound' => SuppliesInv' /\ PiecesInv' /\ TextsInv' /\ ClearedInv'
<1>1. UNCHANGED <<dest, kick, ustart, nstart, libz, legacy, combi, media, live,
                jammed>>
  BY DEF volume, system
<1>2. /\ BuildSequence(machine)' = BuildSequence(machine) /\ passed' = passed
      /\ RequiredFiles(machine)' = RequiredFiles(machine) /\ Sound' = Sound
  BY DEF BuildSequence, passed, RequiredFiles, Updates, Sound
<1>3. SeqInv' /\ LaunchedOnce'
  BY <1>1, <1>2 DEF InstallerInv, SeqInv, LaunchedOnce
<1>4. ASSUME Sound PROVE SuppliesInv' /\ PiecesInv' /\ TextsInv' /\ ClearedInv'
  <2>1. SuppliesInv /\ PiecesInv /\ TextsInv /\ ClearedInv
    BY <1>4 DEF InstallerInv
  <2>2. SuppliesInv'
    BY <1>1, <1>2, <2>1 DEF SuppliesInv
  <2>3. PiecesInv'
    BY <1>1, <1>2, <2>1 DEF PiecesInv
  <2>4. TextsInv'
    BY <1>1, <1>2, <2>1 DEF TextsInv, HasModule
  <2>5. ClearedInv'
    BY <1>1, <1>2, <2>1 DEF ClearedInv
  <2> QED BY <2>2, <2>3, <2>4, <2>5
<1> QED BY <1>2, <1>3, <1>4

LEMMA PreflightKeeps ==
    ASSUME InstallerInv, Preflight
    PROVE  InstallerInv'
<1>1. UNCHANGED <<machine, disc, src, isoarg, staged, ver, tmp, volume, system,
                   late, seq, extracted, clean, isoleft, res, runs, faults>>
  BY DEF Preflight
<1>2. /\ SeqInv' /\ LaunchedOnce'
      /\ Sound' => SuppliesInv' /\ PiecesInv' /\ TextsInv' /\ ClearedInv'
  BY <1>1, SameRun
<1>3. /\ pre' \in {"ok", "fail"}
      /\ pre' = "ok" => /\ PreflightIso
                        /\ RequiredFiles(machine) \cup MandatoryBinaries \subseteq src.has
  BY DEF Preflight
<1>4. TypeOK'
  <2>1. BuildSequence(machine)' = BuildSequence(machine)
    BY <1>1 DEF BuildSequence
  <2>2. seq' \in Seq(Range(BuildSequence(machine)'))
    BY <1>1, <2>1 DEF InstallerInv, TypeOK
  <2> QED BY <1>1, <1>3, <2>2 DEF InstallerInv, TypeOK, volume, system
<1>5. StageInv'
  <2>1. /\ StageRefuses' = StageRefuses /\ PreflightIso' = PreflightIso
        /\ RequiredFiles(machine)' = RequiredFiles(machine)
    BY <1>1 DEF StageRefuses, PreflightIso, IsoDetected, RequiredFiles, Updates
  <2> QED BY <1>1, <1>3, <2>1 DEF InstallerInv, StageInv
<1> QED BY <1>2, <1>4, <1>5 DEF InstallerInv

\* Whatever the operator has staged decides on where the verdict stands.
LEMMA NotReady ==
    ASSUME TypeOK, StageInv, staged # "ok",
           \A x \in RequiredFiles(machine) \cup {"MCPd"} : tmp[x] = "full",
           \A x \in Optional : tmp[x] # "part",
           "full" \in {tmp["iso"], tmp["iso_lha"]}
    PROVE  FALSE
<1>1. "iso" \in Items /\ "iso_lha" \in Items
  BY DEF Items
<1>2. staged = "failed"
  BY <1>1 DEF TypeOK, StageInv
<1>3. PICK x \in src.has : tmp[x] = "part"
  BY <1>2 DEF StageInv
<1>4. x \in RequiredFiles(machine) \cup {"MCPd"} \cup Optional
  BY DEF StageInv
<1> QED BY <1>3, <1>4

LEMMA StageCallKeeps ==
    ASSUME InstallerInv, Stage
    PROVE  InstallerInv'
<1> DEFINE Refused == StageRefuses /\ staged' = "refused" /\ UNCHANGED <<tmp, faults>>
           AllUp == /\ ~StageRefuses /\ staged' = "ok"
                    /\ tmp' = [x \in Items |-> IF x \in StageItems THEN "full" ELSE tmp[x]]
                    /\ UNCHANGED faults
           CutAt(n) == /\ StageOrder[n] \in StageItems
                       /\ tmp' = [x \in Items |->
                            IF x = StageOrder[n] THEN "part"
                            ELSE IF x \in StageItems /\ (\E i \in 1..n - 1 : StageOrder[i] = x)
                                   THEN "full"
                            ELSE tmp[x]]
           Cut == /\ ~StageRefuses /\ staged' = "failed"
                  /\ faults < MaxFaults /\ faults' = faults + 1
                  /\ \E n \in DOMAIN StageOrder : CutAt(n)
<1>1. /\ UNCHANGED <<machine, disc, src, isoarg, pre, ver, volume, system, late, seq,
                   extracted, clean, isoleft, res, runs>>
      /\ staged \in {"none", "failed"} /\ TypeOK
      /\ Refused \/ AllUp \/ Cut
  BY DEF Stage, InstallerInv
<1>2. tmp' \in [Items -> States] /\ staged' \in {"refused", "failed", "ok"}
      /\ faults' \in 0..MaxFaults
  <2>1. CASE Refused
    BY <1>1, <2>1 DEF TypeOK
  <2>2. CASE AllUp
    BY <1>1, <2>2 DEF TypeOK, States
  <2>3. CASE Cut
    BY <1>1, <2>3, InstallerAssumption DEF TypeOK, States
  <2> QED BY <1>1, <2>1, <2>2, <2>3
<1>3. BuildSequence(machine)' = BuildSequence(machine)
  BY <1>1 DEF BuildSequence
<1>4. TypeOK'
  <2>1. seq' \in Seq(Range(BuildSequence(machine)'))
    BY <1>1, <1>3 DEF TypeOK
  <2> QED BY <1>1, <1>2, <2>1 DEF TypeOK, volume, system
<1>5. SeqInv' /\ LaunchedOnce'
  BY <1>1, <1>3 DEF InstallerInv, SeqInv, LaunchedOnce, volume, system
<1>6. ~Sound'
  BY <1>1 DEF InstallerInv, Sound, SuppliesInv
<1>7. StageInv'
  <2>1. /\ StageRefuses' = StageRefuses /\ PreflightIso' = PreflightIso
        /\ RequiredFiles(machine)' = RequiredFiles(machine)
    BY <1>1 DEF StageRefuses, PreflightIso, IsoDetected, RequiredFiles, Updates
  <2>2. src.has \subseteq Items \ {"iso", "iso_lha"} /\ "iso" \in Items /\ "iso_lha" \in Items
    BY <1>1, SupplyItems DEF InstallerInv, StageInv, Items
  <2>3. src.has \subseteq StageItems
    BY <2>2 DEF StageItems
  <2>4. IF src.lha = 0 THEN "iso" \in StageItems /\ "iso_lha" \notin StageItems
        ELSE "iso_lha" \in StageItems /\ "iso" \notin StageItems
    <3>1. src.lha \in 0..2
      BY <1>1 DEF TypeOK
    <3> QED BY <2>2, <3>1 DEF StageItems
  <2>5. CASE Refused
    <3>1. staged = "none"
      BY <1>1, <2>5 DEF InstallerInv, StageInv
    <3> QED BY <1>1, <2>1, <2>5, <3>1 DEF InstallerInv, StageInv
  <2>6. CASE AllUp
    <3>1. \A x \in src.has : tmp'[x] = "full"
      BY <2>2, <2>3, <2>6
    <3>2. tmp'["iso"] = "full" \/ tmp'["iso_lha"] = "full"
      BY <2>2, <2>4, <2>6
    <3>3. tmp["iso_lha"] # "none" => tmp'["iso_lha"] # "none"
      BY <2>2, <2>6
    <3> QED BY <1>1, <2>1, <2>6, <3>1, <3>2, <3>3 DEF InstallerInv, StageInv
  <2>7. CASE Cut
    <3>1. PICK n \in DOMAIN StageOrder : CutAt(n)
      BY <2>7
    <3>2. tmp["iso_lha"] # "none" => tmp'["iso_lha"] # "none"
      BY <2>2, <3>1
    <3>3. \/ \E x \in src.has : tmp'[x] = "part"
          \/ "full" \notin {tmp'["iso"], tmp'["iso_lha"]}
      <4>1. CASE StageOrder[n] \in src.has
        BY <2>2, <3>1, <4>1
      <4>2. CASE StageOrder[n] \notin src.has
        <5>1. StageOrder[n] \in {"iso", "iso_lha"}
          BY <3>1, <4>2 DEF StageItems
        <5>2. n \in 1..2
          BY <5>1 DEF StageOrder
        <5>3. \A x \in Items : tmp'[x] = IF x = StageOrder[n] THEN "part" ELSE tmp[x]
          <6>1. \A i \in 1..n - 1 : StageOrder[i] = "iso" /\ n = 2
            BY <5>2 DEF StageOrder
          <6>2. n = 2 => StageOrder[n] = "iso_lha"
            BY DEF StageOrder
          <6>3. ASSUME NEW x \in StageItems, NEW i \in 1..n - 1, StageOrder[i] = x PROVE FALSE
            BY <2>4, <3>1, <6>1, <6>2, <6>3
          <6> QED BY <3>1, <6>3
        <5>4. \A x \in src.has : tmp'[x] = tmp[x]
          BY <2>2, <5>1, <5>3
        <5>5. CASE staged = "failed" /\ \E x \in src.has : tmp[x] = "part"
          BY <5>4, <5>5
        <5>6. CASE "full" \notin {tmp["iso"], tmp["iso_lha"]}
          BY <2>2, <5>3, <5>6
        <5> QED BY <1>1, <2>2, <5>5, <5>6 DEF InstallerInv, StageInv
      <4> QED BY <4>1, <4>2
    <3> QED BY <1>1, <2>1, <2>7, <3>2, <3>3 DEF InstallerInv, StageInv
  <2> QED BY <1>1, <2>5, <2>6, <2>7
<1> QED BY <1>4, <1>5, <1>6, <1>7 DEF InstallerInv
LEMMA VerifyKeeps ==
    ASSUME InstallerInv, Verify
    PROVE  InstallerInv'
<1>1. UNCHANGED <<machine, disc, src, isoarg, pre, staged, tmp, volume, system,
                   late, seq, extracted, clean, isoleft, res, runs, faults>>
  BY DEF Verify
<1>2. /\ SeqInv' /\ LaunchedOnce'
      /\ Sound' => SuppliesInv' /\ PiecesInv' /\ TextsInv' /\ ClearedInv'
  BY <1>1, SameRun
<1>3. ver' \in {"ok", "fail"}
  BY DEF Verify, VerifyOverall
<1>4. TypeOK'
  <2>1. BuildSequence(machine)' = BuildSequence(machine)
    BY <1>1 DEF BuildSequence
  <2>2. seq' \in Seq(Range(BuildSequence(machine)'))
    BY <1>1, <2>1 DEF InstallerInv, TypeOK
  <2> QED BY <1>1, <1>3, <2>2 DEF InstallerInv, TypeOK, volume, system
<1>5. StageInv'
  <2>1. /\ StageRefuses' = StageRefuses /\ PreflightIso' = PreflightIso
        /\ RequiredFiles(machine)' = RequiredFiles(machine)
    BY <1>1 DEF StageRefuses, PreflightIso, IsoDetected, RequiredFiles, Updates
  <2> QED BY <1>1, <2>1 DEF InstallerInv, StageInv
<1> QED BY <1>2, <1>4, <1>5 DEF InstallerInv

LEMMA NoRunKeeps ==
    ASSUME InstallerInv, RunRefused \/ RunPlanned
    PROVE  InstallerInv'
<1>1. /\ UNCHANGED <<hostside, tmp, volume, system, late, seq, extracted, isoleft,
                     runs, faults>>
      /\ res # "running" /\ res' \in {"refused", "planned"} /\ clean' = FALSE
  BY DEF RunRefused, RunPlanned
<1>2. UNCHANGED <<machine, disc, src, isoarg, pre, staged, ver>>
  BY <1>1 DEF hostside
<1>3. BuildSequence(machine)' = BuildSequence(machine)
  BY <1>2 DEF BuildSequence
<1>4. TypeOK'
  <2>1. seq' \in Seq(Range(BuildSequence(machine)')) /\ seq' = <<>>
    BY <1>1, <1>3 DEF InstallerInv, TypeOK
  <2>2. (seq' # <<>>) = (res' = "running")
    BY <1>1, <2>1
  <2>3. DataTypes'
    BY <1>1 DEF InstallerInv, TypeOK, DataTypes, volume, system
  <2> QED BY <1>1, <1>2, <2>1, <2>2, <2>3 DEF InstallerInv, TypeOK, DataTypes
<1>5. SeqInv' /\ LaunchedOnce'
  BY <1>1, <1>3 DEF InstallerInv, SeqInv, LaunchedOnce, volume, system
<1>6. StageInv'
  BY <1>1, StageKeeps DEF InstallerInv
<1>7. ~Sound'
  BY <1>1 DEF Sound
<1> QED BY <1>4, <1>5, <1>6, <1>7 DEF InstallerInv

LEMMA RunStartKeeps ==
    ASSUME InstallerInv, RunStart
    PROVE  InstallerInv'
<1> DEFINE b == BuildSequence(machine)
<1>1. /\ UNCHANGED <<machine, disc, src, isoarg, staged, tmp, volume, combi, media,
                     live, late, faults>>
      /\ jammed' = {} /\ runs < MaxRuns /\ runs' = runs + 1 /\ res' = "running"
      /\ seq' = b /\ extracted' = FALSE /\ clean' = Ready /\ isoleft' = tmp["iso"]
      /\ pre' = "none" /\ ver' = "none" /\ TypeOK
  BY DEF RunStart, InstallerInv
<1>2. b' = b
  BY <1>1 DEF BuildSequence
<1>3. b \in Seq(StepNames) /\ "unmount_iso" \in Range(b)
  BY <1>1, BuildFacts, BuildRange DEF Sorted, Common
<1> HIDE DEF b
<1>4. b # <<>> /\ b \in Seq(Range(b)) /\ Suffix(b, b)
  <2>1. b \in Seq(Range(b))
    BY <1>3 DEF Range
  <2>2. b # <<>>
    BY <1>3 DEF Range
  <2>3. Suffix(b, b)
    BY <1>3 DEF Suffix
  <2> QED BY <2>1, <2>2, <2>3
<1>5. TypeOK'
  <2>1. seq' \in Seq(Range(BuildSequence(machine)')) /\ seq' # <<>>
    BY <1>1, <1>2, <1>4 DEF b
  <2>2. isoleft' \in States /\ clean' \in BOOLEAN /\ runs' \in 0..MaxRuns
    BY <1>1, InstallerAssumption DEF TypeOK, Items, Ready
  <2> QED BY <1>1, <2>1, <2>2 DEF TypeOK, volume
<1>6. SeqInv'
  BY <1>1, <1>2, <1>3, <1>4 DEF SeqInv, b
<1>7. LaunchedOnce'
  BY <1>1 DEF InstallerInv, LaunchedOnce, volume
<1>8. StageInv'
  <2>1. /\ StageRefuses' = StageRefuses
        /\ RequiredFiles(machine)' = RequiredFiles(machine)
    BY <1>1 DEF StageRefuses, IsoDetected, RequiredFiles, Updates
  <2> QED BY <1>1, <2>1 DEF InstallerInv, StageInv
<1>9. ASSUME Sound' PROVE SuppliesInv' /\ PiecesInv' /\ TextsInv' /\ ClearedInv'
  <2>1. passed' = {}
    BY <1>1, <1>2 DEF passed, b
  <2>2. Ready /\ tmp["iso"] # "part"
    BY <1>1, <1>9 DEF Sound
  <2>3. SuppliesInv'
    <3>1. staged = "ok"
      BY <1>1, <2>2, NotReady DEF InstallerInv, Ready
    <3>2. tmp["iso"] \in States
      BY <1>1 DEF TypeOK, Items
    <3>3. RequiredFiles(machine)' = RequiredFiles(machine)
      BY <1>1 DEF RequiredFiles, Updates
    <3> QED BY <1>1, <2>1, <2>2, <3>1, <3>2, <3>3 DEF SuppliesInv, Ready, States
  <2> QED BY <2>1, <2>3 DEF PiecesInv, TextsInv, ClearedInv
<1> QED BY <1>5, <1>6, <1>7, <1>8, <1>9 DEF InstallerInv

LEMMA LateLhaKeeps ==
    ASSUME InstallerInv, LateLhaEnds
    PROVE  InstallerInv'
<1>1. /\ UNCHANGED <<hostside, volume, system, seq, extracted, clean, isoleft, res,
                     runs, faults>>
      /\ "lha" \in late /\ late' = late \ {"lha"}
      /\ tmp' = [tmp EXCEPT !["iso"] = tmp["iso_lha"]] /\ TypeOK
  BY DEF LateLhaEnds, InstallerInv
<1>2. UNCHANGED <<machine, disc, src, isoarg, pre, staged, ver>>
  BY <1>1 DEF hostside
<1>3. BuildSequence(machine)' = BuildSequence(machine)
  BY <1>2 DEF BuildSequence
<1>4. /\ tmp' \in [Items -> States] /\ \A x \in Items \ {"iso"} : tmp'[x] = tmp[x]
      /\ tmp'["iso"] = tmp["iso_lha"]
  BY <1>1 DEF TypeOK, Items, States
<1>5. TypeOK'
  <2>1. seq' \in Seq(Range(BuildSequence(machine)'))
    BY <1>1, <1>3 DEF TypeOK
  <2> QED BY <1>1, <1>2, <1>4, <2>1 DEF TypeOK, volume, system
<1>6. SeqInv' /\ LaunchedOnce'
  BY <1>1, <1>3 DEF InstallerInv, SeqInv, LaunchedOnce, volume, system
<1>7. StageInv'
  <2>1. extracted \/ "lha" \in late => tmp["iso_lha"] # "none"
    BY DEF InstallerInv, StageInv
  <2> QED BY <1>1, <1>4, <2>1, IsoChanges DEF InstallerInv
<1>8. ~Sound'
  <2>1. ~Sound
    BY <1>1 DEF InstallerInv, SuppliesInv
  <2> QED BY <1>1, <2>1 DEF Sound
<1> QED BY <1>5, <1>6, <1>7, <1>8 DEF InstallerInv

LEMMA LateCopyKeeps ==
    ASSUME InstallerInv, LateCopyEnds
    PROVE  InstallerInv'
<1>1. /\ UNCHANGED <<hostside, tmp, ustart, nstart, system, seq, extracted, clean,
                     isoleft, res, runs, faults>>
      /\ "copy" \in late /\ late' = late \ {"copy"} /\ TypeOK
      /\ \/ BaseCopied /\ dest' = [dest EXCEPT !["base"] = Iso]
         \/ UNCHANGED <<dest, kick, libz, legacy>>
  BY DEF LateCopyEnds, InstallerInv
<1>2. UNCHANGED <<machine, disc, src, isoarg, pre, staged, ver>>
  BY <1>1 DEF hostside
<1>3. BuildSequence(machine)' = BuildSequence(machine)
  BY <1>2 DEF BuildSequence
<1>4. /\ kick' \in Seq(Block) /\ legacy' \subseteq Legacy
      /\ libz' \in {"none", "iso", "1.2.3", "1.2.13"}
  BY <1>1, KickTypes DEF TypeOK, BaseCopied
<1>5. dest' \in [Pieces -> States]
  <2>1. Iso \in States
    BY <1>1 DEF Iso, TypeOK, States, Items
  <2> QED BY <1>1, <2>1 DEF TypeOK
<1>6. TypeOK'
  <2>1. seq' \in Seq(Range(BuildSequence(machine)'))
    BY <1>1, <1>3 DEF TypeOK
  <2> QED BY <1>1, <1>2, <1>4, <1>5, <2>1 DEF TypeOK, system
<1>7. SeqInv' /\ LaunchedOnce'
  BY <1>1, <1>3 DEF InstallerInv, SeqInv, LaunchedOnce, system
<1>8. StageInv'
  BY <1>1, StageKeeps DEF InstallerInv
<1>9. ~Sound'
  <2>1. ~Sound
    BY <1>1 DEF InstallerInv, SuppliesInv
  <2> QED BY <1>1, <2>1 DEF Sound
<1> QED BY <1>6, <1>7, <1>8, <1>9 DEF InstallerInv

LEMMA RebootKeeps ==
    ASSUME InstallerInv, Reboot
    PROVE  InstallerInv' /\ ~media'
<1>1. /\ UNCHANGED <<run, tmp, volume, combi, jammed, extracted, clean>>
      /\ late' = {} /\ media' = FALSE /\ live' = (combi # "none")
      /\ IF seq = <<>> THEN UNCHANGED <<seq, res>> ELSE Fail
      /\ TypeOK /\ Fault(1)
  BY DEF Reboot, InstallerInv
<1>2. UNCHANGED <<machine, disc, src, isoarg, pre, staged, ver, isoleft, runs>>
  BY <1>1 DEF hostside, run
<1>3. BuildSequence(machine)' = BuildSequence(machine)
  BY <1>2 DEF BuildSequence
<1>4. seq' = <<>> /\ res' \in {res, "fail"} /\ res' # "running" /\ (res' = res => seq = <<>>)
  BY <1>1 DEF TypeOK, Fail
<1>5. TypeOK'
  <2>1. seq' \in Seq(Range(BuildSequence(machine)'))
    BY <1>4
  <2>2. faults' \in 0..MaxFaults
    BY <1>1, FaultType
  <2>3. live' \in BOOLEAN
    BY <1>1
  <2>4. (seq' # <<>>) = (res' = "running")
    BY <1>4
  <2>5. DataTypes'
    BY <1>1, <2>3 DEF TypeOK, DataTypes, volume
  <2> QED BY <1>1, <1>2, <1>4, <2>1, <2>2, <2>4, <2>5 DEF TypeOK, DataTypes
<1>6. SeqInv'
  <2>1. Len(BuildSequence(machine)) \in Nat
    BY <1>1, BuildFacts DEF Sorted
  <2> QED BY <1>3, <1>4, <2>1 DEF SeqInv, Suffix
<1>7. LaunchedOnce'
  BY <1>1 DEF InstallerInv, LaunchedOnce, volume
<1>8. StageInv'
  BY <1>1, StageKeeps DEF InstallerInv, run
<1>9. ASSUME Sound' PROVE SuppliesInv' /\ PiecesInv' /\ TextsInv' /\ ClearedInv'
  <2>1. Sound /\ seq = <<>>
    BY <1>1, <1>2, <1>4, <1>9 DEF Sound
  <2>2. SuppliesInv /\ PiecesInv /\ TextsInv /\ ClearedInv
    BY <2>1 DEF InstallerInv
  <2>3. /\ passed' = passed
        /\ "unmount_iso" \in passed /\ "dismount_combi_device" \in passed
    <3>1. Range(seq) = {}
      BY <2>1 DEF Range
    <3> QED BY <1>1, <1>3, <1>4, <2>1, <3>1, BuildFacts, BuildRange DEF passed, Common
  <2>4. SuppliesInv'
    <3>1. RequiredFiles(machine)' = RequiredFiles(machine)
      BY <1>2 DEF RequiredFiles, Updates
    <3> QED BY <1>1, <1>2, <2>2, <2>3, <3>1 DEF SuppliesInv
  <2>5. PiecesInv'
    BY <1>1, <1>2, <2>2, <2>3 DEF PiecesInv, volume
  <2>6. TextsInv'
    BY <1>1, <1>2, <2>2, <2>3 DEF TextsInv, volume, HasModule
  <2>7. ClearedInv'
    BY <1>1, <1>2, <2>2, <2>3 DEF ClearedInv, volume, TypeOK
  <2> QED BY <2>4, <2>5, <2>6, <2>7
<1> QED BY <1>1, <1>5, <1>6, <1>7, <1>8, <1>9 DEF InstallerInv

LEMMA InitHolds ==
    ASSUME Init
    PROVE  InstallerInv
<1>1. /\ machine \in DOMAIN CONFIGS /\ seq = <<>> /\ res = "none"
      /\ \A x \in Items : tmp[x] = "none"
  BY InstallerAssumption DEF Init
<1>2. PICK s \in Sources :
         src = [bare |-> s.bare, lha |-> s.lha,
                has |-> (RequiredFiles(machine) \cup Optional \cup {"MCPd"}) \ s.lacks]
  BY DEF Init
<1>3. s.bare \in 0..2 /\ s.lha \in 0..2
  BY InstallerAssumption
<1>4. src.has \subseteq RequiredFiles(machine) \cup Optional \cup {"MCPd"}
  BY <1>2
<1>5. RequiredFiles(machine) \subseteq Items
  <2>1. Updates(machine) \subseteq {"upd1", "upd2", "upd3"}
    BY <1>1 DEF Updates, Update, CONFIGS, Config
  <2> QED BY <2>1 DEF RequiredFiles, Items
<1>6. src \in [bare: 0..2, lha: 0..2, has: SUBSET Items]
  BY <1>2, <1>3, <1>4, <1>5 DEF Optional, Items
<1>7. TypeOK
  <2>1. seq \in Seq(Range(BuildSequence(machine)))
    BY <1>1
  <2>2. (seq # <<>>) = (res = "running")
    BY <1>1
  <2>3. NoFile \in Startup
    BY DEF NoFile, Startup
  <2>4. DataTypes
    <3>1. tmp \in [Items -> States] /\ dest \in [Pieces -> States]
      BY DEF Init, States
    <3>2. kick \in Seq(Block)
      BY DEF Init, NoText
    <3>3. ustart \in Startup /\ nstart \in Startup
      BY <2>3 DEF Init
    <3>4. media \in BOOLEAN /\ live \in BOOLEAN /\ extracted \in BOOLEAN
          /\ jammed \subseteq Ejections
      BY DEF Init
    <3> QED BY <3>1, <3>2, <3>3, <3>4 DEF Init, DataTypes
  <2>5. 0 \in 0..MaxRuns /\ 0 \in 0..MaxFaults
    BY InstallerAssumption
  <2> QED BY <1>6, <2>1, <2>2, <2>4, <2>5 DEF Init, TypeOK, DataTypes, States
<1>8. SeqInv
  <2>1. Len(BuildSequence(machine)) \in Nat
    BY <1>7, BuildFacts DEF Sorted
  <2> QED BY <1>1, <2>1 DEF SeqInv, Suffix
<1>9. StageInv
  BY <1>1, <1>4 DEF Init, StageInv
<1>10. LaunchedOnce /\ ~Sound
  BY DEF Init, LaunchedOnce, NoFile, Sound
<1> QED BY <1>7, <1>8, <1>9, <1>10 DEF InstallerInv

LEMMA StutterKeeps ==
    ASSUME InstallerInv, UNCHANGED vars
    PROVE  InstallerInv'
<1>1. UNCHANGED <<machine, disc, src, isoarg, pre, staged, ver, tmp, volume, system,
                  late, seq, extracted, clean, isoleft, res, runs, faults, hostside>>
  BY DEF vars, hostside
<1>2. /\ SeqInv' /\ LaunchedOnce'
      /\ Sound' => SuppliesInv' /\ PiecesInv' /\ TextsInv' /\ ClearedInv'
  BY <1>1, SameRun
<1>3. TypeOK'
  <2>1. BuildSequence(machine)' = BuildSequence(machine)
    BY <1>1 DEF BuildSequence
  <2>2. seq' \in Seq(Range(BuildSequence(machine)'))
    BY <1>1, <2>1 DEF InstallerInv, TypeOK
  <2> QED BY <1>1, <2>2 DEF InstallerInv, TypeOK, volume, system
<1>4. StageInv'
  BY <1>1, StageKeeps DEF InstallerInv
<1> QED BY <1>2, <1>3, <1>4 DEF InstallerInv

\* Any step keeps the invariant, and none takes the device from the medium,
\* unless both ejections have failed.
LEMMA NextKeeps ==
    ASSUME InstallerInv, [Next]_vars
    PROVE  InstallerInv' /\ (live /\ ~live' /\ media' => jammed' = Ejections)
<1> DEFINE Goal == InstallerInv' /\ (live /\ ~live' /\ media' => jammed' = Ejections)
<1>2. CASE UNCHANGED vars
  <2>1. live' = live
    BY <1>2 DEF vars, system
  <2> QED BY <1>2, <2>1, StutterKeeps
<1>3. CASE Called
  <2>1. live' = live
    BY <1>3 DEF Called, Preflight, Stage, Verify, installer_run, RunRefused, RunPlanned,
                RunStart, system
  <2>2. InstallerInv'
    BY <1>3, PreflightKeeps, StageCallKeeps, VerifyKeeps, NoRunKeeps, RunStartKeeps
       DEF Called, installer_run
  <2> QED BY <2>1, <2>2
<1>4. CASE LateLhaEnds
  <2>1. live' = live
    BY <1>4 DEF LateLhaEnds, system
  <2> QED BY <1>4, <2>1, LateLhaKeeps
<1>5. CASE LateCopyEnds
  <2>1. live' = live
    BY <1>5 DEF LateCopyEnds, system
  <2> QED BY <1>5, <2>1, LateCopyKeeps
<1>6. CASE Reboot
  BY <1>6, RebootKeeps
<1>7. CASE Steps
  <2>1. CASE stage_diskimage_tools
    BY <2>1, StageToolsKeeps DEF stage_diskimage_tools
  <2>2. CASE extract_iso_lha
    BY <2>2, ExtractKeeps DEF extract_iso_lha, system
  <2>3. CASE mount_iso
    <3>1. live => live'
      BY <2>3 DEF mount_iso
    <3> QED BY <2>3, <3>1, MountKeeps
  <2>4. CASE verify_cd_signature
    BY <2>4, VerifySignatureKeeps DEF verify_cd_signature, system
  <2>5. CASE copy_base_os
    BY <2>5, CopyBaseKeeps DEF copy_base_os, system
  <2>6. CASE copy_installation_extras
    BY <2>6, CopyExtrasKeeps DEF copy_installation_extras, system
  <2>7. CASE install_bootloader
    BY <2>7, BootloaderKeeps DEF install_bootloader, system
  <2>8. CASE \E n \in 1..3 : apply_one_update(n)
    BY <2>8, UpdateKeeps DEF apply_one_update, system
  <2>9. CASE \E step \in {"upd1", "upd2", "install_enhancer"} : NothingToPatch(step)
    BY <2>9, NothingToPatchKeeps DEF NothingToPatch, system
  <2>10. CASE install_enhancer
    BY <2>10, EnhancerKeeps DEF install_enhancer, system
  <2>11. CASE install_ngf
    BY <2>11, NgfKeeps DEF install_ngf, system
  <2>12. CASE install_extras
    BY <2>12, ExtrasKeeps DEF install_extras, system
  <2>13. CASE patch_amidock_prefs
    BY <2>13, AmiDockKeeps DEF patch_amidock_prefs, system
  <2>14. CASE install_network_config
    BY <2>14, NetworkKeeps DEF install_network_config, system
  <2>15. CASE install_serialshell
    BY <2>15, SerialShellKeeps DEF install_serialshell, system
  <2>16. CASE quarantine_emu10kx
    BY <2>16, QuarantineKeeps DEF quarantine_emu10kx, Quarantine, system
  <2>17. CASE quarantine_devs_monitors
    BY <2>17, QuarantineKeeps DEF quarantine_devs_monitors, Quarantine, system
  <2>18. CASE install_mcpd
    BY <2>18, McpdKeeps DEF install_mcpd, system
  <2>19. CASE unmount_iso
    BY <2>19, UnmountKeeps DEF unmount_iso
  <2>20. CASE dismount_combi_device
    BY <2>20, DismountKeeps
  <2>21. CASE cleanup_tmp
    BY <2>21, CleanupKeeps DEF cleanup_tmp, system
  <2>22. CASE StepRaises
    BY <2>22, StepRaisesKeeps DEF StepRaises, system
  <2> HIDE DEF Goal
  <2> QED BY <1>7, <2>1, <2>2, <2>3, <2>4, <2>5, <2>6, <2>7, <2>8, <2>9, <2>10, <2>11,
             <2>12, <2>13, <2>14, <2>15, <2>16, <2>17, <2>18, <2>19, <2>20, <2>21, <2>22
          DEF Steps
<1> QED BY <1>2, <1>3, <1>4, <1>5, <1>6, <1>7 DEF Next

----------------------------------------------------------------------------
(* The results.                                                            *)

(* Whatever is called in whatever order, wherever requests fail, commands  *)
(* are overlong and the target reboots, the invariant of the installer     *)
(* holds: the runner goes through build_sequence in order, tmp/ holds what *)
(* installer_stage reported, and the steps a sound run has passed have     *)
(* done their work for good.                                               *)
THEOREM InstallerInvariant == Spec => []InstallerInv
<1>1. Init => InstallerInv
  BY InitHolds
<1>2. InstallerInv /\ [Next]_vars => InstallerInv'
  BY NextKeeps
<1> QED BY <1>1, <1>2, PTL DEF Spec

LEMMA OkComplete ==
    ASSUME InstallerInv, res = "ok", clean, isoleft # "part"
    PROVE  Complete /\ VerifyOverall = "ok"
<1>1. SuppliesInv /\ PiecesInv /\ TextsInv /\ ClearedInv /\ TypeOK
  BY DEF InstallerInv, Sound
<1>2. machine \in DOMAIN CONFIGS
  BY <1>1, BuildFacts
<1>3. /\ Common \subseteq passed /\ Updates(machine) \subseteq passed
      /\ CONFIGS[machine].ngf => "install_ngf" \in passed
      /\ CONFIGS[machine].quarantine =>
           "quarantine_emu10kx" \in passed /\ "quarantine_devs_monitors" \in passed
  <2>1. seq = <<>>
    BY <1>1 DEF TypeOK
  <2>2. passed = Range(BuildSequence(machine))
    BY <2>1 DEF passed, Range
  <2> QED BY <1>2, <2>2, BuildRange
<1>4. /\ Updates(machine) \subseteq {"upd1", "upd2", "upd3"} /\ "upd3" \in Updates(machine)
      /\ 1 \in Range(CONFIGS[machine].updates) => "upd1" \in Updates(machine)
      /\ CONFIGS[machine].sata => "upd2" \in Updates(machine)
      /\ CONFIGS[machine].boot \/ CONFIGS[machine].eth
      /\ machine = "X5000" => CONFIGS[machine].ngf
  BY <1>2 DEF Updates, Update, CONFIGS, Config, Range
<1>5. \A p \in Needed(machine) : dest[p] = "full"
  BY <1>1, <1>3, <1>4 DEF Needed, PiecesInv, Common
<1>6. /\ \A p \in Optional : tmp[p] = "full" => dest[p] = "full"
      /\ CONFIGS[machine].eth => dest["eth"] = "full"
  BY <1>1, <1>3 DEF Optional, PiecesInv, Common
<1>7. kick # NoText /\ Patched(machine, kick)
  BY <1>1, <1>3, <1>4 DEF TextsInv, Patched, Common
<1>8. /\ nstart = [text |-> TRUE, lines |-> 1]
      /\ ustart = [text |-> TRUE, lines |-> IF tmp["SerialShell"] = "full" THEN 1 ELSE 0]
      /\ libz = "1.2.13"
  BY <1>1, <1>3, <1>4 DEF TextsInv, Common
<1>9. CONFIGS[machine].quarantine => legacy = {}
  BY <1>1, <1>3 DEF TypeOK, ClearedInv, Legacy
<1>10. ~media /\ combi # "ours" /\ (live => combi = "user")
  BY <1>1, <1>3 DEF ClearedInv, Common
<1>11. Complete
  BY <1>5, <1>6, <1>7, <1>8, <1>9, <1>10 DEF Complete
<1>12. VERIFY_MANIFEST(machine) \subseteq Needed(machine)
  BY <1>4 DEF VERIFY_MANIFEST, Needed
<1>13. ustart # NoFile
  BY <1>8 DEF NoFile
<1>14. VerifyOverall = "ok"
  <2>1. \A p \in VERIFY_MANIFEST(machine) : dest[p] # "none"
    BY <1>5, <1>12
  <2> QED BY <1>7, <1>13, <2>1 DEF VerifyOverall
<1> QED BY <1>11, <1>14

(* installer_run: an attempt that began with everything staged, had        *)
(* nothing fail unnoticed and ended "ok" leaves a complete installation,   *)
(* which installer_verify accepts, whatever earlier attempts left behind   *)
(* and on every machine of the tables.                                     *)
THEOREM OkRunsComplete == Spec => []OkRunCompletes
<1>1. InstallerInv => OkRunCompletes
  BY OkComplete DEF InstallerInv, OkRunCompletes
<1> QED BY <1>1, InstallerInvariant, PTL

(* What installer_preflight accepts installer_stage does not refuse, and   *)
(* once it has staged it every file the sequence of steps needs is in      *)
(* tmp/, through runs that unpack the ISO there and delete it again.       *)
THEOREM PreflightPromises == Spec => []PreflightPromisesStage
<1>1. ASSUME InstallerInv, pre = "ok"
      PROVE  /\ staged # "refused"
             /\ staged = "ok" =>
                  /\ "none" \notin {tmp[x] : x \in RequiredFiles(machine) \cup {"MCPd"}}
                  /\ tmp["iso"] # "none" \/ tmp["iso_lha"] # "none"
  <2>1. /\ StageInv /\ PreflightIso /\ src.bare \in 0..2 /\ src.lha \in 0..2
        /\ RequiredFiles(machine) \cup MandatoryBinaries \subseteq src.has
    BY <1>1 DEF InstallerInv, StageInv, TypeOK
  <2>2. ~StageRefuses
    BY <2>1 DEF PreflightIso, StageRefuses, IsoDetected
  <2>3. RequiredFiles(machine) \cup {"MCPd"} \subseteq src.has
    BY <2>1 DEF MandatoryBinaries
  <2> QED BY <2>1, <2>2, <2>3 DEF StageInv
<1>2. InstallerInv => PreflightPromisesStage
  BY <1>1 DEF PreflightPromisesStage
<1> QED BY <1>2, InstallerInvariant, PTL

(* install_mcpd and install_serialshell put their launch line into a       *)
(* start-up file at most once, over any number of attempts that fail       *)
(* anywhere.                                                               *)
THEOREM LaunchesOnce == Spec => []LaunchedOnce
<1>1. InstallerInv => LaunchedOnce
  BY DEF InstallerInv
<1> QED BY <1>1, InstallerInvariant, PTL

(* When dismount_combi_device drops COMBI: with the ISO still in the unit, *)
(* its own EJECT and that of unmount_iso have both failed unnoticed in     *)
(* this run: neither alone, nor anything an earlier attempt left behind,   *)
(* is enough.                                                              *)
THEOREM EjectsFirst == Spec => EjectedBeforeDismount
<1>1. InstallerInv /\ [Next]_vars => [live /\ ~live' /\ media' => jammed' = Ejections]_vars
  BY NextKeeps
<1>2. Spec => [][live /\ ~live' /\ media' => jammed' = Ejections]_vars
  BY <1>1, InstallerInvariant, PTL DEF Spec
<1> QED BY <1>2 DEF EjectedBeforeDismount

=============================================================================
