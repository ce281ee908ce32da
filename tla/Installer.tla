------------------------------ MODULE Installer ------------------------------
(***************************************************************************)
(* installer.* of the host: preflight, stage, run and verify              *)
(* (tools/installer.py), the step sequences (installer/sequences/), the    *)
(* machine tables and the Kicklayout text engine.  One target, one         *)
(* destination volume, any number of attempts.                             *)
(*                                                                         *)
(* The volume is a set of pieces, each what one step installs: absent,     *)
(* part of it there, or complete.  A step is one action.  Every request it *)
(* makes may fail; where the code says `except Exception: pass` the piece  *)
(* is silently left as it was, elsewhere the step raises and the run ends  *)
(* there, with or without the request's effect.  A Copy or LhA that is     *)
(* over its time limit is reported like one that ended, and works on:      *)
(* `late` (for the ISO and the base system; one of an update only makes    *)
(* the run unclean).  The exit code of a command is not looked at.         *)
(***************************************************************************)
EXTENDS Naturals, Sequences, SequencesExt, FiniteSets

CONSTANTS
    Machines,   \* SUPPORTED_MACHINES that are considered
    Sources,    \* what sources_dir may hold: ISOs, and what it lacks
    MaxRuns,    \* bound on attempts of installer.run
    MaxFaults   \* bound on failed requests, overlong commands and reboots

----------------------------------------------------------------------------
(* The machine tables.                                                     *)

Config(updates, sig, eth, boot, x5000) ==
    [updates |-> updates, sig |-> sig, eth |-> eth, boot |-> boot,
     ngf |-> x5000, sata |-> x5000, quarantine |-> x5000]

CONFIGS == [X5000     |-> Config(<<2, 3>>,    TRUE,  TRUE,  FALSE, TRUE),
            A1222     |-> Config(<<3>>,       TRUE,  TRUE,  FALSE, FALSE),
            AmigaOne  |-> Config(<<1, 2, 3>>, TRUE,  FALSE, TRUE,  FALSE),
            PegasosII |-> Config(<<1, 2, 3>>, TRUE,  FALSE, TRUE,  FALSE),
            Sam460    |-> Config(<<1, 2, 3>>, FALSE, FALSE, TRUE,  FALSE)]

ASSUME InstallerAssumption ==
    /\ Machines \subseteq DOMAIN CONFIGS
    /\ Sources \subseteq [bare: 0..2, lha: 0..2,
                          lacks: {{}, {"upd3"}, {"MCPd"}, {"SerialShell", "AmiDock", "helpers"}}]
    /\ MaxRuns \in Nat /\ MaxFaults \in Nat

Update(n) == <<"upd1", "upd2", "upd3">>[n]
Updates(m) == {Update(CONFIGS[m].updates[i]) : i \in DOMAIN CONFIGS[m].updates}

\* required_files, without the ISO.
RequiredFiles(m) ==
    Updates(m) \cup {"enhancer"} \cup (IF CONFIGS[m].ngf THEN {"ngf"} ELSE {})

Optional == {"SerialShell", "AmiDock", "helpers"}
Items == {"iso", "iso_lha", "upd1", "upd2", "upd3", "enhancer", "ngf", "MCPd"}
         \cup Optional

Pieces == {"base", "startup", "prefs", "boot", "upd1", "upd2", "upd3",
           "enhancer", "eth", "ngf", "extras", "AmiDock", "interface",
           "SerialShell", "MCPd", "helpers"}

\* What a finished installation of m has, optional parts aside.
Needed(m) ==
    {"base", "startup", "prefs", "extras", "enhancer", "MCPd"} \cup Updates(m)
    \cup (IF CONFIGS[m].boot THEN {"boot"} ELSE {})
    \cup (IF CONFIGS[m].eth THEN {"eth", "interface"} ELSE {})
    \cup (IF CONFIGS[m].ngf THEN {"ngf"} ELSE {})

----------------------------------------------------------------------------
(* The Kicklayout: a sequence of blocks, each with its MODULE lines.       *)

Modules == {"mounter", "SmartFilesystem", "RadeonRX", "RadeonHD", "diskcache",
            "RadeonHD.debug", "p5020sata", "p50x0sata"}
Block == [config: BOOLEAN, modules: SUBSET Modules]
NoText == <<>>

\* _block_has_module: a line that goes on after the name counts as well.
HasModule(block, mod) ==
    \/ mod \in block.modules
    \/ mod = "RadeonHD" /\ "RadeonHD.debug" \in block.modules

add_modules(text, mods) ==
    [i \in DOMAIN text |->
        IF text[i].config
          THEN [text[i] EXCEPT !.modules =
                    @ \cup {mod \in mods : ~HasModule(text[i], mod)}]
          ELSE text[i]]

replace_text(text, old, new) ==
    [i \in DOMAIN text |->
        IF old \in text[i].modules
          THEN [text[i] EXCEPT !.modules = (@ \ {old}) \cup {new}]
          ELSE text[i]]

IsoKicklayout(m) ==
    <<[config |-> TRUE, modules |-> IF CONFIGS[m].sata THEN {"p5020sata"} ELSE {}],
      [config |-> FALSE, modules |-> {}],
      [config |-> TRUE, modules |-> {"diskcache", "RadeonHD.debug"}]>>

ENHANCER_MODULES == {"SmartFilesystem", "RadeonRX", "RadeonHD", "diskcache"}

\* What the sequence of m is to make of every configuration of the file.
Patched(m, text) ==
    \A i \in DOMAIN text : text[i].config =>
        /\ \A mod \in ENHANCER_MODULES : HasModule(text[i], mod)
        /\ 1 \in Range(CONFIGS[m].updates) => "mounter" \in text[i].modules
        /\ "p5020sata" \notin text[i].modules

----------------------------------------------------------------------------
(* build_sequence.                                                         *)

TeardownDismountFirst ==
    <<"install_mcpd", "dismount_combi_device", "unmount_iso", "cleanup_tmp">>

Teardown ==
    <<"install_mcpd", "unmount_iso", "dismount_combi_device", "cleanup_tmp">>

BuildSequence(m) ==
    <<"stage_diskimage_tools", "extract_iso_lha", "mount_iso",
      "verify_cd_signature", "copy_base_os", "copy_installation_extras",
      "install_bootloader">>
    \o [i \in DOMAIN CONFIGS[m].updates |-> Update(CONFIGS[m].updates[i])]
    \o <<"install_enhancer">>
    \o (IF CONFIGS[m].ngf THEN <<"install_ngf">> ELSE <<>>)
    \o <<"install_extras", "patch_amidock_prefs", "install_network_config",
         "install_serialshell">>
    \o (IF CONFIGS[m].quarantine
          THEN <<"quarantine_emu10kx", "quarantine_devs_monitors">> ELSE <<>>)
    \o Teardown

----------------------------------------------------------------------------
VARIABLES
    machine,  \* the machine the target is
    disc,     \* whether the ISO is really the one of that machine
    src,      \* sources_dir: bare ISOs, LHA-packed ISOs, other files
    isoarg,   \* whether the operator names the ISO
    pre,      \* verdict of the last installer.preflight
    staged,   \* outcome of the last installer.stage
    ver,      \* verdict of the last installer.verify
    tmp,      \* item -> state of its file in <dest>:tmp/
    dest,     \* piece -> its state on the volume
    kick,     \* Kickstart/Kicklayout
    ustart,   \* S/User-Startup: the ISO's text, and SerialShell blocks
    nstart,   \* S/Network-Startup: AddNetInterface, and MCPd lines
    libz,     \* what the libz.so links lead to
    legacy,   \* drivers that are still where they would be loaded
    combi,    \* DEVS:DOSDrivers/COMBI of the running system
    media,    \* whether the ISO is in the diskimage unit
    live,     \* whether COMBI: is a live DOS device
    jammed,   \* history: this run's ejections that failed unnoticed
    late,     \* commands that work on past their time limit
    seq,      \* steps the run under way has still to do
    extracted,\* ctx["iso_was_extracted_from_lha"]
    clean,    \* history: this run began well and nothing failed unnoticed
    isoleft,  \* history: <dest>:tmp/<iso> when this run began
    res,      \* overall of the last run
    runs, faults

hostside == <<machine, disc, src, isoarg, pre, staged, ver>>
system   == <<combi, media, live, jammed>>
volume   == <<dest, kick, ustart, nstart, libz, legacy>>
vars == <<hostside, tmp, volume, system, late, seq, extracted, clean, isoleft,
          res, runs, faults>>

States == {"none", "part", "full"}
Startup == [text: BOOLEAN, lines: 0..2]
NoFile  == [text |-> FALSE, lines |-> 0]
Legacy  == {"emu10kx", "monitors"}
Ejections == {"unmount_iso", "dismount_combi_device"}

TypeOK ==
    /\ machine \in Machines /\ disc \in {"right", "wrong"}
    /\ src \in [bare: 0..2, lha: 0..2, has: SUBSET Items] /\ isoarg \in BOOLEAN
    /\ pre \in {"none", "ok", "fail"} /\ ver \in {"none", "ok", "fail"}
    /\ staged \in {"none", "refused", "failed", "ok"}
    /\ tmp \in [Items -> States] /\ dest \in [Pieces -> States]
    /\ kick \in Seq(Block) /\ ustart \in Startup /\ nstart \in Startup
    /\ libz \in {"none", "iso", "1.2.3", "1.2.13"}
    /\ legacy \subseteq Legacy
    /\ combi \in {"none", "ours", "user"}
    /\ media \in BOOLEAN /\ live \in BOOLEAN /\ jammed \subseteq Ejections
    /\ late \subseteq {"lha", "copy"}
    /\ extracted \in BOOLEAN /\ clean \in BOOLEAN /\ isoleft \in States
    /\ res \in {"none", "refused", "planned", "running", "fail", "ok"}
    /\ seq \in Seq(Range(BuildSequence(machine)))
    /\ (seq # <<>>) = (res = "running")
    /\ runs \in 0..MaxRuns /\ faults \in 0..MaxFaults

Init ==
    /\ machine \in Machines /\ disc \in {"right", "wrong"}
    /\ isoarg \in BOOLEAN
    /\ \E s \in Sources :
         src = [bare |-> s.bare, lha |-> s.lha,
                has |-> (RequiredFiles(machine) \cup Optional \cup {"MCPd"})
                        \ s.lacks]
    /\ pre = "none" /\ staged = "none" /\ ver = "none"
    /\ tmp = [x \in Items |-> "none"]
    /\ dest = [p \in Pieces |-> "none"]
    /\ kick = NoText /\ ustart = NoFile /\ nstart = NoFile
    /\ libz = "none" /\ legacy = {}
    /\ combi \in {"none", "user"} /\ media = FALSE /\ live = FALSE
    /\ jammed = {}
    /\ late = {} /\ seq = <<>> /\ extracted = FALSE /\ clean = FALSE
    /\ isoleft = "none" /\ res = "none" /\ runs = 0 /\ faults = 0

----------------------------------------------------------------------------
(* Preflight, staging, verification.                                       *)

\* Whether a scan of sources_dir settles on an ISO.  A packed ISO is taken
\* to be that of the bare one beside it.
IsoDetected == src.bare = 1 \/ src.lha = 1

MandatoryBinaries == {"MCPd"}

(* installer_preflight; nothing on the target changes.  A request that     *)
(* fails makes the destination unmounted, or an entry absent.              *)
PreflightIsoAny == src.bare + src.lha > 0

PreflightIso ==
    IF isoarg THEN src.bare > 0
    ELSE src.bare = 1 \/ (src.bare = 0 /\ src.lha = 1)

Forbidden == \/ dest["startup"] # "none" \/ dest["base"] # "none"
             \/ dest["MCPd"] # "none" \/ dest["prefs"] # "none"

Preflight ==
    /\ res # "running"
    /\ \E mounted \in {TRUE, FALSE} :
         pre' = IF /\ PreflightIso /\ mounted /\ ~Forbidden
                   /\ RequiredFiles(machine) \cup MandatoryBinaries \subseteq src.has
                  THEN "ok" ELSE "fail"
    /\ UNCHANGED <<machine, disc, src, isoarg, staged, ver, tmp, volume, system,
                   late, seq, extracted, clean, isoleft, res, runs, faults>>

\* What installer_stage refuses before it touches the target.
StageRefuses ==
    \/ IF isoarg THEN src.bare + src.lha = 0 ELSE ~IsoDetected
    \/ ~(MandatoryBinaries \subseteq src.has)

StageOrder == <<"iso", "iso_lha", "upd1", "upd2", "upd3", "enhancer", "ngf",
                "MCPd", "helpers", "SerialShell", "AmiDock">>

StageItems ==
    {x \in Items : CASE x = "iso" -> src.lha = 0
                     [] x = "iso_lha" -> src.lha > 0
                     [] OTHER -> x \in src.has}

(* installer_stage: the items one after the other; an upload that fails    *)
(* for good leaves what it had written.                                    *)
Stage ==
    /\ res # "running" /\ staged \in {"none", "failed"}
    /\ \/ StageRefuses /\ staged' = "refused" /\ UNCHANGED <<tmp, faults>>
       \/ /\ ~StageRefuses /\ staged' = "ok"
          /\ tmp' = [x \in Items |-> IF x \in StageItems THEN "full"
                                     ELSE tmp[x]]
          /\ UNCHANGED faults
       \/ /\ ~StageRefuses /\ staged' = "failed"
          /\ faults < MaxFaults /\ faults' = faults + 1
          /\ \E n \in DOMAIN StageOrder :
               /\ StageOrder[n] \in StageItems
               /\ tmp' = [x \in Items |->
                            IF x = StageOrder[n] THEN "part"
                            ELSE IF x \in StageItems /\ (\E i \in 1..n - 1 : StageOrder[i] = x)
                                   THEN "full"
                            ELSE tmp[x]]
    /\ UNCHANGED <<machine, disc, src, isoarg, pre, ver, volume, system, late, seq,
                   extracted, clean, isoleft, res, runs>>

VERIFY_MANIFEST(m) ==
    {"startup", "base", "enhancer"}
    \cup (IF CONFIGS[m].boot THEN {"boot"} ELSE {"eth"})
    \cup (IF m = "X5000" THEN {"ngf"} ELSE {})

VerifyOverall ==
    IF /\ \A p \in VERIFY_MANIFEST(machine) : dest[p] # "none"
       /\ kick # NoText
       /\ machine \in {"X5000", "A1222"} => ustart # NoFile
      THEN "ok" ELSE "fail"

Verify ==
    /\ res \in {"ok", "fail"} /\ ver = "none"
    /\ ver' = VerifyOverall
    /\ UNCHANGED <<machine, disc, src, isoarg, pre, staged, tmp, volume, system,
                   late, seq, extracted, clean, isoleft, res, runs, faults>>

----------------------------------------------------------------------------
(* installer_run and the runner.                                           *)

(* The operator has staged everything, it is the right disc or the disc    *)
(* will be looked at, and no command of an earlier run works on.           *)
Ready ==
    /\ late = {}
    /\ "full" \in {tmp["iso"], tmp["iso_lha"]}
    /\ \A x \in RequiredFiles(machine) \cup {"MCPd"} : tmp[x] = "full"
    /\ \A x \in Optional : tmp[x] # "part"
    /\ disc = "right" \/ CONFIGS[machine].sig

RunRefused ==
    /\ res # "running" /\ runs < MaxRuns
    /\ res' = "refused" /\ clean' = FALSE
    /\ UNCHANGED <<hostside, tmp, volume, system, late, seq, extracted, isoleft,
                   runs, faults>>

RunPlanned ==
    /\ res # "running" /\ runs < MaxRuns
    /\ isoarg \/ IsoDetected
    /\ res' = "planned" /\ clean' = FALSE
    /\ UNCHANGED <<hostside, tmp, volume, system, late, seq, extracted, isoleft,
                   runs, faults>>

RunStart ==
    /\ res # "running" /\ runs < MaxRuns
    /\ isoarg \/ IsoDetected
    /\ runs' = runs + 1 /\ res' = "running"
    /\ seq' = BuildSequence(machine)
    /\ extracted' = FALSE /\ clean' = Ready /\ isoleft' = tmp["iso"]
    /\ jammed' = {}
    /\ pre' = "none" /\ ver' = "none" \* verdicts about an earlier state
    /\ UNCHANGED <<machine, disc, src, isoarg, staged, tmp, volume, combi, media,
                   live, late, faults>>

At(step) == seq # <<>> /\ Head(seq) = step

Fault(n) == faults + n <= MaxFaults /\ faults' = faults + n

Ok   == /\ seq' = Tail(seq)
        /\ res' = IF Tail(seq) = <<>> THEN "ok" ELSE "running"
Fail == seq' = <<>> /\ res' = "fail"

\* The step ran to its end with n requests lost, or raised after that.
Done(n) == (Ok /\ Fault(n)) \/ (Fail /\ Fault(n + 1))

run == <<hostside, isoleft, runs>>

(* A request that is not guarded fails before the step has done anything.  *)
StepRaises ==
    /\ seq # <<>> /\ Fail /\ Fault(1)
    /\ UNCHANGED <<run, tmp, volume, system, late, extracted, clean>>

(* Copies of pieces from a source in state q, each guarded on its own, and *)
(* n other requests lost.  A tree copy may be cut short.                   *)
Copy(pieces, q, n) ==
    \E got \in SUBSET pieces : \E torn \in SUBSET (pieces \ got) :
        /\ q = "none" => got = {} /\ torn = {}
        /\ dest' = [p \in Pieces |->
                      IF p \in got THEN q
                      ELSE IF p \in torn THEN "part" ELSE dest[p]]
        /\ clean' = (clean /\ got = pieces /\ n = 0)
        /\ Done(n + IF q = "none" THEN 0 ELSE Cardinality(pieces \ got))

----------------------------------------------------------------------------
(* The steps.                                                              *)

\* What a step finds on the mounted volume.
Iso == IF media /\ disc = "right" THEN tmp["iso"] ELSE "part"

(* The mountfile is written when fs.stat raises, for whatever reason.      *)
stage_diskimage_tools ==
    /\ At("stage_diskimage_tools")
    /\ \/ combi # "none" /\ Done(0) /\ UNCHANGED combi
       \/ combi = "none" /\ Done(0) /\ combi' = "ours"
       \/ combi # "none" /\ Done(1) /\ combi' = "ours"
    /\ UNCHANGED <<run, tmp, volume, media, live, jammed, late, extracted, clean>>

extract_iso_lha ==
    /\ At("extract_iso_lha")
    /\ \/ /\ tmp["iso"] # "none" \/ tmp["iso_lha"] = "none"
          /\ Done(0) /\ UNCHANGED <<tmp, late, extracted, clean>>
       \/ /\ tmp["iso"] = "none" /\ tmp["iso_lha"] # "none"
          /\ extracted' = TRUE
          /\ \/ /\ tmp' = [tmp EXCEPT !["iso"] = tmp["iso_lha"]]
                /\ Done(0) /\ UNCHANGED <<late, clean>>
             \/ /\ tmp' = [tmp EXCEPT !["iso"] = "part"] \* exit code
                /\ clean' = FALSE /\ Ok /\ Fault(1) /\ UNCHANGED late
             \/ /\ tmp' = [tmp EXCEPT !["iso"] = "part"] \* timeout
                /\ late' = late \cup {"lha"}
                /\ clean' = FALSE /\ Done(1)
             \/ /\ tmp' = [tmp EXCEPT !["iso"] = "part"] \* LhA goes down
                /\ Fail /\ Fault(1) /\ UNCHANGED <<late, clean>>
    /\ UNCHANGED <<run, volume, system>>

(* Eject, insert, mount, wait for the volume.  Inserting into a unit that  *)
(* has media takes it out.                                                 *)
mount_iso ==
    /\ At("mount_iso")
    /\ \E ejected \in BOOLEAN :
         LET lost == IF ejected THEN 0 ELSE 1
             in   == tmp["iso"] # "none" /\ (ejected \/ ~media)
         IN  /\ media' = in
             /\ live' = (live \/ combi # "none")
             /\ IF in /\ live' THEN Done(lost) ELSE Fail /\ Fault(lost)
    /\ UNCHANGED <<run, tmp, volume, combi, jammed, late, extracted, clean>>

verify_cd_signatureUnread ==
    /\ At("verify_cd_signature") /\ Done(0)
    /\ UNCHANGED <<run, tmp, volume, system, late, extracted, clean>>

verify_cd_signature ==
    /\ At("verify_cd_signature")
    /\ IF CONFIGS[machine].sig /\ disc = "wrong" THEN Fail /\ Fault(0) ELSE Done(0)
    /\ UNCHANGED <<run, tmp, volume, system, late, extracted, clean>>

\* The ISO's System drawer over the volume.
BaseCopied ==
    /\ kick' = IsoKicklayout(machine)
    /\ libz' = "iso" /\ legacy' = Legacy

copy_base_os ==
    /\ At("copy_base_os")
    /\ \/ /\ dest' = [dest EXCEPT !["base"] = Iso] /\ BaseCopied
          /\ Done(0) /\ UNCHANGED <<late, clean>>
       \/ /\ dest' = [dest EXCEPT !["base"] = "part"]
          /\ BaseCopied \/ UNCHANGED <<kick, libz, legacy>>
          /\ late' \in {late, late \cup {"copy"}}
          /\ clean' = FALSE /\ Done(1)
    /\ UNCHANGED <<run, tmp, ustart, nstart, system, extracted>>

copy_installation_extras ==
    /\ At("copy_installation_extras")
    /\ \E user \in BOOLEAN :
         /\ ustart' = IF user THEN [text |-> TRUE, lines |-> 0] ELSE ustart
         /\ Copy({"startup", "prefs"}, Iso, IF user THEN 0 ELSE 1)
    /\ UNCHANGED <<run, tmp, kick, nstart, libz, legacy, system, late, extracted>>

install_bootloader ==
    /\ At("install_bootloader")
    /\ Copy(IF CONFIGS[machine].boot THEN {"boot"} ELSE {},
            IF CONFIGS[machine].boot THEN Iso ELSE "full", 0)
    /\ UNCHANGED <<run, tmp, kick, ustart, nstart, libz, legacy, system, late,
                   extracted>>

(* installer_patch_kicklayout: it raises when there is no file to patch.   *)
Patch(text) == kick # NoText /\ kick' = text

NothingToPatch(step) ==
    /\ At(step) /\ kick = NoText /\ Fail /\ Fault(0)
    /\ UNCHANGED <<run, tmp, volume, system, late, extracted, clean>>

(* An update: packages, Kicklayout, then the links of the libz it brings,  *)
(* each deleted before it is made again.                                   *)
PatchesOf(n) ==
    CASE n = 1 -> Patch(add_modules(kick, {"mounter"}))
      [] n = 2 /\ CONFIGS[machine].sata ->
             Patch(replace_text(kick, "p5020sata", "p50x0sata"))
      [] OTHER -> UNCHANGED kick

Links(n, linked) ==
    CASE n = 3 /\ tmp["upd3"] # "full" -> libz
      [] ~linked -> "none"
      [] OTHER -> IF n = 3 THEN "1.2.13" ELSE "1.2.3"

apply_one_update(n) ==
    /\ At(Update(n))
    /\ PatchesOf(n)
    /\ \E linked \in BOOLEAN :
         /\ libz' = Links(n, linked)
         /\ Copy({Update(n)}, tmp[Update(n)], IF linked THEN 0 ELSE 1)
    /\ UNCHANGED <<run, tmp, ustart, nstart, legacy, system, late, extracted>>

install_enhancer ==
    /\ At("install_enhancer")
    /\ Patch(add_modules(kick, ENHANCER_MODULES))
    /\ Copy({"enhancer"} \cup (IF CONFIGS[machine].eth THEN {"eth"} ELSE {}),
            tmp["enhancer"], 0)
    /\ UNCHANGED <<run, tmp, ustart, nstart, libz, legacy, system, late, extracted>>

install_ngf ==
    /\ At("install_ngf")
    /\ Copy({"ngf"}, tmp["ngf"], 0)
    /\ UNCHANGED <<run, tmp, kick, ustart, nstart, libz, legacy, system, late,
                   extracted>>

install_extras ==
    /\ At("install_extras")
    /\ Copy({"extras"}, Iso, 0)
    /\ UNCHANGED <<run, tmp, kick, ustart, nstart, libz, legacy, system, late,
                   extracted>>

(* Steps for a file of tmp/: without it, or when fs.stat raises, a no-op.  *)
Skip(item) ==
    /\ IF tmp[item] = "none" THEN Done(0) /\ UNCHANGED clean
                             ELSE Done(1) /\ clean' = FALSE
    /\ UNCHANGED volume

patch_amidock_prefs ==
    /\ At("patch_amidock_prefs")
    /\ \/ Skip("AmiDock")
       \/ /\ tmp["AmiDock"] # "none" /\ Done(0)
          /\ dest' = [dest EXCEPT !["AmiDock"] = tmp["AmiDock"]]
          /\ UNCHANGED <<kick, ustart, nstart, libz, legacy, clean>>
    /\ UNCHANGED <<run, tmp, system, late, extracted>>

install_network_config ==
    /\ At("install_network_config")
    /\ nstart' = [text |-> TRUE, lines |-> 0]
    /\ dest' = [dest EXCEPT !["interface"] =
                    IF CONFIGS[machine].eth THEN "full" ELSE @]
    /\ Done(0)
    /\ UNCHANGED <<run, tmp, kick, ustart, libz, legacy, system, late, extracted,
                   clean>>

(* A start-up file gets its line, unless the line is there.  When the read *)
(* fails (or, for Network-Startup, the backup) the text counts as empty.   *)
AppendAlways(file, read) ==
    [text |-> file.text /\ read, lines |-> IF read THEN file.lines + 1 ELSE 1]

AppendOnce(file, read) ==
    IF read /\ file.lines > 0 THEN file
    ELSE [text |-> file.text /\ read, lines |-> 1]

install_serialshell ==
    /\ At("install_serialshell")
    /\ \/ Skip("SerialShell")
       \/ \E read \in BOOLEAN :
            /\ tmp["SerialShell"] # "none" /\ Done(IF read THEN 0 ELSE 1)
            /\ dest' = [dest EXCEPT !["SerialShell"] = tmp["SerialShell"]]
            /\ ustart' = AppendOnce(ustart, read)
            /\ clean' = (clean /\ read)
            /\ UNCHANGED <<kick, nstart, libz, legacy>>
    /\ UNCHANGED <<run, tmp, system, late, extracted>>

install_mcpd ==
    /\ At("install_mcpd")
    /\ \/ Skip("MCPd")
       \/ \E read \in BOOLEAN :
            /\ tmp["MCPd"] # "none" /\ Done(IF read THEN 0 ELSE 1)
            /\ dest' = [dest EXCEPT !["MCPd"] = tmp["MCPd"],
                                    !["helpers"] = IF tmp["helpers"] = "none" THEN @
                                                   ELSE tmp["helpers"]]
            /\ nstart' = AppendOnce(nstart, read)
            /\ clean' = (clean /\ read)
            /\ UNCHANGED <<kick, ustart, libz, legacy>>
    /\ UNCHANGED <<run, tmp, system, late, extracted>>

(* A driver is renamed out of the way, or copied and deleted; failing both *)
(* the step says so in its result and is ok.                               *)
Quarantine(driver) ==
    /\ \/ Ok /\ Fault(0) /\ legacy' = legacy \ {driver} /\ UNCHANGED clean
       \/ Ok /\ Fault(1) /\ UNCHANGED legacy /\ clean' = (clean /\ driver \notin legacy)
    /\ UNCHANGED <<run, tmp, dest, kick, ustart, nstart, libz, system, late,
                   extracted>>

quarantine_emu10kx == At("quarantine_emu10kx") /\ Quarantine("emu10kx")

quarantine_devs_monitors ==
    At("quarantine_devs_monitors") /\ Quarantine("monitors")

(* An EJECT of `step` that takes the ISO out, if there is one, or fails.   *)
Eject(step, ejected) ==
    /\ media' = (media /\ ~ejected)
    /\ jammed' = IF ejected THEN jammed ELSE jammed \cup {step}

(* An EJECT that ran and failed is a step that went well.                  *)
unmount_iso ==
    /\ At("unmount_iso")
    /\ \E ejected \in BOOLEAN :
         /\ Eject("unmount_iso", ejected)
         /\ clean' = (clean /\ ejected)
         /\ Done(IF ejected THEN 0 ELSE 1)
    /\ UNCHANGED <<run, tmp, volume, combi, live, late, extracted>>

(* Eject once more, delete the mountfile if it is ours, drop the device;   *)
(* each goes on after a failure of the one before.                         *)
dismount_combi_device ==
    /\ At("dismount_combi_device")
    /\ \E ejected, read, dropped \in BOOLEAN :
         /\ Eject("dismount_combi_device", ejected)
         /\ combi' = IF read /\ combi = "ours" THEN "none" ELSE combi
         /\ live' = (live /\ ~dropped)
         /\ clean' = (clean /\ read /\ dropped)
         /\ Ok /\ Fault(Cardinality({i \in 1..3 : ~<<ejected, read, dropped>>[i]}))
    /\ UNCHANGED <<run, tmp, volume, late, extracted>>

cleanup_tmp ==
    /\ At("cleanup_tmp")
    /\ \/ /\ extracted /\ "lha" \notin late
          /\ tmp' = [tmp EXCEPT !["iso"] = "none"] /\ Ok /\ Fault(0)
       \/ extracted /\ Ok /\ Fault(1) /\ UNCHANGED tmp
       \/ (~extracted \/ "lha" \in late) /\ Ok /\ Fault(0) /\ UNCHANGED tmp
    /\ UNCHANGED <<run, volume, system, late, extracted, clean>>

----------------------------------------------------------------------------
(* The target.                                                             *)

LateLhaEnds ==
    /\ "lha" \in late /\ late' = late \ {"lha"}
    /\ tmp' = [tmp EXCEPT !["iso"] = tmp["iso_lha"]]
    /\ UNCHANGED <<hostside, volume, system, seq, extracted, clean, isoleft, res,
                   runs, faults>>

(* The overlong Copy gets through, over whatever was patched meanwhile.    *)
LateCopyEnds ==
    /\ "copy" \in late /\ late' = late \ {"copy"}
    /\ \/ /\ media /\ BaseCopied
          /\ dest' = [dest EXCEPT !["base"] = Iso]
       \/ UNCHANGED <<dest, kick, libz, legacy>>
    /\ UNCHANGED <<hostside, tmp, ustart, nstart, system, seq, extracted, clean,
                   isoleft, res, runs, faults>>

(* The run under way, if any, loses its connection.                        *)
Reboot ==
    /\ runs > 0 /\ Fault(1)
    /\ late' = {} /\ media' = FALSE /\ live' = (combi # "none")
    /\ IF seq = <<>> THEN UNCHANGED <<seq, res>> ELSE Fail
    /\ UNCHANGED <<run, tmp, volume, combi, jammed, extracted, clean>>

Steps ==
    \/ stage_diskimage_tools \/ extract_iso_lha \/ mount_iso
    \/ verify_cd_signature \/ copy_base_os \/ copy_installation_extras
    \/ install_bootloader \/ \E n \in 1..3 : apply_one_update(n)
    \/ \E step \in {"upd1", "upd2", "install_enhancer"} : NothingToPatch(step)
    \/ install_enhancer \/ install_ngf \/ install_extras
    \/ patch_amidock_prefs \/ install_network_config \/ install_serialshell
    \/ quarantine_emu10kx \/ quarantine_devs_monitors \/ install_mcpd
    \/ unmount_iso \/ dismount_combi_device \/ cleanup_tmp
    \/ StepRaises

\* What a client may call.
installer_run == RunRefused \/ RunPlanned \/ RunStart
Called == Preflight \/ Stage \/ Verify \/ installer_run

Next ==
    \/ Called
    \/ Steps
    \/ LateLhaEnds \/ LateCopyEnds \/ Reboot

Spec == Init /\ [][Next]_vars

----------------------------------------------------------------------------
(* Properties.                                                             *)

Complete ==
    /\ \A p \in Needed(machine) : dest[p] = "full"
    /\ \A p \in Optional : tmp[p] = "full" => dest[p] = "full"
    /\ kick # NoText /\ Patched(machine, kick)
    /\ nstart = [text |-> TRUE, lines |-> 1]
    /\ ustart = [text |-> TRUE, lines |-> IF tmp["SerialShell"] = "full" THEN 1 ELSE 0]
    /\ libz = "1.2.13"
    /\ CONFIGS[machine].quarantine => legacy = {}
    /\ ~media /\ combi # "ours" /\ (live => combi = "user")

(* An attempt that began with everything staged and ends "ok", with no     *)
(* request or command failing unnoticed, leaves a complete installation    *)
(* and no scaffolding, whatever earlier attempts left half done: the steps *)
(* repair what they find.  installer.verify accepts it: its manifest asks  *)
(* for nothing the machine's sequence does not install.  The exception is  *)
(* an ISO of which only a part is there, which extract_iso_lha takes for   *)
(* the real thing.                                                         *)
OkRunCompletes ==
    /\ TypeOK
    /\ res = "ok" /\ clean /\ isoleft # "part" => Complete /\ VerifyOverall = "ok"

(* After a preflight that did not fail, stage refuses nothing and, once it *)
(* succeeds, every file the sequence needs is in tmp/.                     *)
PreflightPromisesStage ==
    pre = "ok" =>
        /\ staged # "refused"
        /\ staged = "ok" =>
             /\ "none" \notin {tmp[x] : x \in RequiredFiles(machine) \cup {"MCPd"}}
             /\ tmp["iso"] # "none" \/ tmp["iso_lha"] # "none"

(* However many attempts fail wherever, MCPd and SerialShell are launched  *)
(* from the start-up files at most once.                                   *)
LaunchedOnce == nstart.lines <= 1 /\ ustart.lines <= 1

(* "The ISO MUST be ejected before Dismount runs": no single failure, in   *)
(* this run or an earlier one, has the DOS device dropped with the ISO in  *)
(* the unit.  It takes both ejections of the run, unmount_iso's and the    *)
(* guard of dismount_combi_device, failing unnoticed.                      *)
EjectedBeforeDismount ==
    [][live /\ ~live' /\ media' => jammed' = Ejections]_vars

----------------------------------------------------------------------------
(* What makes them inductive.                                              *)

(* The steps the run has behind it.                                        *)
passed == Range(BuildSequence(machine)) \ Range(seq)

Suffix(s, t) ==
    /\ Len(s) <= Len(t)
    /\ \A i \in 1..Len(s) : s[i] = t[Len(t) - Len(s) + i]

(* A run goes through its sequence in order, and while the medium is in    *)
(* the unit has its ejection before it, or has seen it fail.               *)
SeqInv ==
    /\ Suffix(seq, BuildSequence(machine))
    /\ seq # <<>> /\ media => "unmount_iso" \in Range(seq) \cup jammed

(* What is in tmp/ follows from how the last staging ended; the runs only  *)
(* ever unpack the ISO there, and delete what they unpacked.               *)
StageInv ==
    /\ src.has \subseteq RequiredFiles(machine) \cup Optional \cup {"MCPd"}
    /\ staged \in {"none", "refused"} => \A x \in Items : tmp[x] = "none"
    /\ staged = "refused" => StageRefuses
    /\ staged \in {"failed", "ok"} => ~StageRefuses
    /\ staged = "failed" => \/ \E x \in src.has : tmp[x] = "part"
                            \/ "full" \notin {tmp["iso"], tmp["iso_lha"]}
    /\ staged = "ok" => /\ \A x \in src.has : tmp[x] # "none"
                        /\ tmp["iso"] # "none" \/ tmp["iso_lha"] # "none"
    /\ extracted \/ "lha" \in late => tmp["iso_lha"] # "none"
    /\ pre = "ok" => /\ PreflightIso
                     /\ RequiredFiles(machine) \cup MandatoryBinaries \subseteq src.has

(* An attempt that began well and that nothing has failed in unnoticed.    *)
Sound == clean /\ isoleft # "part" /\ res \in {"running", "ok"}

(* What such an attempt has to work with ...                               *)
SuppliesInv ==
    /\ staged = "ok" /\ late = {}
    /\ \A x \in RequiredFiles(machine) \cup {"MCPd"} : tmp[x] = "full"
    /\ \A x \in Optional : tmp[x] # "part"
    /\ "cleanup_tmp" \notin passed =>
         /\ tmp["iso"] \in {"none", "full"}
         /\ tmp["iso"] = "none" => tmp["iso_lha"] = "full"
         /\ "extract_iso_lha" \in passed => tmp["iso"] = "full"
    /\ disc = "right" \/ CONFIGS[machine].sig
    /\ "verify_cd_signature" \in passed => disc = "right"
    /\ "mount_iso" \in passed /\ "unmount_iso" \notin passed => media

(* ... the pieces its steps have installed ...                             *)
PiecesInv ==
    /\ "copy_base_os" \in passed => dest["base"] = "full"
    /\ "copy_installation_extras" \in passed =>
         dest["startup"] = "full" /\ dest["prefs"] = "full"
    /\ "install_bootloader" \in passed /\ CONFIGS[machine].boot => dest["boot"] = "full"
    /\ \A u \in {"upd1", "upd2", "upd3"} : u \in passed => dest[u] = "full"
    /\ "install_enhancer" \in passed =>
         /\ dest["enhancer"] = "full"
         /\ CONFIGS[machine].eth => dest["eth"] = "full"
    /\ "install_ngf" \in passed => dest["ngf"] = "full"
    /\ "install_extras" \in passed => dest["extras"] = "full"
    /\ "patch_amidock_prefs" \in passed /\ tmp["AmiDock"] = "full" => dest["AmiDock"] = "full"
    /\ "install_network_config" \in passed /\ CONFIGS[machine].eth =>
         dest["interface"] = "full"
    /\ "install_serialshell" \in passed /\ tmp["SerialShell"] = "full" =>
         dest["SerialShell"] = "full"
    /\ "install_mcpd" \in passed =>
         /\ dest["MCPd"] = "full"
         /\ tmp["helpers"] = "full" => dest["helpers"] = "full"

(* ... the texts they have written ...                                     *)
TextsInv ==
    /\ "copy_base_os" \in passed => kick # NoText
    /\ \A i \in DOMAIN kick : kick[i].config =>
         /\ "upd1" \in passed => "mounter" \in kick[i].modules
         /\ "copy_base_os" \in passed /\ (~CONFIGS[machine].sata \/ "upd2" \in passed) =>
              "p5020sata" \notin kick[i].modules
         /\ "install_enhancer" \in passed =>
              \A mod \in ENHANCER_MODULES : HasModule(kick[i], mod)
    /\ "copy_installation_extras" \in passed =>
         ustart = [text |-> TRUE,
                   lines |-> IF "install_serialshell" \in passed /\ tmp["SerialShell"] = "full"
                             THEN 1 ELSE 0]
    /\ "install_network_config" \in passed =>
         nstart = [text |-> TRUE, lines |-> IF "install_mcpd" \in passed THEN 1 ELSE 0]
    /\ "upd3" \in passed => libz = "1.2.13"

(* ... and what they have taken away.                                      *)
ClearedInv ==
    /\ "quarantine_emu10kx" \in passed => "emu10kx" \notin legacy
    /\ "quarantine_devs_monitors" \in passed => "monitors" \notin legacy
    /\ "unmount_iso" \in passed => ~media
    /\ "dismount_combi_device" \in passed =>
         combi # "ours" /\ (live => combi = "user")

InstallerInv ==
    /\ TypeOK /\ LaunchedOnce /\ SeqInv /\ StageInv
    /\ Sound => SuppliesInv /\ PiecesInv /\ TextsInv /\ ClearedInv

============================================================================
