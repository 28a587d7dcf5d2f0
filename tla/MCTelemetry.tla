------------------------------ MODULE MCTelemetry ------------------------------
(* What the telemetry passes through, side by side: a behaviour is one of   *)
(* the collectors, the live record, an endpoint of the dashboard, or the    *)
(* choice of the adapters that run; the others rest.                        *)
EXTENDS HotState, PolledCollector, SysfsCollector, StreamedCollector, EnergyMeter,
        EndpointCache, InstallPlan, TLC

VARIABLE machine

\* Sessions differ in nothing but their name, and so do paths.
MCSymmetry == Permutations(Sigs) \cup Permutations(Paths)

MCWrap == [pkg |-> 3, dram |-> 2]

MCIdClan == [arch |-> "arch", ubuntu |-> "debian", fedora |-> "fedora", nixos |-> "nixos"]
MCClans  == {"arch", "debian", "fedora", "suse", "nixos"}

NoDesktop == [sig |-> FALSE, sway |-> FALSE, type |-> "none", desktop |-> "none", bus |-> FALSE]
Gnome     == [NoDesktop EXCEPT !.type = "wayland", !.desktop = "GNOME", !.bus = TRUE]
Hyprland  == [NoDesktop EXCEPT !.type = "wayland", !.sig = TRUE, !.bus = TRUE]

\* An ASUS laptop under Hyprland, a desktop computer under GNOME, a rack server, a
\* single-board computer.
Laptop ==
  [id |-> "arch", like |-> <<>>, cpu |-> "amd", hwmon |-> {"k10temp", "asus-ec"},
   cards |-> {"amd", "nvidia"}, mods |-> {"amdgpu", "nvidia"}, session |-> Hyprland,
   imported |-> TRUE, socket |-> TRUE, path |-> {"hyprctl", "asusctl", "gdbus", "perf"},
   package |-> "new", info |-> "new", active |-> {}, profile |-> TRUE, epp |-> "writable",
   rapl |-> "locked", zones |-> "read", paranoid |-> 1, perfmon |-> TRUE, bpf |-> TRUE,
   python |-> {"pynvml"}, nvml |-> TRUE, redfish |-> "none", ipmi |-> "none",
   sudoers |-> TRUE, virtual |-> FALSE]
Desktop ==
  [Laptop EXCEPT !.id = "ubuntu", !.cpu = "intel", !.hwmon = {"nct6798"}, !.cards = {"intel"},
                 !.mods = {"i915"}, !.session = Gnome, !.socket = FALSE, !.path = {"gdbus"},
                 !.profile = FALSE, !.rapl = "readable", !.python = {}, !.nvml = FALSE]
Server ==
  [Laptop EXCEPT !.id = "fedora", !.cpu = "amd", !.hwmon = {"k10temp"}, !.cards = {},
                 !.mods = {"ipmi"}, !.session = NoDesktop, !.imported = FALSE, !.socket = FALSE,
                 !.path = {"ipmitool", "ryzenadj"}, !.profile = FALSE, !.epp = "readonly",
                 !.paranoid = 3, !.python = {}, !.nvml = FALSE, !.redfish = "answers",
                 !.ipmi = "answers"]
Board == \* on NixOS, with the modules of cards it does not have
  [Desktop EXCEPT !.id = "nixos", !.cpu = "arm", !.cards = {}, !.mods = {"amdgpu", "i915"},
                  !.session = [Gnome EXCEPT !.desktop = "none"], !.path = {"gdbus", "thinkfan"},
                  !.active = {"tlp"}, !.zones = "mute", !.rapl = "empty", !.package = "silent"]

\* BOUND: hosts that differ from one of the four in at most one fact, with these
\* values of the facts.
Facts ==
  [Options EXCEPT
     !.hwmon = {{}, {"k10temp"}, {"nct6798"}}, !.cards = {{}, {"amd-vfio"}, {"amd", "intel"}},
     !.mods = {{}, {"amdgpu"}, {"nvidia"}, {"i915"}, {"dell_smm"}},
     !.session = {NoDesktop, Gnome, [Gnome EXCEPT !.desktop = "XFCE"],
                  [Gnome EXCEPT !.desktop = "none"], [NoDesktop EXCEPT !.sway = TRUE]},
     !.path = {{}, {"hyprctl", "gdbus"}, {"swaymsg", "thinkfan"}, {"ryzenadj", "asusctl"},
               {"bpftrace", "ipmitool"}},
     !.python = {{}, {"bcc"}, {"pynvml"}}]
MCHosts ==
  {h \in UNION {UNION {{[b EXCEPT ![f] = v] : v \in Facts[f]} : f \in DOMAIN Options} :
                 b \in {Laptop, Desktop, Server, Board}} : Real(h)}

MCInit ==
  /\ machine \in {"hot", "polled", "sysfs", "streamed", "energy", "endpoint", "install"}
  /\ HotInit /\ SysfsInit /\ StreamedInit /\ EnergyInit
  /\ PolledInit /\ (machine # "polled" => kind = "hyprctl" /\ session = CHOOSE s \in Sigs : TRUE)
  /\ EndpointInit /\ (machine # "endpoint" => endpoint = "plain")
  /\ InstallInit /\ (machine # "install" => host = Laptop /\ asked = "auto")

\* BOUND: time and counts at their ends.
AtEnd ==
  \/ machine = "streamed" /\ closing = "closed"
  \/ machine = "energy" /\ meterAt = MaxMeter

\* BOUND: nothing is promised of samples that overlapped, of which two are followed.
FewOverlap == mixed' => ticks' <= 2

MCNext ==
  /\ \/ /\ machine = "hot" /\ HotNext
        /\ UNCHANGED <<polledVars, sysfsVars, streamedVars, energyVars, endpointVars, planVars>>
     \/ /\ machine = "polled" /\ PolledNext
        /\ UNCHANGED <<hotVars, sysfsVars, streamedVars, energyVars, endpointVars, planVars>>
     \/ /\ machine = "sysfs" /\ SysfsNext /\ FewOverlap
        /\ UNCHANGED <<hotVars, polledVars, streamedVars, energyVars, endpointVars, planVars>>
     \/ /\ machine = "streamed" /\ StreamedNext
        /\ UNCHANGED <<hotVars, polledVars, sysfsVars, energyVars, endpointVars, planVars>>
     \/ /\ machine = "energy" /\ EnergyNext
        /\ UNCHANGED <<hotVars, polledVars, sysfsVars, streamedVars, endpointVars, planVars>>
     \/ /\ machine = "endpoint" /\ EndpointNext
        /\ UNCHANGED <<hotVars, polledVars, sysfsVars, streamedVars, energyVars, planVars>>
     \/ /\ machine = "install" /\ InstallNext
        /\ UNCHANGED <<hotVars, polledVars, sysfsVars, streamedVars, energyVars, endpointVars>>
     \/ /\ AtEnd
        /\ UNCHANGED <<hotVars, polledVars, sysfsVars, streamedVars, energyVars, endpointVars, planVars>>
  /\ UNCHANGED machine

\* Every state of the machines is well typed.
WellTyped ==
  /\ HotTypeOK /\ PolledTypeOK /\ SysfsTypeOK /\ StreamedTypeOK /\ EnergyTypeOK
  /\ EndpointTypeOK /\ InstallTypeOK

\* What the collectors read themselves is what it is taken for: a sensor's
\* value is its own, counts are whole intervals, power is the energy that was
\* used (see the three modules).
ReadingsTrue == SensorsOwn /\ StreamWhole /\ PowerIsTrue
================================================================================
