------------------------------- MODULE Platform -------------------------------
(* compat/detect.py, compat/caps.py and the make() of every adapter: what a  *)
(* host is taken for, and what a daemon started on it runs.  The command     *)
(* `coolstep compat` detects the capabilities in the user's session; the     *)
(* adapters of the daemon probe the host themselves, in the environment of   *)
(* the systemd user manager, and look at the capabilities of their process   *)
(* only when somebody has asked for them before.                             *)
EXTENDS Naturals, FiniteSets, Sequences

CONSTANTS
  IdClan,  \* manifest: distro.id_to_clan
  Clans,   \* manifest: the distributions of clan_pkg_manager
  NoCaps

\* What a host may be like, fact by fact.
Options ==
  [id       |-> DOMAIN IdClan \cup {"other"},
   like     |-> {<<>>, <<"rhel">>, <<"rhel", "fedora">>, <<"debian">>},
   cpu      |-> {"amd", "intel", "arm"},
   hwmon    |-> SUBSET {"k10temp", "nct6798", "asus-ec"},
   cards    |-> SUBSET {"amd", "amd-vfio", "nvidia", "intel"}, \* amd-vfio: another driver
   mods     |-> SUBSET {"amdgpu", "nvidia", "i915", "ipmi", "dell_smm"},
   session  |-> [sig : BOOLEAN, sway : BOOLEAN, type : {"wayland", "x11", "none"},
                 desktop : {"KDE", "GNOME", "XFCE", "none"}, bus : BOOLEAN],
   imported |-> BOOLEAN,  \* the user manager has the variables of the session
   socket   |-> BOOLEAN,  \* a Hyprland socket in the runtime directory
   path     |-> SUBSET {"hyprctl", "swaymsg", "gdbus", "asusctl", "nbfc", "fancontrol",
                        "thinkfan", "coolercontrol", "ryzenadj", "ipmitool", "bpftrace",
                        "perf"},
   package  |-> {"old", "new", "silent"},  \* the version asusctl's package reports
   info     |-> {"old", "new", "fails"},   \* the version `asusctl info` reports
   active   |-> SUBSET {"ppd", "tlp"},
   profile  |-> BOOLEAN,
   epp      |-> {"absent", "unreadable", "readonly", "writable"},
   rapl     |-> {"absent", "empty", "locked", "readable"},
   zones    |-> {"none", "mute", "read"},
   paranoid |-> {1, 3, 99},  \* 99: it cannot be read
   perfmon  |-> BOOLEAN,     \* perf outlives its first 300 ms
   bpf      |-> BOOLEAN,     \* the kernel has bpffs and the tracepoints
   python   |-> SUBSET {"pynvml", "bcc"},
   nvml     |-> BOOLEAN,     \* NVML starts and counts a device
   redfish  |-> {"none", "url", "dead", "answers"}, \* url: without credentials
   ipmi     |-> {"none", "dead", "answers"},        \* device or host, and `mc info`
   sudoers  |-> BOOLEAN,     \* ryzenadj reads its limits, and sudo needs no password
   virtual  |-> BOOLEAN]

HostOK(h) == DOMAIN h = DOMAIN Options /\ \A f \in DOMAIN h : h[f] \in Options[f]

\* The answer of the first rule whose condition holds.
FirstRule(rules) ==
  LET first == CHOOSE i \in DOMAIN rules :
                 rules[i][1] /\ \A j \in 1 .. i - 1 : ~rules[j][1]
  IN rules[first][2]

-----------------------------------------------------------------------------
(* detect.py.                                                              *)

\* A known ID decides; else the first token of ID_LIKE that is a clan's own name.
Clan(h) ==
  LET named == {i \in DOMAIN h.like : h.like[i] \in Clans}
      known == h.id \in DOMAIN IdClan
  IN CASE known -> IdClan[h.id]
       [] ~known /\ named # {} -> h.like[CHOOSE i \in named : \A j \in named : i <= j]
       [] OTHER -> "unknown"

\* By the vendor of a card, or by the module that drives one.
Gpus(h) ==
  (h.cards \cap {"nvidia", "intel"})
    \cup {"amd" : c \in (h.cards \cap {"amd", "amd-vfio"}) \cup (h.mods \cap {"amdgpu"})}
    \cup {"nvidia" : m \in h.mods \cap {"nvidia"}}
    \cup {"intel" : m \in h.mods \cap {"i915"}}

CompositorOf(h, s) ==
  FirstRule(<<
    <<s.sig, "hyprland">>, <<s.sway, "sway">>,
    <<s.desktop = "KDE", "kwin">>, <<s.desktop = "GNOME", "mutter">>,
    <<s.desktop = "XFCE", "xfwm4">>,
    <<"hyprctl" \in h.path /\ h.socket, "hyprland">>,
    <<"swaymsg" \in h.path /\ s.type = "wayland", "sway">>,
    <<s.type = "wayland", "unknown">>, <<s.type = "x11", "x11_generic">>,
    <<TRUE, "none">> >>)

\* Mutant: an asusctl whose version nobody knows is too old.
VersionOKKnownMutant(h) == "asusctl" \in h.path /\ h.package = "new"

\* An asusctl whose version nobody knows passes for a new one.
VersionOK(h) == "asusctl" \in h.path /\ h.package \in {"new", "silent"}

EppReadable(h) == h.epp \in {"readonly", "writable"}
RaplReadable(h) == h.rapl = "readable"
ZoneSeen(h) == h.zones # "none"

Caps(h, s) ==
  [clan       |-> Clan(h),
   cpu        |-> h.cpu,
   hwmon      |-> h.hwmon,
   gpus       |-> Gpus(h),
   compositor |-> CompositorOf(h, s),
   bus        |-> s.bus,
   path       |-> h.path,
   version    |-> VersionOK(h),
   active     |-> h.active,
   profile    |-> h.profile,
   epp        |-> EppReadable(h),
   eppWrite   |-> h.epp = "writable",
   rapl       |-> h.rapl # "absent",
   raplRead   |-> RaplReadable(h),
   zones      |-> ZoneSeen(h),
   paranoid   |-> h.paranoid,
   python     |-> h.python,
   mods       |-> h.mods \cap {"ipmi", "dell_smm"},
   redfish    |-> h.redfish # "none",
   virtual    |-> h.virtual]

-----------------------------------------------------------------------------
(* caps.py.                                                                *)

\* Mutant: thinkfan is not counted.
HasFanControlLaptopMutant(c) ==
  {"asusctl", "nbfc", "fancontrol", "coolercontrol"} \cap c.path # {}

HasFanControl(c) ==
  {"asusctl", "nbfc", "fancontrol", "thinkfan", "coolercontrol"} \cap c.path # {}

\* Deployment target: BMC tooling first, then machines without a laptop's profiles.
Facet(c) ==
  FirstRule(<<
    <<"ipmi" \in c.mods \/ "ipmitool" \in c.path \/ c.redfish, "server">>,
    <<(c.virtual \/ c.compositor = "none") /\ ~c.profile, "server">>,
    <<c.compositor \notin {"none", "unknown"} \/ c.profile, "desktop">>,
    <<TRUE, "ambiguous">> >>)

-----------------------------------------------------------------------------
(* The adapters.                                                           *)

Collectors ==
  {"linux_sysfs", "arm_thermal", "amdgpu", "nvidia_nvml", "intel_i915", "rapl_energy",
   "hyprctl", "dbus_session", "redfish", "ipmi", "perf_events", "ebpf_sched"}
Actuators == {"asusctl_fan_curve_bias", "epp_shift", "ryzenadj_cap"}

\* make()'s look at the capabilities of its process, where there are any.
Gated(a, c) ==
  /\ c # NoCaps
  /\ CASE a = "amdgpu"       -> "amd" \notin c.gpus
       [] a = "nvidia_nvml"  -> "nvidia" \notin c.gpus
       [] a = "intel_i915"   -> "intel" \notin c.gpus
       [] a = "rapl_energy"  -> ~c.rapl
       [] a = "hyprctl"      -> "hyprctl" \notin c.path
       [] a = "dbus_session" ->
            ~c.bus \/ ("hyprctl" \in c.path /\ c.compositor = "hyprland")
       [] a = "perf_events"  -> "perf" \notin c.path \/ c.paranoid > 2
       [] a = "ebpf_sched"   -> "bpftrace" \notin c.path /\ "bcc" \notin c.python
       [] a = "asusctl_fan_curve_bias" -> "asusctl" \notin c.path \/ ~c.version
       [] a = "epp_shift"    -> ~c.epp \/ c.active # {}
       [] a = "ryzenadj_cap" -> "ryzenadj" \notin c.path \/ "tlp" \in c.active
       [] OTHER -> FALSE

\* discover() of the collectors.
SysfsProbe(h)   == TRUE
ThermalProbe(h) == h.zones = "read"
AmdProbe(h)     == "amd" \in h.cards
NvmlProbe(h)    == "pynvml" \in h.python /\ h.nvml
IntelProbe(h)   == "intel" \in h.cards
RaplProbe(h)    == h.rapl \in {"locked", "readable"}
HyprProbe(h)    == "hyprctl" \in h.path
DbusProbe(h, s) == s.bus /\ "gdbus" \in h.path /\ ~s.sig
RedfishProbe(h) == h.redfish = "answers"
IpmiProbe(h)    == "ipmitool" \in h.path /\ h.ipmi = "answers"
PerfProbe(h)    == h.paranoid <= 2 /\ "perf" \in h.path /\ h.perfmon
BpfProbe(h)     == h.bpf /\ "bpftrace" \in h.path

\* _host_supported of the actuators.
AsusProbe(h)  == "asusctl" \in h.path /\ h.info = "new"
EppProbe(h)   == h.epp = "writable"
RyzenProbe(h) == "ryzenadj" \in h.path /\ h.sudoers

Probed(h, s) ==
  {a \in Collectors \cup Actuators :
     CASE a = "linux_sysfs"  -> SysfsProbe(h)
       [] a = "arm_thermal"  -> ThermalProbe(h)
       [] a = "amdgpu"       -> AmdProbe(h)
       [] a = "nvidia_nvml"  -> NvmlProbe(h)
       [] a = "intel_i915"   -> IntelProbe(h)
       [] a = "rapl_energy"  -> RaplProbe(h)
       [] a = "hyprctl"      -> HyprProbe(h)
       [] a = "dbus_session" -> DbusProbe(h, s)
       [] a = "redfish"      -> RedfishProbe(h)
       [] a = "ipmi"         -> IpmiProbe(h)
       [] a = "perf_events"  -> PerfProbe(h)
       [] a = "ebpf_sched"   -> BpfProbe(h)
       [] a = "asusctl_fan_curve_bias" -> AsusProbe(h)
       [] a = "epp_shift"    -> EppProbe(h)
       [] OTHER              -> RyzenProbe(h)}

\* What discover() of the two registries returns, with COOLSTEP_ACTUATOR_ENABLE in
\* `enable` and the capabilities c.
Discovered(h, s, enable, c) ==
  {a \in Probed(h, s) : ~Gated(a, c) /\ (a \in Actuators => enable # "false")}

\* The environment of the daemon: the session's, if it was imported.
DaemonSession(h) ==
  IF h.imported THEN h.session
  ELSE [h.session EXCEPT !.sig = FALSE, !.sway = FALSE, !.type = "none",
                         !.desktop = "none"]

\* caps_if_set in the daemon: nothing there calls get_caps, so the gates that name
\* the power managers never close.
DaemonCaps == NoCaps
===============================================================================
