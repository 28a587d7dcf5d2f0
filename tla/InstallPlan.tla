------------------------------ MODULE InstallPlan ------------------------------
(* compat/install_plan.py: what `coolstep compat --install` recommends and   *)
(* promises for a host, the user who follows it package by package, and the  *)
(* daemon that is started on the host as it then is.                         *)
EXTENDS Platform

CONSTANTS
  Hosts,     \* the hosts to begin with
  MaxFollow  \* BOUND: recommendations followed

\* NVML counts no device without NVIDIA's card and module, a Hyprland session has its
\* socket.
Real(h) ==
  /\ h.nvml => "nvidia" \in h.cards /\ "nvidia" \in h.mods
  /\ h.session.sig => h.socket

ASSUME HostAssumption == \A h \in Hosts : HostOK(h) /\ Real(h)

VARIABLES
  host,      \* the machine
  asked,     \* --facet: "auto", "desktop" or "server"
  plan,      \* the last plan printed
  first,     \* history: the first one
  enable,    \* COOLSTEP_ACTUATOR_ENABLE of the daemon
  followed,  \* history: the packages installed because a plan said so
  started    \* the adapters of the running daemon

planVars == <<host, asked, plan, first, enable, followed, started>>

Down == {"down"}

\* Packages, those of pip included.
Packages ==
  {"python3", "python3-pip", "lm-sensors", "nvidia-utils", "pynvml", "intel-gpu-tools",
   "ipmitool", "perf", "bpftrace", "bcc", "asusctl", "thinkfan", "nbfc", "ryzenadj", "ppd"}

\* Packages whose presence detect.py does not see.
Unseen == {"python3", "python3-pip", "lm-sensors", "nvidia-utils", "intel-gpu-tools"}

\* _PKG and _pkg: the clan's package manager, the AUR or pip has it.
Packaged(p, clan) ==
  CASE p = "pynvml" -> TRUE
    [] p # "pynvml" /\ clan = "unknown" -> FALSE
    [] p \in {"asusctl", "ryzenadj"} -> clan \in {"arch", "nixos"}
    [] p = "nbfc" -> clan = "arch"
    [] p \in {"python3-pip", "nvidia-utils"} -> clan # "nixos"
    [] OTHER -> TRUE

ServerLike(c) == c.virtual \/ "ipmi" \in c.mods \/ ~c.profile

\* What the sections of caps_to_install_plan look for.
Wants(c) ==
  {p \in Packages :
     CASE p = "nvidia-utils"    -> "nvidia" \in c.gpus
       [] p = "pynvml"          -> "nvidia" \in c.gpus /\ "pynvml" \notin c.python
       [] p = "intel-gpu-tools" -> "intel" \in c.gpus
       [] p = "ipmitool"        -> ServerLike(c) /\ "ipmitool" \notin c.path
       [] p = "perf"            -> "perf" \notin c.path
       [] p \in {"bpftrace", "bcc"} -> "bpftrace" \notin c.path /\ "bcc" \notin c.python
       [] p = "asusctl"         ->
            ("amd" \in c.gpus \/ "k10temp" \in c.hwmon) /\ "asusctl" \notin c.path
       [] p \in {"thinkfan", "nbfc"} -> ~HasFanControl(c)
       [] p = "ryzenadj"        -> c.cpu = "amd" /\ "ryzenadj" \notin c.path
       [] p = "ppd"             -> c.active = {}
       [] OTHER                 -> TRUE}

PromisedCollectors(c) ==
  {a \in Collectors :
     CASE a = "arm_thermal"  -> c.zones
       [] a = "amdgpu"       -> "amd" \in c.gpus
       [] a = "nvidia_nvml"  -> "nvidia" \in c.gpus /\ "pynvml" \in c.python
       [] a = "intel_i915"   -> "intel" \in c.gpus
       [] a = "rapl_energy"  -> c.rapl /\ c.raplRead
       [] a = "hyprctl"      -> "hyprctl" \in c.path
       [] a = "dbus_session" -> c.compositor \in {"kwin", "mutter"} /\ c.bus
       [] a = "redfish"      -> c.redfish
       [] a = "ipmi"         -> "ipmitool" \in c.path
       [] a = "perf_events"  -> "perf" \in c.path /\ c.paranoid <= 2
       [] a = "ebpf_sched"   -> "bpftrace" \in c.path \/ "bcc" \in c.python
       [] OTHER              -> TRUE}

PromisedActuators(c) ==
  {a \in Actuators :
     CASE a = "asusctl_fan_curve_bias" -> "asusctl" \in c.path /\ c.version
       [] a = "epp_shift"              -> c.eppWrite
       [] OTHER                        -> "ryzenadj" \in c.path}

\* _pointer_conditions: by the facet of the capabilities, whatever was asked for.
Pointers(c) ==
  LET desktop == Facet(c) = "desktop" IN
  {p \in {"asusctl", "ryzenadj", "nct6687", "perf_paranoid", "rapl_perm", "bpftrace",
          "ipmitool_server"} :
     CASE p = "asusctl"  -> desktop /\ "asus-ec" \in c.hwmon /\ "asusctl" \notin c.path
       [] p = "ryzenadj" -> desktop /\ c.cpu = "amd" /\ "ryzenadj" \notin c.path
       [] p = "nct6687"  -> /\ desktop /\ {"nct6798", "asus-ec"} \cap c.hwmon = {}
                            /\ c.cpu \in {"amd", "intel"} /\ "asusctl" \notin c.path
                            /\ "dell_smm" \notin c.mods /\ ~c.profile
       [] p = "perf_paranoid" -> c.paranoid > 2 /\ "perf" \in c.path
       [] p = "rapl_perm"     -> c.rapl /\ ~c.raplRead
       [] p = "bpftrace"      -> "bpftrace" \notin c.path /\ "bcc" \notin c.python
       [] OTHER -> Facet(c) = "server" /\ "ipmitool" \notin c.path}

\* Suggested COOLSTEP_ACTUATOR_ENABLE.
Suggested(c, target) ==
  IF target = "server" \/ c.compositor = "hyprland" THEN "false" ELSE "unset"

PlanOf(c, target) ==
  LET facet == IF target = "auto" THEN Facet(c) ELSE target IN
  [facet    |-> facet,
   install  |-> {p \in Wants(c) : Packaged(p, c.clan)},
   promised |-> PromisedCollectors(c) \cup PromisedActuators(c),
   enable   |-> Suggested(c, facet),
   pointers |-> Pointers(c)]

NoPlan == [facet |-> "none", install |-> {}, promised |-> {}, enable |-> "unset",
           pointers |-> {}]

InstallInit ==
  /\ host \in Hosts /\ asked \in {"auto", "desktop", "server"}
  /\ plan = NoPlan /\ first = NoPlan
  /\ enable = "unset" /\ followed = {} /\ started = Down

\* `coolstep compat --install`, in the user's session.
Compat ==
  /\ plan' = PlanOf(Caps(host, host.session), asked)
  /\ first' = IF first = NoPlan THEN plan' ELSE first
  /\ UNCHANGED <<host, asked, enable, followed, started>>

\* The user installs a package of the plan.
Follow(p) ==
  /\ p \in plan.install \ (Unseen \cup followed) /\ Cardinality(followed) < MaxFollow
  /\ followed' = followed \cup {p}
  /\ host' = CASE p \in {"pynvml", "bcc"} -> [host EXCEPT !.python = @ \cup {p}]
               [] p = "ppd"               -> [host EXCEPT !.active = @ \cup {p}]
               [] OTHER                   -> [host EXCEPT !.path = @ \cup {p}]
  /\ UNCHANGED <<asked, plan, first, enable, started>>

\* The user sets the environment the plan suggests, or the value that arms.
Configure(e) ==
  /\ plan # NoPlan /\ enable = "unset" /\ e \in {plan.enable, "true"} \ {enable}
  /\ enable' = e
  /\ UNCHANGED <<host, asked, plan, first, followed, started>>

\* A daemon starts; its adapters stay those of its start.
StartDaemon ==
  /\ plan # NoPlan
  /\ started' = Discovered(host, DaemonSession(host), enable, DaemonCaps)
  /\ UNCHANGED <<host, asked, plan, first, enable, followed>>

InstallNext ==
  \/ Compat \/ StartDaemon
  \/ \E p \in Packages : Follow(p)
  \/ \E e \in {"unset", "false", "true"} : Configure(e)

-----------------------------------------------------------------------------
InstallTypeOK ==
  /\ HostOK(host) /\ asked \in {"auto", "desktop", "server"}
  /\ {plan, first} \subseteq
       [facet : {"none", "desktop", "server", "ambiguous"}, install : SUBSET Packages,
        promised : SUBSET (Collectors \cup Actuators), enable : {"unset", "false"},
        pointers : SUBSET {"asusctl", "ryzenadj", "nct6687", "perf_paranoid", "rapl_perm",
                           "bpftrace", "ipmitool_server"}]
  /\ enable \in {"unset", "false", "true"} /\ followed \subseteq Packages
  /\ started = Down \/ started \subseteq Collectors \cup Actuators

\* What the host is that its capabilities do not record: a vendor's module without its
\* card or its card under another driver, services that are named and do not answer,
\* rights nobody asked for.
Unrecorded(h) ==
  {a \in Collectors \cup Actuators :
     CASE a = "arm_thermal"  -> h.zones = "mute"
       [] a = "amdgpu"       ->
            "amd" \notin h.cards /\ ("amd-vfio" \in h.cards \/ "amdgpu" \in h.mods)
       [] a = "nvidia_nvml"  -> ~h.nvml
       [] a = "intel_i915"   -> "intel" \notin h.cards /\ "i915" \in h.mods
       [] a = "dbus_session" -> "gdbus" \notin h.path
       [] a = "redfish"      -> h.redfish \in {"url", "dead"}
       [] a = "ipmi"         -> h.ipmi \in {"none", "dead"}
       [] a = "perf_events"  -> ~h.perfmon
       [] a = "ebpf_sched"   -> ~h.bpf
       [] a = "asusctl_fan_curve_bias" -> h.info \in {"old", "fails"}
       [] a = "ryzenadj_cap" -> ~h.sudoers
       [] OTHER              -> FALSE}

\* Where the plan and a probe read the same capability and differ: bcc is enough for the
\* plan to announce ebpf_sched, which runs nothing but bpftrace.
Contradicted(c) ==
  {a \in {"ebpf_sched"} : "bcc" \in c.python /\ "bpftrace" \notin c.path}

\* What the plan says of a host holds for the daemon started on it (the check marks of
\* the summary): an adapter that was ruled out stays out, but for counters that are
\* registered though locked, desktops only the bus knows and an asusctl newer than its
\* package; all that was announced runs, but for the adapters Unrecorded and
\* Contradicted name and the actuators the user turned off; and the daemon would run the
\* same collectors had somebody asked for the capabilities first (they are a "fast
\* path", compat/__init__.py), the bus collector of a Hyprland host excepted.
PlanHolds ==
  [][started' # started /\ plan = PlanOf(Caps(host, host.session), asked) =>
       /\ started' \ plan.promised \subseteq
            {"dbus_session"} \cup (IF host.rapl = "locked" THEN {"rapl_energy"} ELSE {})
              \cup (IF host.package = "old" THEN {"asusctl_fan_curve_bias"} ELSE {})
       /\ plan.promised \ started' \subseteq
            (IF enable = "false" THEN Actuators ELSE {})
              \cup Unrecorded(host) \cup Contradicted(Caps(host, host.session))
       /\ LET s == DaemonSession(host) IN
            (started' \ Discovered(host, s, enable, Caps(host, s))) \cap Collectors
              \subseteq {"dbus_session"}]_planVars

\* To follow the plan, package by package and in any order, only improves it: what was
\* installed is not asked for again, nothing new is asked for, no adapter is lost, and
\* the deployment target stays.  There is one way for it to change, and the code has it:
\* a user who left the target to `auto` installs the ipmitool that is offered to any
\* host without a platform profile, and the next plan takes the host for a server.
AdviceSettles ==
  plan # NoPlan /\ plan = PlanOf(Caps(host, host.session), asked) =>
    /\ plan.install \cap followed = {}
    /\ plan.install \subseteq first.install
    /\ first.promised \subseteq plan.promised
    /\ plan.facet # first.facet =>
         /\ "ipmitool" \in followed /\ asked = "auto"
         /\ first.facet \in {"desktop", "ambiguous"} /\ plan.facet = "server"

\* What `coolstep compat` announces is what the daemon loads, and its advice can be
\* followed to the end, but for the named exceptions (caps_to_install_plan beside every
\* adapter's probe).  Two of them are contradictions of the plan with itself, reached by
\* taking its advice: bcc without bpftrace, and ipmitool on a desktop.
PlanSound == PlanHolds /\ []AdviceSettles

\* "epp_shift.make() cedes when caps.power_profiles_daemon_active" and
\* "ryzenadj_cap.make() cedes when caps.tlp_active" (docs/interference-matrix.md, S03
\* and S04): on a host as the daemon found it, no actuator shares its knob.
CedesToOwner ==
  followed = {} =>
    /\ "epp_shift" \in started => host.active = {}
    /\ "ryzenadj_cap" \in started => "tlp" \notin host.active
===============================================================================
