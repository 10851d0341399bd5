------------------------------ MODULE GnssControl ------------------------------
(***************************************************************************)
(* Power and configuration of the GNSS engine: the HAL service enables and *)
(* disables the engine through the one control client, and passes on the   *)
(* framework's settings, of which some live in the processor's copy of     *)
(* gps.conf, some in the modem, most in both.  Settings made before the    *)
(* first callback wait in mPendingConfig.  A restarted modem has forgotten *)
(* everything the adapter does not send again.                             *)
(***************************************************************************)
EXTENDS Naturals, Sequences, Functions

CONSTANTS
    Injected,           \* settings the modem takes only with AGPS_CONFIG_INJECT
    Protocols,          \* settings the modem always takes (LPPe)
    Local,              \* settings the processor keeps for itself
    AGPS_CONFIG_INJECT,
    CONTROL_MAX,        \* enables and settings by the framework (a bound)
    WAITING_MAX,        \* messages waiting when the HAL calls (a bound)
    UNHEARD_MAX,        \* commands the modem refuses (a bound)
    OUTAGES_MAX         \* restarts of the modem (a bound)

VARIABLES
    ctl,        \* the HAL's client, the adapter and its queue
    modem,      \* what the modem has been told
    want,       \* what the framework has asked for
    calls, outages, unheard

controlVars == <<ctl, modem, want, calls, outages, unheard>>

Items == Injected \cup Protocols \cup Local \cup {"gpsLock", "server", "suplMode"}
LOCK_NONE == 0
NOHOST == 0
UNKNOWN == 9            \* nobody has told the modem (since it started)
Values(item) == IF item \in {"server", "suplVersion"} THEN {1, 2} ELSE {0, 1}

(* gps.conf's codes: the SUPL version has its own, the others are the API's. *)
toConf(item, v) == IF item = "suplVersion" THEN <<65536, 131072, 131074>>[v] ELSE v
fromConf(item, w) ==
    IF item # "suplVersion" THEN w
    ELSE CASE w = 131072 -> 2 [] w = 131074 -> 3 [] OTHER -> 1

ASSUME ControlAssumption ==
    /\ AGPS_CONFIG_INJECT \in BOOLEAN /\ Injected \cap Protocols = {}
    /\ (Injected \cup Protocols) \cap {"gpsLock", "server", "suplMode"} = {}

GPS_CONF == [i \in Items |-> IF i = "suplVersion" THEN 65536 ELSE 0]

ControlInit ==
    /\ ctl = [queue |-> <<[kind |-> "SetConfig"]>>, conf |-> GPS_CONF,
              mServerUrl |-> NOHOST, mPowerVoteId |-> 0, mSessionIdCounter |-> 0,
              api |-> FALSE, mPendingConfig |-> << >>, mConfig |-> << >>,
              mEnabled |-> FALSE, session |-> 0, capabilities |-> UNKNOWN,
              refused |-> {}]   \* settings whose last command the modem refused
    /\ modem = [up |-> TRUE, told |-> [i \in Items |-> UNKNOWN]]
    /\ want = << >>
    /\ calls = 0 /\ outages = 0 /\ unheard = 0

-----------------------------------------------------------------------------
Post(t, m) == [t EXCEPT !.queue = Append(@, m)]
First == Head(ctl.queue)
Rest(t) == [t EXCEPT !.queue = Tail(@)]
Takes(kind) == ctl.queue # << >> /\ First.kind = kind

(* Commands sent to the modem with one message: those it refuses are a       *)
(* fault, and while it is down it hears none of them.                        *)
Send(t, values, refuses) ==
    /\ refuses \subseteq DOMAIN values
    /\ refuses # {} => modem.up /\ unheard < UNHEARD_MAX
    /\ unheard' = unheard + IF refuses = {} THEN 0 ELSE 1
    /\ LET heard == IF modem.up THEN DOMAIN values \ refuses ELSE {}
       IN  /\ modem' = [modem EXCEPT !.told = [i \in Items |->
                            IF i \in heard THEN values[i] ELSE @[i]]]
           /\ ctl' = [t EXCEPT !.refused = (@ \ heard) \cup (DOMAIN values \ heard)]

AtMostOne(S) == {{}} \cup {{x} : x \in S}

enable ==
    /\ Takes("Enable")
    /\ \E refuses \in AtMostOne({"gpsLock"}) :
        IF ctl.mPowerVoteId > 0 THEN Send(Rest(ctl), << >>, refuses)
        ELSE Send([Rest(ctl) EXCEPT !.mPowerVoteId = First.id],
                  [i \in {"gpsLock"} |-> LOCK_NONE], refuses)
    /\ UNCHANGED <<want, calls, outages>>

disable ==
    /\ Takes("Disable")
    /\ \E refuses \in AtMostOne({"gpsLock"}) :
        IF ctl.mPowerVoteId # First.id THEN Send(Rest(ctl), << >>, refuses)
        ELSE Send([Rest(ctl) EXCEPT !.mPowerVoteId = 0],
                  [i \in {"gpsLock"} |-> ctl.conf["gpsLock"]], refuses)
    /\ UNCHANGED <<want, calls, outages>>

(* A defect: a restarted modem is not told the LPPe settings.                 *)
setConfig_WithoutLppe ==
    /\ Takes("SetConfig")
    /\ LET sent == IF AGPS_CONFIG_INJECT THEN Injected ELSE {}
       IN  \E refuses \in AtMostOne(sent) :
            Send(Rest(ctl), [i \in sent |-> fromConf(i, ctl.conf[i])], refuses)
    /\ UNCHANGED <<want, calls, outages>>

(* setConfigCommand: what every start of the modem is told.                  *)
setConfig ==
    /\ Takes("SetConfig")
    /\ LET sent == Protocols \cup IF AGPS_CONFIG_INJECT THEN Injected ELSE {}
       IN  \E refuses \in AtMostOne(sent) :
            Send(Rest(ctl), [i \in sent |-> fromConf(i, ctl.conf[i])], refuses)
    /\ UNCHANGED <<want, calls, outages>>

(* A defect: a lock is applied at once, even while the engine is enabled.     *)
Sent_LocksAtOnce(config, item) ==
    CASE item = "gpsLock" -> TRUE
      [] item \in Injected -> AGPS_CONFIG_INJECT /\ toConf(item, config[item]) # ctl.conf[item]
      [] item \in Protocols -> toConf(item, config[item]) # ctl.conf[item]
      [] item = "server" -> AGPS_CONFIG_INJECT /\ config[item] \notin {NOHOST, ctl.mServerUrl}
      [] OTHER -> FALSE

(* gnssUpdateConfigCommand: a setting that gps.conf already holds is not     *)
(* sent, a host that is missing or already known neither; the copy changes   *)
(* whether or not the modem accepts.                                         *)
Sent(config, item) ==
    CASE item = "gpsLock" -> ctl.mPowerVoteId = 0
      [] item \in Injected -> AGPS_CONFIG_INJECT /\ toConf(item, config[item]) # ctl.conf[item]
      [] item \in Protocols -> toConf(item, config[item]) # ctl.conf[item]
      [] item = "server" -> AGPS_CONFIG_INJECT /\ config[item] \notin {NOHOST, ctl.mServerUrl}
      [] OTHER -> FALSE

Kept(config, item) == item \notin Injected \cup {"server"} \/ Sent(config, item)

gnssUpdateConfig ==
    /\ Takes("Config")
    /\ LET config == First.config
           sent == {i \in DOMAIN config : Sent(config, i)}
           kept == {i \in DOMAIN config : Kept(config, i)}
           conf == [i \in Items |-> IF i \in kept THEN toConf(i, config[i]) ELSE ctl.conf[i]]
           broadcast == conf["suplMode"] # ctl.conf["suplMode"]
       IN  \E refuses \in AtMostOne(sent) :
            Send([Rest(ctl) EXCEPT !.conf = conf, !.mServerUrl = conf["server"],
                                   !.capabilities = IF broadcast /\ ctl.api
                                                    THEN conf["suplMode"] ELSE @],
                 Restrict(config, sent), refuses)
    /\ UNCHANGED <<want, calls, outages>>

requestCapabilities ==
    /\ Takes("Capabilities")
    /\ ctl' = [Rest(ctl) EXCEPT !.capabilities = ctl.conf["suplMode"]]
    /\ UNCHANGED <<modem, want, calls, outages, unheard>>

-----------------------------------------------------------------------------
(* The modem's restarts                                                      *)

ModemDown ==
    /\ modem.up /\ outages < OUTAGES_MAX
    /\ modem' = [up |-> FALSE, told |-> [i \in Items |-> UNKNOWN]]
    /\ outages' = outages + 1
    /\ UNCHANGED <<ctl, want, calls, unheard>>

ModemUp ==
    /\ ~modem.up
    /\ modem' = [modem EXCEPT !.up = TRUE]
    /\ ctl' = Post(ctl, [kind |-> "SetConfig"])
    /\ UNCHANGED <<want, calls, outages, unheard>>

-----------------------------------------------------------------------------
(* The HAL service                                                           *)

Calls ==
    /\ calls < CONTROL_MAX /\ Len(ctl.queue) < WAITING_MAX
    /\ calls' = calls + 1
    /\ UNCHANGED <<modem, outages, unheard>>

(* LocationControlAPI only passes on to the adapter's queue.                 *)
apiGnssUpdateConfig(t, config) == Post(t, [kind |-> "Config", config |-> config])
apiEnable(t, id) == Post([t EXCEPT !.mSessionIdCounter = id], [kind |-> "Enable", id |-> id])
apiDisable(t, id) == Post(t, [kind |-> "Disable", id |-> id])

locAPIGnssUpdateConfig(t, config) ==
    IF config = t.mConfig \/ config = << >> THEN t
    ELSE apiGnssUpdateConfig([t EXCEPT !.mConfig = config], config)

(* getApi: the first callback creates the client, which asks for the         *)
(* capabilities and is given what has been waiting.                          *)
getApi(t) ==
    IF t.api THEN t
    ELSE locAPIGnssUpdateConfig(Post([t EXCEPT !.api = TRUE], [kind |-> "Capabilities"]),
                                t.mPendingConfig)

locAPIEnable(t) ==
    IF t.mEnabled THEN t
    ELSE LET id == t.mSessionIdCounter + 1
         IN  apiEnable([t EXCEPT !.session = id, !.mEnabled = TRUE], id)

locAPIDisable(t) == apiDisable([t EXCEPT !.mEnabled = FALSE], t.session)

setCallback ==
    /\ Calls
    /\ ctl' = locAPIEnable(getApi(ctl))
    /\ UNCHANGED want

cleanup ==
    /\ Calls
    /\ ctl.mEnabled
    /\ ctl' = locAPIDisable(ctl)
    /\ UNCHANGED want

(* GnssConfiguration and AGnss: a call makes one setting.                    *)
Setters == UNION {{[i \in {item} |-> v] : v \in Values(item)} : item \in Items}

(* Before there is a client the settings are merged, but the server's host   *)
(* name only replaces an earlier one, so that it is never kept.              *)
Merged(pending, config) ==
    [i \in DOMAIN pending \cup DOMAIN config |->
        IF i \notin DOMAIN config THEN pending[i]
        ELSE IF i = "server" THEN NOHOST ELSE config[i]]

updateConfiguration ==
    /\ Calls
    /\ \E config \in Setters :
        /\ ctl' = IF ctl.api THEN locAPIGnssUpdateConfig(ctl, config)
                  ELSE [ctl EXCEPT !.mPendingConfig = Merged(@, config)]
        /\ want' = IF "server" \in DOMAIN config /\ ~ctl.api THEN want
                   ELSE [i \in DOMAIN want \cup DOMAIN config |->
                            IF i \in DOMAIN config THEN config[i] ELSE want[i]]

ControlHandler ==
    enable \/ disable \/ setConfig \/ gnssUpdateConfig \/ requestCapabilities

ControlNext ==
    \/ ControlHandler
    \/ ModemDown \/ ModemUp
    \/ setCallback \/ cleanup \/ updateConfiguration

-----------------------------------------------------------------------------
(* When the adapter has nothing left to do, the engine is powered exactly    *)
(* when the HAL's client has it enabled, by the vote of that client's        *)
(* session, and the modem is unlocked while it is and locked as the          *)
(* framework asked last while it is not: a lock set while enabled waits for  *)
(* the disable, an enable never loses it.  Nothing is said of the lock when  *)
(* the modem refused the last one or has restarted since.                    *)
PowerAgrees ==
    ctl.queue = << >> =>
        /\ ctl.mPowerVoteId = IF ctl.mEnabled THEN ctl.session ELSE 0
        /\ ctl.api /\ modem.told["gpsLock"] # UNKNOWN /\ "gpsLock" \notin ctl.refused
            => modem.told["gpsLock"] =
                IF ctl.mEnabled \/ "gpsLock" \notin DOMAIN want THEN LOCK_NONE ELSE want["gpsLock"]

(* When the adapter has nothing left to do and the modem is up, each setting *)
(* has the value the framework set last: in gps.conf, in the modem where the *)
(* modem takes it (again after every restart), and in the capabilities the   *)
(* client was told.  A setting the modem refused is left out, since the copy *)
(* keeps it from being sent again, and so is the server after a restart, to  *)
(* which only a new host is sent.                                            *)
SettingsArrive ==
    ctl.queue = << >> /\ ctl.api /\ modem.up /\ AGPS_CONFIG_INJECT =>
        /\ \A i \in DOMAIN want :
            /\ fromConf(i, ctl.conf[i]) = want[i]
            /\ i \in (Injected \cup Protocols) \ ctl.refused => modem.told[i] = want[i]
            /\ i = "server" /\ i \notin ctl.refused => modem.told[i] \in {want[i], UNKNOWN}
        /\ ctl.capabilities = ctl.conf["suplMode"]
=============================================================================
