----------------------------- MODULE PhyControl -----------------------------
(***************************************************************************)
(* src/Ethernet/wizchip_conf.c, W5500: wizphy_reset, wizphy_setphyconf and *)
(* wizphy_setphypmode, which configure the PHY and pulse its reset bit     *)
(* under GLOBAL, and wizphy_powerdown and wizphy_powerup, which write      *)
(* PHYCFGR as a whole and take no lock.  Tasks call them side by side.     *)
(***************************************************************************)
EXTENDS Integers

CONSTANTS PhyTasks,        \* tasks that configure the PHY
          PhyModes         \* values of OPMDC but power down; "ALLA" is one

ASSUME PhyAssumption == "ALLA" \in PhyModes /\ "PDOWN" \notin PhyModes

VARIABLES
  phyCfg,          \* PHYCFGR: OPMD, OPMDC, and RST, TRUE when high
  phyHolder,       \* the tasks inside GLOBAL
  phyWork,         \* what each task does, and the value it configures
  phyTold,         \* history: OPMD and OPMDC as the last writer wants them
  phyLeft,         \* history: did a call end, or write, with RST low?
  phyCrossed       \* history: has an unlocked call met another one?

phyHist == <<phyTold, phyLeft, phyCrossed>>
phyVars == <<phyCfg, phyHolder, phyWork, phyHist>>

PhyConf == [sw : BOOLEAN, mode : PhyModes \cup {"PDOWN"}]
PhyCfgs == [sw : BOOLEAN, mode : PhyModes \cup {"PDOWN"}, rst : BOOLEAN]
PhySteps == {"idle", "reset", "conf", "norm", "down", "low", "read_low", "hold",
             "high", "read_high", "power"}

PhyMode(cfg) == [sw |-> cfg.sw, mode |-> cfg.mode]

AtPowerUp == [sw |-> FALSE, mode |-> "ALLA", rst |-> TRUE]

PhyInit ==
  /\ phyCfg = AtPowerUp
  /\ phyHolder = {}
  /\ phyWork = [t \in PhyTasks |-> [at |-> "idle", cfg |-> AtPowerUp]]
  /\ phyTold = PhyMode(phyCfg) /\ phyLeft = FALSE /\ phyCrossed = FALSE

-----------------------------------------------------------------------------
At(t, step) == phyWork[t].at = step
Goto(t, step, cfg) == phyWork' = [phyWork EXCEPT ![t] = [at |-> step, cfg |-> cfg]]
Others(t) == \E u \in PhyTasks \ {t} : ~At(u, "idle")

(* A function that enters without the lock.                                *)
LockedStartUnlocked(t, step) ==
  /\ At(t, "idle")
  /\ phyHolder' = phyHolder \cup {t}
  /\ Goto(t, step, phyCfg)
  /\ phyCrossed' = (phyCrossed \/ \E u \in PhyTasks \ {t} : At(u, "power"))
  /\ UNCHANGED <<phyCfg, phyTold, phyLeft>>

(* GLOBAL is taken and PHYCFGR read.                                       *)
LockedStart(t, step) ==
  /\ At(t, "idle") /\ phyHolder = {}
  /\ phyHolder' = {t}
  /\ Goto(t, step, phyCfg)
  /\ phyCrossed' = (phyCrossed \/ \E u \in PhyTasks \ {t} : At(u, "power"))
  /\ UNCHANGED <<phyCfg, phyTold, phyLeft>>

Leave(t) ==
  /\ Goto(t, "idle", AtPowerUp) /\ phyHolder' = phyHolder \ {t}

(* wizphy_reset keeps what it has read.                                    *)
PhyReset(t) ==
  /\ At(t, "reset")
  /\ Goto(t, "low", phyWork[t].cfg)
  /\ UNCHANGED <<phyCfg, phyHolder, phyHist>>

Configure(t, conf) ==
  LET cfg == [phyWork[t].cfg EXCEPT !.sw = conf.sw, !.mode = conf.mode]
  IN  /\ phyCfg' = cfg /\ phyTold' = conf
      /\ Goto(t, "low", cfg)
      /\ UNCHANGED <<phyHolder, phyLeft, phyCrossed>>

SetPhyConf(t, conf) ==
  /\ At(t, "conf") /\ conf.mode # "PDOWN"
  /\ Configure(t, conf)

(* wizphy_setphypmode, only when the PHY is configured by software.        *)
SetPhyPowerMode(t) ==
  /\ At(t, "norm") \/ At(t, "down")
  /\ IF phyWork[t].cfg.sw
     THEN Configure(t, [sw |-> TRUE,
                        mode |-> IF At(t, "down") THEN "PDOWN" ELSE "ALLA"])
     ELSE Leave(t) /\ UNCHANGED <<phyCfg, phyHist>>

-----------------------------------------------------------------------------
(* wizphy_reset_locked                                                     *)
ResetLow(t) ==
  /\ At(t, "low")
  /\ phyCfg' = [phyWork[t].cfg EXCEPT !.rst = FALSE]
  /\ Goto(t, "read_low", phyWork[t].cfg)
  /\ UNCHANGED <<phyHolder, phyHist>>

(* wizphy_wait_readback: what was written must be read within the time.    *)
PhyReadLow(t) ==
  /\ At(t, "read_low") /\ phyCfg = [phyWork[t].cfg EXCEPT !.rst = FALSE]
  /\ Goto(t, "hold", phyWork[t].cfg)
  /\ UNCHANGED <<phyCfg, phyHolder, phyHist>>

Held(t) ==
  /\ At(t, "hold")
  /\ Goto(t, "high", phyWork[t].cfg)
  /\ UNCHANGED <<phyCfg, phyHolder, phyHist>>

(* Neither readback nor hold may end where no wait function is registered, *)
(* or the controller is slow: the bit stays as it is.                      *)
WaitFails(t) ==
  /\ At(t, "read_low") \/ At(t, "hold") \/ At(t, "read_high")
  /\ phyLeft' = ~phyCfg.rst
  /\ UNCHANGED phyCfg /\ Leave(t)
  /\ UNCHANGED <<phyTold, phyCrossed>>

ResetHigh(t) ==
  /\ At(t, "high")
  /\ phyCfg' = [phyWork[t].cfg EXCEPT !.rst = TRUE] /\ phyLeft' = FALSE
  /\ Goto(t, "read_high", phyWork[t].cfg)
  /\ UNCHANGED <<phyHolder, phyTold, phyCrossed>>

PhyReadHigh(t) ==
  /\ At(t, "read_high") /\ phyCfg = [phyWork[t].cfg EXCEPT !.rst = TRUE]
  /\ UNCHANGED phyCfg /\ Leave(t)
  /\ UNCHANGED phyHist

-----------------------------------------------------------------------------
(* wizphy_powerdown and wizphy_powerup: the mode by itself, then with      *)
(* OPMD; every other bit, RST among them, is written as 0.                 *)
Power(t, mode) ==
  /\ At(t, "idle")
  /\ LET cfg == [sw |-> FALSE, mode |-> mode, rst |-> FALSE]
     IN  phyCfg' = cfg /\ Goto(t, "power", cfg) /\ phyTold' = PhyMode(cfg)
  /\ phyLeft' = TRUE /\ phyCrossed' = (phyCrossed \/ Others(t))
  /\ UNCHANGED phyHolder

PowerSelect(t) ==
  /\ At(t, "power")
  /\ LET cfg == [phyWork[t].cfg EXCEPT !.sw = TRUE]
     IN  phyCfg' = cfg /\ phyTold' = PhyMode(cfg)
  /\ phyLeft' = TRUE /\ Goto(t, "idle", AtPowerUp)
  /\ UNCHANGED <<phyHolder, phyCrossed>>

PhyNext == \E t \in PhyTasks :
  \/ \E step \in {"reset", "conf", "norm", "down"} : LockedStart(t, step)
  \/ PhyReset(t) \/ \E conf \in PhyConf : SetPhyConf(t, conf)
  \/ SetPhyPowerMode(t)
  \/ ResetLow(t) \/ PhyReadLow(t) \/ Held(t) \/ WaitFails(t)
  \/ ResetHigh(t) \/ PhyReadHigh(t)
  \/ \E mode \in {"ALLA", "PDOWN"} : Power(t, mode)
  \/ PowerSelect(t)

PhySpec == PhyInit /\ [][PhyNext]_phyVars

-----------------------------------------------------------------------------
PhyTypeOK ==
  /\ phyCfg \in PhyCfgs /\ phyHolder \subseteq PhyTasks
  /\ phyWork \in [PhyTasks -> [at : PhySteps, cfg : PhyCfgs]]
  /\ phyTold \in PhyConf /\ {phyLeft, phyCrossed} \subseteq BOOLEAN

(* When nobody is at work the PHY is out of reset and runs in the mode it  *)
(* was last told to, whatever resets came in between; but for a call that  *)
(* failed and the power calls, which leave RST low, and for a power call   *)
(* that met another one, whose mode the reset under way writes over        *)
(* (wizphy_reset_locked, wizphy_powerdown).                                *)
PhyObeys ==
  (\A t \in PhyTasks : At(t, "idle")) =>
    /\ phyLeft \/ phyCfg.rst
    /\ phyCrossed \/ PhyMode(phyCfg) = phyTold
=============================================================================
