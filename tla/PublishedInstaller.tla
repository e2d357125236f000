---- MODULE PublishedInstaller ----
(***************************************************************************)
(* InstallMusic.ps1, which TabletMusic/publish_installer.py writes, on top *)
(* of Install.ps1: Verify, then Restore when a tab is installed, then      *)
(* Install, then Verify, each in turn and none after one that throws.  The *)
(* user may also run Install.ps1 directly, and other tools may change a    *)
(* file between two of its actions.                                        *)
(***************************************************************************)
EXTENDS Installer

VARIABLE upgrade    \* the version being published and the action that is next

publishedVars == <<vars, upgrade>>

NoUpgrade == [version |-> "none", next |-> "none"]

PublishedInit == Init /\ upgrade = NoUpgrade

(* Bug variant of FirstAction: the old tab is upgraded in place.            *)
InPlace == "Install"

(* Whether a tab is installed is looked up once, before everything else.    *)
FirstAction == IF Installed THEN "Restore" ELSE "Install"

Publish(v) ==
  /\ pc = "idle" /\ upgrade = NoUpgrade
  /\ Verified
  /\ Len(backup) < MaxInstalls
  /\ upgrade' = [version |-> v, next |-> FirstAction]
  /\ UNCHANGED vars

PublishRestore ==
  /\ upgrade.next = "Restore"
  /\ Restore
  /\ UNCHANGED upgrade

PublishInstall ==
  /\ upgrade.next = "Install"
  /\ Install(upgrade.version)
  /\ UNCHANGED upgrade

(* The action that is next throws before it changes anything, or on finding *)
(* a leftover; the rest is not run.                                         *)
PublishRefused ==
  /\ pc = "idle"
  /\ \/ upgrade.next = "Restore" /\ RestoreRefused
     \/ /\ upgrade.next = "Install" /\ ~Supported(upgrade.version)
        /\ UNCHANGED vars
     \/ upgrade.next = "Install" /\ InstallRefusedByLeftover(upgrade.version)
  /\ upgrade' = NoUpgrade

(* A Restore that gets to its end leads on to Install.                      *)
Restored ==
  /\ RestoreEnds
  /\ upgrade' = IF upgrade = NoUpgrade THEN upgrade ELSE [upgrade EXCEPT !.next = "Install"]

(* Every other end of a script is the end of the published one: Install has *)
(* finished, an exception passes through both, or their process stops.      *)
ScriptStep ==
  /\ \/ Copy \/ Swap \/ Finish
     \/ UndoSkip \/ UndoPending \/ UndoCopy \/ UndoSwap \/ UndoRemove \/ UndoEnds
     \/ RestoreCopy \/ RestoreSwap \/ RestoreRemove
     \/ Crash
  /\ upgrade' = IF pc' = "idle" THEN NoUpgrade ELSE upgrade

Direct ==
  /\ upgrade = NoUpgrade
  /\ \/ \E v \in Version : Install(v)
     \/ \E v \in Version : InstallRefusedByLeftover(v)
     \/ Restore
     \/ RestoreRefused
  /\ UNCHANGED upgrade

PublishedNext ==
  \/ \E v \in Version : Publish(v)
  \/ PublishRestore \/ PublishInstall \/ PublishRefused
  \/ Restored \/ ScriptStep \/ Direct
  \/ Modify /\ UNCHANGED upgrade

PublishedSpec == PublishedInit /\ [][PublishedNext]_publishedVars

-----------------------------------------------------------------------------
(* publish_installer.py:123: "The manifest merger will not overwrite tablet *)
(* resources whose hashes it does not recognise, including ones an earlier  *)
(* build of this package installed, so an upgrade restores first."  Unless  *)
(* somebody else changes a file, a published upgrade is refused at neither  *)
(* of its actions, whichever versions were installed before, in whatever    *)
(* way, and although the merger takes neither version for a baseline of the *)
(* other.                                                                   *)
UpgradeGoesThrough ==
  pc = "idle" /\ mods = 0 /\ faults = 0 =>
    /\ upgrade.next = "Restore" => RestoreAccepts
    /\ upgrade.next = "Install" => Supported(upgrade.version)
====
