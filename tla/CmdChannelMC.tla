---------------------------- MODULE CmdChannelMC ----------------------------
(***************************************************************************)
(* Instances of CmdChannel: the callers are the pwm backlight, the cfg80211 *)
(* operations (one at a time, under the wiphy mutex) and the address        *)
(* notifier (under rtnl); the command codes are those of esp_cmd.h.         *)
(***************************************************************************)
EXTENDS CmdChannel

CMD_SCAN_REQUEST     == 4
CMD_STA_ASSOC        == 12
CMD_SET_IP_ADDR      == 13
CMD_START_OTA_UPDATE == 29
CMD_SET_BACKLIGHT    == 32

MCCodes   == {CMD_SCAN_REQUEST, CMD_STA_ASSOC, CMD_SET_IP_ADDR,
              CMD_START_OTA_UPDATE, CMD_SET_BACKLIGHT}

\* Each caller's commands: "other" stands for an association and a firmware
\* update that are not asked for at the same time.
MCCodesOf ==
    [c \in Callers |->
        CASE c = "pwm"   -> {CMD_SET_BACKLIGHT}
          [] c = "rtnl"  -> {CMD_SET_IP_ADDR}
          [] c = "wiphy" -> {CMD_SCAN_REQUEST}
          [] c = "other" -> {CMD_STA_ASSOC, CMD_START_OTA_UPDATE}]
=============================================================================
