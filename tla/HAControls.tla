------------------------------ MODULE HAControls ------------------------------
(***************************************************************************)
(* What the popup of firmware/src/ui/ha_control_modal.cpp sends for each   *)
(* domain, and what the command endpoint of bridge/main.py lets through.   *)
(***************************************************************************)

\* isOn of the toggles
isOn(state) == state \in {"on", "home"}

\* onToggleClick(): the service that the one button of a toggle sends.
ToggleService(domain, state) ==
  IF domain = "lock" THEN IF state = "locked" THEN "unlock" ELSE "lock"
                     ELSE IF isOn(state) THEN "turn_off" ELSE "turn_on"

\* The services behind the buttons of each body.  Those for presets have no handler.
ClimateServices == {"set_temperature", "set_hvac_mode"}
MediaServices   == {"media_play_pause", "volume_up", "volume_down"}
CoverServices   == {"open_cover", "stop_cover", "close_cover"}

Services(domain, state) ==
  CASE domain = "climate"      -> ClimateServices
    [] domain = "media_player" -> MediaServices
    [] domain = "cover"        -> CoverServices
    [] OTHER                   -> {ToggleService(domain, state)}

-----------------------------------------------------------------------------

ControllableDomains ==
  {"light", "switch", "fan", "lock", "cover", "climate", "media_player"}

\* ha_command(): "security boundary for device control"
ALLOWED_SERVICES == [domain \in ControllableDomains |->
  CASE domain \in {"light", "switch", "fan"} -> {"turn_on", "turn_off", "toggle"}
    [] domain = "lock"    -> {"lock", "unlock"}
    [] domain = "cover"   -> {"open_cover", "close_cover", "stop_cover"}
    [] domain = "climate" -> {"set_temperature", "set_hvac_mode", "set_preset_mode"}
    [] domain = "media_player" -> {"media_play_pause", "volume_up", "volume_down", "volume_set"}]
=============================================================================
