CONSTANTS
    None = None
    Tasks = {t1, t2}
    Sessions = {"grbl", "simple", "smoothie", "marlin"}
    Operations = {"home", "move_to", "jog", "set_focus_power_off", "read_settings", "write_unit", "read_wcs_offsets", "run_probe_cycle", "clear_alarm"}
    Reports = {{}, {"MPos"}, {"WPos"}, {"MPos", "WPos"}, {"MPos", "WCO"}, {"WPos", "WCO"}}
    Faults = {"alarm", "code", "reject", "late", "link", "cancel"}
    MaxCalls = 2
    MaxFaults = 1
SPECIFICATION Spec
INVARIANTS
    HomeRestoresWcs
    PositionsInMm
CHECK_DEADLOCK FALSE
