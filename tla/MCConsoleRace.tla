--------------------------- MODULE MCConsoleRace ----------------------------
(* The calls of the main loop that TLC explores. *)
EXTENDS ConsoleRace

All == {"print_chr", "print_newline", "print_backspace",
        "move_cursor_up", "move_cursor_down", "move_cursor_left",
        "move_cursor_right", "get_cursor_coord", "move_cursor_to",
        "print_unum"}
=============================================================================
