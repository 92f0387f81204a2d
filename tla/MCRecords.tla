----------------------------- MODULE MCRecords -----------------------------
(* Formats and inputs for RecordStream's run.                              *)
EXTENDS RecordStream

Lines == [continuation |-> "none", comments |-> FALSE, blank |-> FALSE, regions |-> {}]

Of(format, alphabet, longest) ==
  [format |-> format, alphabet |-> alphabet, longest |-> longest]

Checked ==
  {Of([Lines EXCEPT !.continuation = "ESC"], {"a", "LF", "CR", "ESC"}, 6),
   Of([Lines EXCEPT !.continuation = "+", !.comments = TRUE], {"a", "LF", "+", "#"}, 5),
   Of([Lines EXCEPT !.continuation = "ESC", !.comments = TRUE, !.blank = TRUE],
      {"a", "LF", "ESC", "#"}, 6),
   Of([Lines EXCEPT !.blank = TRUE], {"a", "LF", "CR"}, 7),
   Of([Lines EXCEPT !.regions = {<<"<", ">">>}], {"a", "LF", "<", ">"}, 6),
   Of([Lines EXCEPT !.regions = {<<"<", ">">>, <<"q", "q">>}], {"LF", "<", ">", "q"}, 5)}
=============================================================================
