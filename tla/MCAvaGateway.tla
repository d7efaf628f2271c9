---------------------------- MODULE MCAvaGateway ----------------------------
(* A small instance of AvaGateway: messages that tell each kind of fact and *)
(* hit each word list, alone and together.                                  *)
EXTENDS AvaGateway

Says(words, facts) == [words |-> words, tail |-> {}, facts |-> facts]

MCMessages ==
  { Says({"trouble", "driver"}, {}),                  \* a driver issue
    Says({}, {"manufacturer"}),
    Says({}, {"model", "operating_system"}),
    Says({"trouble"}, {"intermittent"}),              \* it cuts out
    Says({"trouble", "driver"}, {"recent_change"}),   \* since a new driver
    Says({"trouble", "hdmi"}, Roles),                 \* the whole signal path
    Says({"hdmi"}, {"signal_mode"}),                  \* HDR
    [words |-> {"design"}, tail |-> {"trouble"}, facts |-> {"no_audio"}] }

MCAnswerWords == {{"trouble", "hdmi"}}
=============================================================================
