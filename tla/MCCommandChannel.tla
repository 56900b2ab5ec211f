---------------------------- MODULE MCCommandChannel ----------------------------
\* A chat shared with a sibling bot, and another chat.
EXTENDS CommandChannel

MCTraffic ==
  { [ours |-> TRUE, command |-> TRUE, to |-> "us"],
    [ours |-> TRUE, command |-> TRUE, to |-> "another"],
    [ours |-> FALSE, command |-> TRUE, to |-> "nobody"] }
=============================================================================
