---------------------------- MODULE MCLaunchRules ----------------------------
(* LaunchRules with one tool, the default folder and another one.           *)
EXTENDS LaunchRules, TLC

CONSTANTS tool, other

Command(kind, keys, tools, folder) ==
  [kind |-> kind, keys |-> keys, rules |-> [tools |-> tools, folder |-> folder]]

SomeCommands ==
  {Command("settings", {"tools"}, {tool}, NoFolder), Command("settings", {"tools"}, {}, NoFolder),
   Command("settings", {"folder"}, {}, Default), Command("settings", {"folder"}, {}, other),
   Command("settings", {"folder"}, {}, NoFolder), Command("settings", {}, {}, NoFolder)}
  \cup {Command(kind, {}, {}, NoFolder) : kind \in Starts \cup {"vm_stop", "status"}}
  \cup {Command("vm_start", {"tools"}, {tool}, NoFolder), Command("once", {"folder"}, {}, other)}

Symmetry == Permutations(Operators)
=============================================================================
