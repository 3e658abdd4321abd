---------------------------- MODULE MC_PluginList ----------------------------
EXTENDS PluginList

\* the plugins compiled in, in load order
MCKinds == <<"flowtuple", "report">>

\* plugins: [report, flowtuple]: both enabled, in the other order
MCYaml == <<[name |-> "report", map |-> TRUE], [name |-> "flowtuple", map |-> TRUE]>>

\* plugins: [report (a map), flowtuple (not a map)]
MCYamlBad == <<[name |-> "report", map |-> TRUE], [name |-> "flowtuple", map |-> FALSE]>>
=============================================================================
