---------------------------- MODULE MCCollector ----------------------------
EXTENDS Collector

MCCounters == {<<4, 1>>, <<2, 3>>}
MCWork == {1}
MCPlanned == <<"preparation", "idle">>
=============================================================================
