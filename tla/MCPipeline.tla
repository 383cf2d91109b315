----------------------------- MODULE MCPipeline -----------------------------
\* Tasks for TLC: every combination of faults of the two queries and of the
\* schema that a task can have at once.
EXTENDS Pipeline

AllTasks ==
  {t \in Task :
     /\ t.noTable \subseteq t.reads
     /\ t.emptyText /\ t.catalog = "text" => t.noTable = t.reads}

=============================================================================
