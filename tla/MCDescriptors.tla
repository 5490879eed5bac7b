--------------------------- MODULE MCDescriptors ---------------------------
(***************************************************************************)
(* Calls on descriptors: of each kind, one that succeeds on its own, ones  *)
(* that fail on a type, a code or a direction, and one that unbinds; and   *)
(* two result sets.                                                        *)
(***************************************************************************)
EXTENDS Descriptors

MCFieldCall ==
  ({0} \X {<<"ArraySize", 2>>, <<"ArrayStatusPtr", 1>>, <<"RowsProcessedPtr", 1>>, <<"Count", 0>>})
  \cup ({0, 1} \X {<<"DataPtr", TRUE>>, <<"Type", "datetime">>})
  \cup ({1} \X {<<"Scale", 1>>, <<"Scale", MaxI16 + 1>>, <<"Length", -1>>,
                 <<"DatetimeIntervalCode", 3>>, <<"ParameterType", None>>})
MCRecCall == {<<"datetime", 3, 0, 0, 0, TRUE, TRUE>>, <<"integer", 3, 4, 0, 0, TRUE, FALSE>>}
MCColCall ==
  {<<"integer", TRUE, FALSE>>, <<"decimal", TRUE, TRUE>>, <<"integer", FALSE, FALSE>>}
MCParamCall ==
  {<<"Input", "integer", "integer", 0, 0, TRUE, TRUE>>,
   <<"Input", "integer", "decimal", 2, 3, TRUE, TRUE>>,
   <<"Output", "datetime", "timestamp", 0, 0, FALSE, TRUE>>,
   <<"Input", "integer", "integer", 0, 0, FALSE, FALSE>>,
   <<None, "integer", "integer", 0, 0, TRUE, TRUE>>}
MCAttrCall == {<<"RowArraySize", 2>>, <<"RowStatusPtr", 1>>, <<"ParamBindOffsetPtr", 1>>}

Col(t, precision, scale) ==
  [sql_type |-> t, precision |-> precision, scale |-> scale, nullable |-> 1]
MCResults == {<<>>, <<Col("timestamp", 23, 3), Col("decimal", 5, 2),
                      Col("varchar", PrecisionUndeterminable, 0)>>}
=============================================================================
