SPECIFICATION RowSpec
CONSTANTS
    Column <- MCColumn
    TypeOf <- MCTypeOf
    ValuesOf <- MCValuesOf
INVARIANT MySqlTellsTheTable
CHECK_DEADLOCK FALSE
