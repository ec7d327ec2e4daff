SPECIFICATION Spec
CONSTANT IrqLevels = 6
PROPERTY NoSwitchInSpm AttemptServed
