SPECIFICATION Spec
CHECK_DEADLOCK FALSE
INVARIANTS TypeOK OneOwner LossesAccounted SpectrumWhole SilenceIsReal ResponseBounded TellsStage
  ScreenIsRight CommandReachesItsSensor PictureIsTrue TrainIsWhole
PROPERTY DtcAnnounced
